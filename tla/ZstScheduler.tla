---------------------------- MODULE ZstScheduler ----------------------------
(***************************************************************************)
(* The scheduler (zst_scheduler.c) and the dynamic changes of a pipeline   *)
(* it runs beside (zst_pipeline.c:679-870).                                *)
(*                                                                         *)
(* Workers pop task tokens from the ready queue and run process() of the   *)
(* token's element; a worker that finds the queue empty rescans the cached *)
(* source roots.  One application thread, Ctrl, runs and stops the         *)
(* scheduler, plays and pauses elements, and adds and removes them, alone  *)
(* or inside a reconfiguration.                                            *)
(*                                                                         *)
(* Elements are the ones a worker may drive: source roots, which have no   *)
(* linked sink pad.  The states READY and PAUSED are one state here, IDLE: *)
(* the scheduler only tells PLAYING from the rest, and close() is what     *)
(* enters NULL.  The ready queue is a bounded FIFO (ZstFifo is what        *)
(* ZstQueue is shown to implement).  The elements lock follows glibc: a    *)
(* read lock asked for by the thread that holds the write lock fails       *)
(* (EDEADLK, which the code ignores), and an unlock drops the write lock   *)
(* when the caller holds it and a read lock otherwise.                     *)
(***************************************************************************)
EXTENDS Integers, Sequences, FiniteSets, SequencesExt

CONSTANTS
    Workers,       \* the worker threads
    Ctrl,          \* the application's thread
    Elements,      \* elements that are, or may become, source roots
    Initial,       \* the ones in the pipeline when it starts
    Pure,          \* the ones without any sink pad, which requeue themselves
    QueueCap,      \* capacity of the ready queue (2048 in the code)
    BareAdds,      \* the application adds outside reconfigurations while running
    None

VARIABLES
    running,       \* p->running
    ready,         \* p->ready_queue: a token stands for its element
    isQueued,      \* el->is_queued
    taskRefs,      \* el->sched_task_refs
    state,         \* el->state
    owned,         \* el->sched_token->memory.priv # NULL
    members,       \* pipe->elements
    cache,         \* p->source_roots
    cacheLock,     \* the holder of p->source_cache_lock
    stale,         \* p->source_roots_graph_version # pipe->graph_version
    dirty,         \* pipe->buffer_pool_sizing_dirty
    writer,        \* the holder of the write side of pipe->elements_lock
    readers,       \* its readers, as the lock counts them
    reconf,        \* pipe->reconfiguration_active (its owner is Ctrl)
    pc,            \* where a thread is
    task,          \* the element whose token a worker holds
    arg,           \* the element a thread is inside zst_scheduler_queue_task with
    todo,          \* the roots a thread has still to look at
    subject,       \* the element Ctrl is adding or removing
    then,          \* where Ctrl goes on after a scan
    removed        \* history: elements that were removed

lockVars == <<writer, readers, cacheLock>>
rwVars   == <<writer, readers>>
elemVars == <<isQueued, taskRefs, state, owned>>
pipeVars == <<members, cache, stale, dirty, reconf, removed>>
ctrlVars == <<subject, then>>
vars == <<running, ready, elemVars, pipeVars, lockVars, pc, task, arg, todo, ctrlVars>>

Threads == Workers \cup {Ctrl}

ASSUME SchedulerAssumption ==
    /\ Ctrl \notin Workers /\ IsFiniteSet(Workers)
    /\ None \notin Elements \cup Workers \cup {Ctrl}
    /\ Initial \subseteq Elements /\ Pure \subseteq Elements
    /\ QueueCap \in Nat \ {0}
    /\ BareAdds \in BOOLEAN

Goto(t, l) == pc' = [pc EXCEPT ![t] = l]

(* pthread_rwlock on glibc *)
CanRead(t) == writer \in {None, t}
RdLock(t)  == CanRead(t) /\ readers' = (IF writer = t THEN readers ELSE readers + 1)
              /\ UNCHANGED writer
WrLock(t)  == writer = None /\ readers = 0 /\ writer' = t /\ UNCHANGED readers
Unlock(t)  == IF writer = t THEN writer' = None /\ UNCHANGED readers
                            ELSE readers' = readers - 1 /\ UNCHANGED writer

Init ==
    /\ running = FALSE
    /\ ready = <<>>
    /\ isQueued = [e \in Elements |-> FALSE]
    /\ taskRefs = [e \in Elements |-> 0]
    /\ state = [e \in Elements |-> IF e \in Initial THEN "IDLE" ELSE "NULL"]
    /\ owned = [e \in Elements |-> e \in Initial]
    /\ members = Initial
    /\ cache = {} /\ stale = TRUE /\ dirty = TRUE
    /\ writer = None /\ readers = 0 /\ cacheLock = None
    /\ reconf = FALSE
    /\ pc = [t \in Threads |-> IF t = Ctrl THEN "idle" ELSE "off"]
    /\ task = [w \in Workers |-> None]
    /\ arg = [t \in Threads |-> None]
    /\ todo = [t \in Threads |-> {}]
    /\ subject = None /\ then = "idle"
    /\ removed = {}

-----------------------------------------------------------------------------
(* zst_scheduler_queue_task(arg): the element is claimed with one exchange *)
(* of is_queued, then counted and its token pushed; a push that fails is   *)
(* undone in two steps.                                                    *)

(* Back to the caller: a worker that requeues its own task releases the    *)
(* token next, everybody else is in the middle of a scan.                  *)
AfterQueueTask(t) == IF t \in Workers /\ task[t] # None THEN "release" ELSE "scan"

QueueTask(t) ==
    /\ pc[t] = "queue"
    /\ IF running /\ ~isQueued[arg[t]]
       THEN /\ isQueued' = [isQueued EXCEPT ![arg[t]] = TRUE]
            /\ Goto(t, "push")
            /\ UNCHANGED arg
       ELSE /\ Goto(t, AfterQueueTask(t))
            /\ arg' = [arg EXCEPT ![t] = None]
            /\ UNCHANGED isQueued
    /\ UNCHANGED <<running, ready, taskRefs, state, owned, pipeVars, lockVars, task,
                   todo, ctrlVars>>

(* The task is counted before its token is in the queue. *)
CountTask(t) ==
    /\ pc[t] = "push"
    /\ taskRefs' = [taskRefs EXCEPT ![arg[t]] = @ + 1]
    /\ Goto(t, "enqueue")
    /\ UNCHANGED <<running, ready, isQueued, state, owned, pipeVars, lockVars, task, arg,
                   todo, ctrlVars>>

(* zst_queue_push with no time to wait. *)
PushToken(t) ==
    /\ pc[t] = "enqueue"
    /\ IF Len(ready) < QueueCap
       THEN /\ ready' = Append(ready, arg[t])
            /\ Goto(t, AfterQueueTask(t))
            /\ arg' = [arg EXCEPT ![t] = None]
       ELSE Goto(t, "uncount") /\ UNCHANGED <<ready, arg>>
    /\ UNCHANGED <<running, elemVars, pipeVars, lockVars, task, todo, ctrlVars>>

(* Mutant of the next: is_queued is not taken back. *)
UncountTask_StaysQueued(t) ==
    /\ pc[t] = "uncount"
    /\ taskRefs' = [taskRefs EXCEPT ![arg[t]] = @ - 1]
    /\ Goto(t, AfterQueueTask(t))
    /\ arg' = [arg EXCEPT ![t] = None]
    /\ UNCHANGED <<running, ready, isQueued, state, owned, pipeVars, lockVars, task, todo,
                   ctrlVars>>

(* The queue was full: the count and then the mark are taken back. *)
UncountTask(t) ==
    /\ pc[t] = "uncount"
    /\ taskRefs' = [taskRefs EXCEPT ![arg[t]] = @ - 1]
    /\ Goto(t, "unqueue")
    /\ UNCHANGED <<running, ready, isQueued, state, owned, pipeVars, lockVars, task, arg,
                   todo, ctrlVars>>

UnqueueTask(t) ==
    /\ pc[t] = "unqueue"
    /\ isQueued' = [isQueued EXCEPT ![arg[t]] = FALSE]
    /\ Goto(t, AfterQueueTask(t))
    /\ arg' = [arg EXCEPT ![t] = None]
    /\ UNCHANGED <<running, ready, taskRefs, state, owned, pipeVars, lockVars, task, todo,
                   ctrlVars>>

-----------------------------------------------------------------------------
(* scheduler_queue_source_roots(playing_only): under the read lock, the    *)
(* cached roots are rebuilt when the graph version moved, and the PLAYING  *)
(* ones are queued.                                                        *)

ScanLock(t) ==
    /\ pc[t] = "rescan"
    /\ RdLock(t)
    /\ Goto(t, "refresh")
    /\ UNCHANGED <<running, ready, elemVars, pipeVars, cacheLock, task, arg, todo,
                   ctrlVars>>

(* The walk holds source_cache_lock, too.                                  *)
ScanBegin(t) ==
    /\ pc[t] = "refresh"
    /\ cacheLock = None /\ cacheLock' = t
    /\ cache' = IF stale THEN members ELSE cache
    /\ stale' = FALSE
    /\ todo' = [todo EXCEPT ![t] = cache']
    /\ Goto(t, "scan")
    /\ UNCHANGED <<running, ready, elemVars, members, dirty, reconf, removed, rwVars,
                   task, arg, ctrlVars>>

(* No memory for the roots: the walk goes over the elements themselves.    *)
ScanUncached(t) ==
    /\ pc[t] = "refresh"
    /\ cacheLock = None /\ stale
    /\ todo' = [todo EXCEPT ![t] = members]
    /\ Goto(t, "scan")
    /\ UNCHANGED <<running, ready, elemVars, pipeVars, lockVars, task, arg, ctrlVars>>

(* zst_scheduler_run queues the elements without sink pads instead,        *)
(* whatever their state is.                                                *)
Wanted(t, e) == IF t = Ctrl /\ then = "spawn" THEN e \in Pure ELSE state[e] = "PLAYING"

ScanNext(t) ==
    /\ pc[t] = "scan"
    /\ \E e \in todo[t] :
        /\ todo' = [todo EXCEPT ![t] = @ \ {e}]
        /\ IF Wanted(t, e)
           THEN arg' = [arg EXCEPT ![t] = e] /\ Goto(t, "queue")
           ELSE UNCHANGED <<arg, pc>>
    /\ UNCHANGED <<running, ready, elemVars, pipeVars, lockVars, task, ctrlVars>>

ScanEnd(t) ==
    /\ pc[t] = "scan"
    /\ todo[t] = {}
    /\ Unlock(t)
    /\ cacheLock' = IF cacheLock = t THEN None ELSE cacheLock
    /\ Goto(t, IF t = Ctrl THEN then ELSE "loop")
    /\ UNCHANGED <<running, ready, elemVars, pipeVars, task, arg, todo, ctrlVars>>

-----------------------------------------------------------------------------
(* worker_pool_loop and execute_element_task *)

WorkerLoop(w) ==
    /\ pc[w] = "loop"
    /\ Goto(w, IF running THEN "pop" ELSE "exit")
    /\ UNCHANGED <<running, ready, elemVars, pipeVars, lockVars, task, arg, todo, ctrlVars>>

(* zst_queue_pop with 2 ms to wait. *)
WorkerPop_ResetsEarly(w) ==
    /\ pc[w] = "pop"
    /\ IF ready # <<>>
       THEN /\ task' = [task EXCEPT ![w] = Head(ready)]
            /\ isQueued' = [isQueued EXCEPT ![Head(ready)] = FALSE]
            /\ ready' = Tail(ready)
            /\ Goto(w, "got")
       ELSE Goto(w, "rescan") /\ UNCHANGED <<task, ready, isQueued>>
    /\ UNCHANGED <<running, taskRefs, state, owned, pipeVars, lockVars, arg, todo,
                   ctrlVars>>

WorkerPop(w) ==
    /\ pc[w] = "pop"
    /\ IF ready # <<>>
       THEN /\ task' = [task EXCEPT ![w] = Head(ready)]
            /\ ready' = Tail(ready)
            /\ Goto(w, "got")
       ELSE Goto(w, "rescan") /\ UNCHANGED <<task, ready>>
    /\ UNCHANGED <<running, elemVars, pipeVars, lockVars, arg, todo, ctrlVars>>

(* The token of a removed element leads nowhere ... *)
WorkerCheck(w) ==
    /\ pc[w] = "got"
    /\ Goto(w, IF owned[task[w]] THEN "check" ELSE "release")
    /\ UNCHANGED <<running, ready, elemVars, pipeVars, lockVars, task, arg, todo, ctrlVars>>

(* ... and one of an element that does not play is dropped.                *)
WorkerPlaying(w) ==
    /\ pc[w] = "check"
    /\ Goto(w, IF state[task[w]] = "PLAYING" THEN "size" ELSE "reset")
    /\ UNCHANGED <<running, ready, elemVars, pipeVars, lockVars, task, arg, todo, ctrlVars>>

(* zst_pipeline_update_buffer_pool_sizing_if_needed, before process() and  *)
(* after a successful one: when the graph or the element's pool changed,   *)
(* the pools are resized under the read lock, held for this step only.     *)
WorkerSize(w) ==
    /\ pc[w] \in {"size", "resize"}
    /\ \/ ~dirty
       \/ CanRead(w)
    /\ dirty' = FALSE
    /\ Goto(w, IF pc[w] = "size" THEN "process"
               ELSE IF task[w] \in Pure THEN "requeue" ELSE "reset")
    /\ UNCHANGED <<running, ready, elemVars, members, cache, stale, reconf, removed,
                   lockVars, task, arg, todo, ctrlVars>>

(* process() returns: after ZST_OK the output is pushed and an element     *)
(* without sink pads queues itself again, ZST_AGAIN and ZST_TIMEOUT queue  *)
(* any element again, ZST_EOF ends it, and after an error it waits for the *)
(* next scan.                                                              *)
WorkerReturns(w) ==
    /\ pc[w] = "process"
    /\ \E l \in {"resize", "requeue", "reset"} : Goto(w, l)
    /\ UNCHANGED <<running, ready, elemVars, pipeVars, lockVars, task, arg, todo, ctrlVars>>

WorkerEof(w) ==
    /\ pc[w] = "process"
    /\ state' = [state EXCEPT ![task[w]] = "IDLE"]
    /\ Goto(w, "reset")
    /\ UNCHANGED <<running, ready, isQueued, taskRefs, owned, pipeVars, lockVars, task,
                   arg, todo, ctrlVars>>

WorkerReset(w) ==
    /\ pc[w] \in {"reset", "requeue"}
    /\ isQueued' = [isQueued EXCEPT ![task[w]] = FALSE]
    /\ IF pc[w] = "requeue"
       THEN arg' = [arg EXCEPT ![w] = task[w]] /\ Goto(w, "queue")
       ELSE Goto(w, "release") /\ UNCHANGED arg
    /\ UNCHANGED <<running, ready, taskRefs, state, owned, pipeVars, lockVars, task,
                   todo, ctrlVars>>

(* zst_scheduler_release_task_buffer *)
WorkerRelease(w) ==
    /\ pc[w] = "release"
    /\ taskRefs' = IF owned[task[w]] THEN [taskRefs EXCEPT ![task[w]] = @ - 1]
                                     ELSE taskRefs
    /\ task' = [task EXCEPT ![w] = None]
    /\ Goto(w, "loop")
    /\ UNCHANGED <<running, ready, isQueued, state, owned, pipeVars, lockVars, arg,
                   todo, ctrlVars>>

-----------------------------------------------------------------------------
(* Ctrl: zst_scheduler_run and zst_scheduler_stop *)

CtrlRun ==
    /\ pc[Ctrl] = "idle"
    /\ ~running /\ ~reconf
    /\ readers = 0 /\ writer = None          \* the topological sort
    /\ running' = TRUE
    /\ dirty' = FALSE
    /\ readers' = 1
    /\ todo' = [todo EXCEPT ![Ctrl] = members]
    /\ then' = "spawn"
    /\ Goto(Ctrl, "scan")
    /\ UNCHANGED <<ready, elemVars, members, cache, stale, reconf, removed, writer,
                   cacheLock, task, arg, subject>>

CtrlSpawn ==
    /\ pc[Ctrl] = "spawn"
    /\ pc' = [t \in Threads |-> IF t = Ctrl THEN "idle" ELSE "loop"]
    /\ then' = "idle"
    /\ UNCHANGED <<running, ready, elemVars, pipeVars, lockVars, task, arg, todo, subject>>

CtrlStop ==
    /\ pc[Ctrl] = "idle"
    /\ running /\ ~reconf
    /\ running' = FALSE
    /\ Goto(Ctrl, "join")
    /\ UNCHANGED <<ready, elemVars, pipeVars, lockVars, task, arg, todo, ctrlVars>>

(* The workers are joined, and the tokens left in the queue released. *)
CtrlJoin ==
    /\ pc[Ctrl] = "join"
    /\ \A w \in Workers : pc[w] = "exit"
    /\ pc' = [t \in Threads |-> IF t = Ctrl THEN "idle" ELSE "off"]
    /\ LET drained == {e \in ToSet(ready) : owned[e]}
       IN  /\ isQueued' = [e \in Elements |-> isQueued[e] /\ e \notin drained]
           /\ taskRefs' = [e \in Elements |->
                              taskRefs[e] - (IF e \in drained THEN 1 ELSE 0)]
    /\ ready' = <<>>
    /\ UNCHANGED <<running, state, owned, pipeVars, lockVars, task, arg, todo, ctrlVars>>

(* zst_scheduler_wake, and on to where Ctrl was going; a scheduler that is *)
(* not running is left alone.                                              *)
CtrlWake ==
    /\ pc[Ctrl] = "wake"
    /\ Goto(Ctrl, IF running THEN "rescan" ELSE then)
    /\ UNCHANGED <<running, ready, elemVars, pipeVars, lockVars, task, arg, todo, ctrlVars>>

(* zst_element_set_state: PLAYING wakes the scheduler, except from inside  *)
(* the owner's reconfiguration.                                            *)
CtrlPlay(e) ==
    /\ pc[Ctrl] = "idle"
    /\ e \in members /\ state[e] = "IDLE"
    /\ state' = [state EXCEPT ![e] = "PLAYING"]
    /\ then' = "idle"
    /\ Goto(Ctrl, IF reconf THEN "idle" ELSE "wake")
    /\ UNCHANGED <<running, ready, isQueued, taskRefs, owned, pipeVars, lockVars, task,
                   arg, todo, subject>>

CtrlPause(e) ==
    /\ pc[Ctrl] = "idle"
    /\ e \in members /\ state[e] = "PLAYING"
    /\ state' = [state EXCEPT ![e] = "IDLE"]
    /\ UNCHANGED <<running, ready, isQueued, taskRefs, owned, pipeVars, lockVars, pc,
                   task, arg, todo, ctrlVars>>

-----------------------------------------------------------------------------
(* Ctrl: reconfiguration of the graph *)

CtrlBegin ==
    /\ pc[Ctrl] = "idle"
    /\ ~reconf
    /\ WrLock(Ctrl)
    /\ reconf' = TRUE
    /\ UNCHANGED <<running, ready, elemVars, members, cache, stale, dirty, removed, pc,
                   cacheLock, task, arg, todo, ctrlVars>>

CtrlEnd ==
    /\ pc[Ctrl] = "idle"
    /\ reconf
    /\ reconf' = FALSE
    /\ Goto(Ctrl, "finish")
    /\ UNCHANGED <<running, ready, elemVars, members, cache, stale, dirty, removed,
                   lockVars, task, arg, todo, ctrlVars>>

(* pipeline_reconfiguration_finish_locked: ranks and order are computed    *)
(* under the write lock, then the lock is dropped, the scheduler woken and *)
(* the buffer pools resized.                                               *)
CtrlFinish ==
    /\ pc[Ctrl] = "finish"
    /\ stale' = TRUE /\ dirty' = TRUE
    /\ Unlock(Ctrl)
    /\ then' = "resize"
    /\ Goto(Ctrl, "wake")
    /\ UNCHANGED <<running, ready, elemVars, members, cache, reconf, removed, cacheLock,
                   task, arg, todo, subject>>

CtrlResize ==
    /\ pc[Ctrl] = "resize"
    /\ dirty' = FALSE
    /\ then' = "idle"
    /\ Goto(Ctrl, "idle")
    /\ UNCHANGED <<running, ready, elemVars, members, cache, stale, reconf, removed,
                   lockVars, task, arg, todo, subject>>

(* zst_pipeline_add_element_dynamic on a pipeline that plays: the element  *)
(* joins the list and starts playing, under the write lock, which the call *)
(* takes itself when it is not inside a reconfiguration.                   *)
CtrlAdd(e) ==
    /\ pc[Ctrl] = "idle"
    /\ e \notin members /\ e \notin removed
    /\ reconf \/ ~running \/ BareAdds
    /\ IF reconf THEN UNCHANGED rwVars ELSE WrLock(Ctrl)
    /\ members' = members \cup {e}
    /\ owned' = [owned EXCEPT ![e] = TRUE]
    /\ stale' = TRUE /\ dirty' = TRUE
    /\ subject' = e
    /\ Goto(Ctrl, "join_state")
    /\ UNCHANGED <<running, ready, isQueued, taskRefs, state, cache, reconf, removed,
                   cacheLock, task, arg, todo, then>>

CtrlAdded ==
    /\ pc[Ctrl] = "join_state"
    /\ state' = [state EXCEPT ![subject] = "PLAYING"]
    /\ subject' = None
    /\ then' = IF reconf THEN "idle" ELSE "finish"
    /\ Goto(Ctrl, IF reconf THEN "idle" ELSE "wake")
    /\ UNCHANGED <<running, ready, isQueued, taskRefs, owned, pipeVars, lockVars, task,
                   arg, todo>>

(* The element's hooks fail: it is taken out again. *)
CtrlAddFails ==
    /\ pc[Ctrl] = "join_state"
    /\ members' = members \ {subject}
    /\ owned' = [owned EXCEPT ![subject] = FALSE]
    /\ stale' = TRUE /\ dirty' = TRUE
    /\ subject' = None
    /\ IF reconf THEN UNCHANGED rwVars ELSE Unlock(Ctrl)
    /\ Goto(Ctrl, "idle")
    /\ UNCHANGED <<running, ready, isQueued, taskRefs, state, cache, reconf, removed,
                   cacheLock, task, arg, todo, then>>

(* zst_pipeline_remove_element_dynamic: stop the element, wait without the *)
(* lock until no task refers to it, then close it and take it out.         *)
CtrlRemove(e) ==
    /\ pc[Ctrl] = "idle"
    /\ e \in members
    /\ state' = [state EXCEPT ![e] = "IDLE"]
    /\ subject' = e
    /\ IF reconf THEN Unlock(Ctrl) ELSE UNCHANGED rwVars
    /\ Goto(Ctrl, "drain")
    /\ UNCHANGED <<running, ready, isQueued, taskRefs, owned, pipeVars, cacheLock, task,
                   arg, todo, then>>

CtrlDrained ==
    /\ pc[Ctrl] = "drain"
    /\ taskRefs[subject] = 0
    /\ Goto(Ctrl, "relock")
    /\ UNCHANGED <<running, ready, elemVars, pipeVars, lockVars, task, arg, todo, ctrlVars>>

CtrlRelock ==
    /\ pc[Ctrl] = "relock"
    /\ WrLock(Ctrl)
    /\ Goto(Ctrl, "close")
    /\ UNCHANGED <<running, ready, elemVars, pipeVars, cacheLock, task, arg, todo,
                   ctrlVars>>

CtrlClose_SameVersion ==
    /\ pc[Ctrl] = "close"
    /\ state' = [state EXCEPT ![subject] = "NULL"]
    /\ members' = members \ {subject}
    /\ owned' = [owned EXCEPT ![subject] = FALSE]
    /\ removed' = removed \cup {subject}
    /\ subject' = None
    /\ then' = "idle"
    /\ IF reconf THEN UNCHANGED rwVars ELSE Unlock(Ctrl)
    /\ Goto(Ctrl, IF reconf THEN "idle" ELSE "wake")
    /\ UNCHANGED <<running, ready, isQueued, taskRefs, cache, stale, dirty, reconf,
                   cacheLock, task, arg, todo>>

CtrlClose ==
    /\ pc[Ctrl] = "close"
    /\ state' = [state EXCEPT ![subject] = "NULL"]
    /\ members' = members \ {subject}
    /\ owned' = [owned EXCEPT ![subject] = FALSE]
    /\ stale' = TRUE /\ dirty' = TRUE
    /\ removed' = removed \cup {subject}
    /\ subject' = None
    /\ Goto(Ctrl, IF reconf THEN "idle" ELSE "finish")
    /\ UNCHANGED <<running, ready, isQueued, taskRefs, cache, reconf, lockVars, task,
                   arg, todo, then>>

-----------------------------------------------------------------------------
QueueTasks(t) ==
    QueueTask(t) \/ CountTask(t) \/ PushToken(t) \/ UncountTask(t) \/ UnqueueTask(t)

Scan(t) == ScanLock(t) \/ ScanBegin(t) \/ ScanUncached(t) \/ ScanNext(t) \/ ScanEnd(t)

Worker(w) ==
    \/ QueueTasks(w) \/ Scan(w)
    \/ WorkerLoop(w) \/ WorkerPop(w) \/ WorkerCheck(w) \/ WorkerPlaying(w)
    \/ WorkerSize(w) \/ WorkerReturns(w) \/ WorkerEof(w) \/ WorkerReset(w) \/ WorkerRelease(w)

(* What Ctrl does by itself once a call is under way ... *)
CtrlGoesOn ==
    \/ QueueTasks(Ctrl) \/ Scan(Ctrl)
    \/ CtrlSpawn \/ CtrlJoin \/ CtrlWake \/ CtrlFinish \/ CtrlResize
    \/ CtrlAdded \/ CtrlAddFails \/ CtrlDrained \/ CtrlRelock \/ CtrlClose

(* ... and the calls it may make. *)
CtrlCalls ==
    \/ CtrlRun \/ CtrlStop \/ CtrlBegin \/ CtrlEnd
    \/ \E e \in Elements : CtrlPlay(e) \/ CtrlPause(e) \/ CtrlAdd(e) \/ CtrlRemove(e)

Next == CtrlCalls \/ CtrlGoesOn \/ \E w \in Workers : Worker(w)

Spec == Init /\ [][Next]_vars

(* Threads are scheduled and process() returns (zst_queue_pop has a        *)
(* timeout); a writer that finds the lock free again and again gets it.    *)
FairSpec ==
    /\ Spec
    /\ \A w \in Workers : WF_vars(Worker(w))
    /\ WF_vars(CtrlGoesOn)
    /\ SF_vars(CtrlRelock)

-----------------------------------------------------------------------------
(* Properties *)

(* Types; in particular the lock is released as often as it is taken.      *)
TypeOK ==
    /\ running \in BOOLEAN /\ stale \in BOOLEAN /\ dirty \in BOOLEAN /\ reconf \in BOOLEAN
    /\ \A k \in DOMAIN ready : ready[k] \in Elements
    /\ Len(ready) <= QueueCap
    /\ isQueued \in [Elements -> BOOLEAN] /\ owned \in [Elements -> BOOLEAN]
    /\ taskRefs \in [Elements -> 0 .. Cardinality(Workers) + 1]
    /\ state \in [Elements -> {"NULL", "IDLE", "PLAYING"}]
    /\ members \subseteq Elements /\ cache \subseteq Elements /\ removed \subseteq Elements
    /\ writer \in {None, Ctrl} /\ readers \in 0 .. Cardinality(Threads)
    /\ cacheLock \in Threads \cup {None}
    /\ task \in [Workers -> Elements \cup {None}]
    /\ arg \in [Threads -> Elements \cup {None}]
    /\ todo \in [Threads -> SUBSET Elements]
    /\ subject \in Elements \cup {None}

(* zst_scheduler.c:54, 229, 252: is_queued lets one worker at a time into  *)
(* process() of an element, although it is reset before the token is       *)
(* released and every idle worker rescans.                                 *)
ExclusiveProcess ==
    \A w1, w2 \in Workers :
        pc[w1] = "process" /\ pc[w2] = "process" /\ task[w1] = task[w2] => w1 = w2

(* zst_pipeline.c:802-806: no process() runs on an element that            *)
(* zst_pipeline_remove_element_dynamic has closed.                         *)
NoProcessAfterClose ==
    \A w \in Workers : pc[w] = "process" => state[task[w]] # "NULL"

(* zst_scheduler.c:62-69, 85: sched_task_refs counts the tokens in the     *)
(* queue, in the hands of workers and on their way into the queue or back  *)
(* from a full one, so that waiting for zero is waiting for all of them    *)
(* (while the element is in the pipeline).                                 *)
Counted(e) == {t \in Threads : pc[t] \in {"enqueue", "uncount"} /\ arg[t] = e}
Held(e) == Cardinality({w \in Workers : task[w] = e})
InQueue(e) == Cardinality({k \in DOMAIN ready : ready[k] = e})

RefsExact ==
    \A e \in Elements \ removed : taskRefs[e] = InQueue(e) + Held(e) + Cardinality(Counted(e))

(* zst_scheduler.c:54: an element marked as queued has a token on its way  *)
(* through the scheduler; otherwise nothing would ever queue it again.     *)
QueuedHasToken ==
    \A e \in Elements \ removed : isQueued[e] =>
        \/ InQueue(e) = 1
        \/ \E t \in Threads :
               arg[t] = e /\ pc[t] \in {"push", "enqueue", "uncount", "unqueue"}
        \/ \E w \in Workers :
               task[w] = e /\ pc[w] \in {"got", "check", "size", "process", "resize", "reset", "requeue"}

(* Both: no task is lost and none is counted twice, also when the push to  *)
(* a full ready queue is taken back (zst_scheduler.c:66-69).               *)
TasksAccounted == RefsExact /\ QueuedHasToken

(* zst_scheduler.c:119-153: the cached roots a thread walks over are all   *)
(* elements of the pipeline, although elements are removed between scans.  *)
CacheFresh ==
    \A t \in Threads : pc[t] = "scan" => todo[t] \subseteq members

(* zst_scheduler.c:396-402: a stopped scheduler leaves no task behind, so  *)
(* it can be run again.                                                    *)
StoppedClean ==
    ~running /\ pc[Ctrl] = "idle" =>
        /\ ready = <<>>
        /\ \A e \in Elements \ removed : taskRefs[e] = 0 /\ ~isQueued[e]

(* wiki/phase-adaptive-stream-demuxing.md:383: the graph is changed, and   *)
(* its ranks are computed (pipeline_reconfiguration_finish_locked), under  *)
(* the write lock.                                                         *)
ChangesUnderLock ==
    pc[Ctrl] \in {"finish", "close", "join_state"} => writer = Ctrl /\ readers = 0

(* zst_pipeline.c:834-835: "All scheduler callbacks are now drained".      *)
DrainedAtClose ==
    pc[Ctrl] = "close" => taskRefs[subject] = 0

(* Every call of the application returns: stop joins its workers, a        *)
(* removal finds its element drained and gets the lock.  The lock prefers  *)
(* readers; that the scans of several workers do not overlap for ever (a   *)
(* scan is short, and 2 ms of waiting lie between two of one worker) is    *)
(* the premise.                                                            *)
CtrlReturns ==
    []<>(readers = 0) => (pc[Ctrl] # "idle" ~> pc[Ctrl] = "idle")

(* zst_pipeline.c:802-836, zst_scheduler.c:379-402: the application waits  *)
(* for workers, in stop or until no task refers to an element it removes,  *)
(* without the lock that their scans need, inside a reconfiguration too;   *)
(* and what a removal waits for is within the reach of workers that run.   *)
WaitsServed ==
    /\ pc[Ctrl] \in {"drain", "join"} => writer # Ctrl
    /\ pc[Ctrl] = "drain" /\ taskRefs[subject] > 0 =>
          /\ running
          /\ \/ subject \in ToSet(ready) \/ Counted(subject) # {}
             \/ \E w \in Workers : task[w] = subject

(* zst_scheduler.c:188-262, zst_pipeline.c:802-836: process() of an        *)
(* element runs in one worker, and not once a removal has closed it:       *)
(* ExclusiveProcess and NoProcessAfterClose.                               *)
ProcessGuarded == ExclusiveProcess /\ NoProcessAfterClose

(* zst_scheduler.c:54-88, 396-402: tasks, marks and references agree       *)
(* through full queues, removals and stops: types, TasksAccounted and      *)
(* StoppedClean.                                                           *)
TasksExact == TypeOK /\ TasksAccounted /\ StoppedClean

(* zst_scheduler.c:119-153, zst_pipeline.c:700-850: who walks over the     *)
(* elements sees those of the pipeline, who changes them is alone, and who *)
(* waits for the workers does not keep them from their walk: CacheFresh,   *)
(* ChangesUnderLock and WaitsServed.                                       *)
GraphGuarded == CacheFresh /\ ChangesUnderLock /\ WaitsServed
=============================================================================
