------------------------- MODULE ZstSchedulerProofs -------------------------
(***************************************************************************)
(* The scheduler's tasks, locks and removals (zst_scheduler.c and          *)
(* zst_pipeline.c:679-870), for every number of workers and of elements    *)
(* and every capacity of the ready queue.                                  *)
(***************************************************************************)
EXTENDS ZstScheduler, SequenceTheorems, FiniteSetTheorems, TLAPS

-----------------------------------------------------------------------------
(* The inductive invariant.                                                 *)

Scans   == {"refresh", "scan"}
Pushes  == {"push", "enqueue", "uncount", "unqueue"}
Carries == {"enqueue", "uncount"}
Queues  == {"queue"} \cup Pushes
Claims  == {"got", "check", "size", "process", "resize", "reset", "requeue"}
Runs    == {"size", "process", "resize", "requeue"}
WorkerPcs == {"off", "loop", "pop", "rescan", "release", "exit"} \cup Scans \cup Queues \cup Claims
CtrlPcs == {"idle", "rescan", "spawn", "join", "wake", "finish", "resize", "join_state",
            "drain", "relock", "close"} \cup Scans \cup Queues

Types ==
    /\ running \in BOOLEAN /\ stale \in BOOLEAN /\ dirty \in BOOLEAN /\ reconf \in BOOLEAN
    /\ ready \in Seq(Elements) /\ Len(ready) <= QueueCap
    /\ isQueued \in [Elements -> BOOLEAN] /\ owned \in [Elements -> BOOLEAN]
    /\ taskRefs \in [Elements -> Nat]
    /\ state \in [Elements -> {"NULL", "IDLE", "PLAYING"}]
    /\ members \subseteq Elements /\ cache \subseteq Elements /\ removed \subseteq Elements
    /\ writer \in {None, Ctrl} /\ readers \in Nat
    /\ cacheLock \in Threads \cup {None}
    /\ pc \in [Threads -> WorkerPcs \cup CtrlPcs]
    /\ pc[Ctrl] \in CtrlPcs /\ \A w \in Workers : pc[w] \in WorkerPcs
    /\ task \in [Workers -> Elements \cup {None}]
    /\ arg \in [Threads -> Elements \cup {None}]
    /\ todo \in [Threads -> SUBSET Elements]
    /\ subject \in Elements \cup {None}
    /\ then \in {"idle", "spawn", "finish", "resize"}

(* Who holds the read side of the elements lock *)
InScan(t) ==
    \/ pc[t] \in Scans
    \/ pc[t] \in Queues /\ (t \in Workers => task[t] = None)

Reading == {t \in Threads : InScan(t)}

(* The lock is held by Ctrl while it changes the graph, or by scans. *)
Locks ==
    /\ readers = Cardinality(Reading)
    /\ writer = Ctrl => Reading = {}
    /\ pc[Ctrl] = "idle" => (writer = Ctrl <=> reconf)
    /\ pc[Ctrl] \in {"finish", "close", "join_state"} => writer = Ctrl
    /\ pc[Ctrl] = "wake" => (writer = Ctrl <=> then = "finish")
    /\ writer = Ctrl => pc[Ctrl] \in {"idle", "finish", "close", "join_state", "wake"}
    /\ reconf => pc[Ctrl] \in {"idle", "join_state", "drain", "relock", "close"}

(* The life of the workers *)
Lives ==
    /\ pc[Ctrl] = "join" => ~running
    /\ ~running => pc[Ctrl] \notin {"rescan", "spawn"} \cup Scans \cup Queues
    /\ then = "spawn" => pc[Ctrl] \in {"scan", "spawn"} \cup Queues
    /\ pc[Ctrl] = "spawn" => then = "spawn"
    /\ then = "finish" => ~running /\ pc[Ctrl] \in {"wake", "finish"}
    /\ pc[Ctrl] = "join_state" => reconf \/ ~running
    /\ (~running /\ pc[Ctrl] # "join") \/ then = "spawn" => \A w \in Workers : pc[w] = "off"
    /\ ~running /\ pc[Ctrl] # "join" => ready = <<>>

(* Who works on what *)
Args ==
    /\ \A w \in Workers : task[w] # None => pc[w] \in Claims \cup Queues \cup {"release"}
    /\ \A w \in Workers : pc[w] \in Claims \cup {"release"} => task[w] # None
    /\ \A w \in Workers : pc[w] \in Queues /\ task[w] # None => arg[w] = task[w]
    /\ \A t \in Threads : arg[t] # None <=> pc[t] \in Queues

(* The elements of the pipeline *)
Graph ==
    /\ \A e \in Elements : owned[e] <=> e \in members
    /\ removed \cap members = {}
    /\ pc[Ctrl] \in {"join_state", "drain", "relock", "close"} => subject \in members
    /\ \A e \in Elements : state[e] = "NULL" <=>
          e \notin members \/ (pc[Ctrl] = "join_state" /\ e = subject)
    /\ pc[Ctrl] \in {"drain", "relock", "close"} => state[subject] = "IDLE"
    /\ ~stale => cache \subseteq members
    /\ \A t \in Threads : todo[t] \subseteq members /\ (t \notin Reading => todo[t] = {})

Waiting(e) == \E k \in DOMAIN ready : ready[k] = e
Pushing(t, e) == pc[t] \in Pushes /\ arg[t] = e
Working(w, e) == pc[w] \in Claims /\ task[w] = e

(* is_queued lets one token of an element into the scheduler. *)
OneToken ==
    /\ \A j, k \in DOMAIN ready : ready[j] = ready[k] => j = k
    /\ \A e \in Elements : Waiting(e) => isQueued[e]
    /\ \A e \in Elements : \A t \in Threads : Pushing(t, e) =>
          /\ isQueued[e] /\ ~Waiting(e)
          /\ \A u \in Threads : Pushing(u, e) => u = t
          /\ \A w \in Workers : ~Working(w, e)
    /\ \A e \in Elements : \A w \in Workers : Working(w, e) =>
          /\ isQueued[e] /\ ~Waiting(e)
          /\ \A v \in Workers : Working(v, e) => v = w
    /\ \A e \in Elements \ removed : isQueued[e] =>
          \/ Waiting(e)
          \/ \E t \in Threads : Pushing(t, e)
          \/ \E w \in Workers : Working(w, e)

NoToken(e) == ~Waiting(e) /\ (\A w \in Workers : task[w] # e) /\ \A t \in Threads : arg[t] # e

(* Tokens of elements that come and go: none before an element has joined, *)
(* and after it was drained none that could still be run.                  *)
LateTokens ==
    /\ \A e \in Elements :
          e \notin members \cup removed \/ (pc[Ctrl] = "join_state" /\ e = subject) => NoToken(e)
    /\ \A e \in Elements : \A w \in Workers :
          /\ e \in removed \/ (pc[Ctrl] \in {"relock", "close"} /\ e = subject)
          /\ task[w] = e
          => pc[w] \in {"got", "check", "reset", "release"}
    /\ \A t \in Threads : arg[t] \notin removed

Count(e) == (IF Waiting(e) \/ Counted(e) # {} THEN 1 ELSE 0) + Held(e)

(* sched_task_refs counts the tokens. *)
Refs ==
    /\ \A e \in Elements \ removed : taskRefs[e] = Count(e)
    /\ \A e \in removed : taskRefs[e] <= Cardinality(Workers) + 1

Inv == Types /\ Locks /\ Lives /\ Args /\ Graph /\ OneToken /\ LateTokens /\ Refs

-----------------------------------------------------------------------------
(* What the steps need of the sets and of the queue.                        *)

LEMMA Constants ==
    /\ Ctrl \in Threads /\ Workers \subseteq Threads /\ Ctrl \notin Workers
    /\ None \notin Elements /\ None # Ctrl /\ None \notin Workers
    /\ IsFiniteSet(Workers) /\ IsFiniteSet(Threads) /\ QueueCap \in Nat \ {0}
    /\ Threads = Workers \cup {Ctrl} /\ Cardinality(Workers) \in Nat
    /\ Cardinality(Threads) \in Nat
<1>1. IsFiniteSet(Workers) /\ IsFiniteSet({Ctrl})
  BY SchedulerAssumption, FS_Singleton
<1>2. IsFiniteSet(Threads)
  BY <1>1, FS_Union DEF Threads
<1> QED BY <1>1, <1>2, SchedulerAssumption, FS_CardinalityType DEF Threads

LEMMA ReadingFinite == IsFiniteSet(Reading) /\ Cardinality(Reading) \in Nat
<1>1. Reading \subseteq Threads
  BY DEF Reading
<1> QED BY <1>1, Constants, FS_Subset, FS_CardinalityType

(* One thread moves. *)
LEMMA Moves ==
    ASSUME Types, NEW t \in Threads, NEW l, l \in IF t = Ctrl THEN CtrlPcs ELSE WorkerPcs,
           pc' = [pc EXCEPT ![t] = l]
    PROVE  /\ pc' \in [Threads -> WorkerPcs \cup CtrlPcs] /\ pc'[t] = l
           /\ \A u \in Threads \ {t} : pc'[u] = pc[u]
           /\ pc'[Ctrl] \in CtrlPcs /\ \A w \in Workers : pc'[w] \in WorkerPcs
BY Constants DEF Types

(* Nobody begins or ends a scan. *)
LEMMA SameReaders ==
    ASSUME Locks, UNCHANGED readers, \A t \in Threads : InScan(t)' = InScan(t)
    PROVE  Reading' = Reading /\ readers' = Cardinality(Reading')
BY DEF Locks, Reading

(* A thread moves that carries no counted token, before or after. *)
LEMMA CountedStays ==
    ASSUME NEW t \in Threads, pc[t] \notin Carries, pc'[t] \notin Carries,
           \A u \in Threads \ {t} : pc'[u] = pc[u] /\ arg'[u] = arg[u]
    PROVE  \A e : Counted(e)' = Counted(e)
<1> TAKE e
<1>1. \A u \in Threads : (pc'[u] \in Carries /\ arg'[u] = e) <=> (pc[u] \in Carries /\ arg[u] = e)
  OBVIOUS
<1> QED BY <1>1 DEF Counted, Carries

LEMMA OneReaderMore ==
    ASSUME Locks, NEW t \in Threads, ~InScan(t), InScan(t)', readers' = readers + 1,
           \A u \in Threads \ {t} : InScan(u)' = InScan(u)
    PROVE  Reading' = Reading \cup {t} /\ readers' = Cardinality(Reading') /\ readers' \in Nat
<1>1. Reading' = Reading \cup {t} /\ t \notin Reading
  BY DEF Reading
<1>2. Cardinality(Reading \cup {t}) = Cardinality(Reading) + 1
  BY <1>1, ReadingFinite, FS_AddElement
<1> QED BY <1>1, <1>2, ReadingFinite DEF Locks

LEMMA OneReaderLess ==
    ASSUME Locks, NEW t \in Threads, InScan(t), ~InScan(t)', readers' = readers - 1,
           \A u \in Threads \ {t} : InScan(u)' = InScan(u)
    PROVE  Reading' = Reading \ {t} /\ readers' = Cardinality(Reading') /\ readers' \in Nat
<1>1. Reading' = Reading \ {t} /\ t \in Reading
  BY DEF Reading
<1>2. Cardinality(Reading \ {t}) = Cardinality(Reading) - 1 /\ IsFiniteSet(Reading \ {t})
  BY <1>1, ReadingFinite, FS_RemoveElement
<1>3. Cardinality(Reading \ {t}) \in Nat
  BY <1>2, FS_CardinalityType
<1> QED BY <1>1, <1>2, <1>3 DEF Locks

(* A step of a worker that neither scans nor queues, before or after, and  *)
(* keeps its task *)
quietVars == <<running, ready, taskRefs, owned, members, cache, stale, reconf, removed,
               lockVars, task, arg, todo, ctrlVars>>

LEMMA WorkerKeeps ==
    ASSUME Inv, NEW w \in Workers, NEW l \in WorkerPcs, pc' = [pc EXCEPT ![w] = l],
           UNCHANGED quietVars, UNCHANGED <<isQueued, state>>, dirty' \in BOOLEAN,
           pc[w] \notin Scans \cup Queues \cup {"off"}, l \notin Scans \cup Queues,
           task[w] # None <=> l \in Claims \cup {"release"},
           l \in Claims => pc[w] \in Claims,
           pc[w] \in Claims /\ l \notin Claims => task[w] \in removed,
           l \in Runs \ {pc[w]} => pc[w] \in Runs \/ state[task[w]] = "PLAYING"
    PROVE  Inv'
<1>1. Types
  BY DEF Inv
<1>2. /\ w \in Threads /\ w # Ctrl
  BY Constants
<1>3. /\ pc' \in [Threads -> WorkerPcs \cup CtrlPcs] /\ pc'[w] = l
      /\ \A u \in Threads \ {w} : pc'[u] = pc[u]
      /\ pc'[Ctrl] \in CtrlPcs /\ \A v \in Workers : pc'[v] \in WorkerPcs /\ pc'[Ctrl] = pc[Ctrl]
  BY <1>1, <1>2, Moves, Constants
<1>4. \A t \in Threads : InScan(t)' = InScan(t)
  BY <1>2, <1>3 DEF InScan, quietVars
<1>5. Reading' = Reading /\ readers' = Cardinality(Reading')
  BY <1>4, SameReaders DEF Inv, quietVars, lockVars
<1>6. Types'
  BY <1>1, <1>3 DEF Types, quietVars, lockVars, ctrlVars
<1>7. Locks'
  BY <1>3, <1>5 DEF Inv, Locks, quietVars, lockVars, ctrlVars
<1>8. Lives'
  BY <1>2, <1>3 DEF Inv, Lives, quietVars, lockVars, ctrlVars
<1>9. Args'
  BY <1>2, <1>3, Constants DEF Inv, Args, quietVars, Queues, Pushes
<1>10. Graph'
  BY <1>3, <1>5 DEF Inv, Graph, quietVars, ctrlVars
<1>11. OneToken'
  <2>1. \A e : Waiting(e)' = Waiting(e)
    BY DEF Waiting, quietVars
  <2>2. \A e : \A t \in Threads : Pushing(t, e)' = Pushing(t, e)
    BY <1>2, <1>3 DEF Pushing, Pushes, quietVars, Queues, Pushes
  <2>3. \A e : \A v \in Workers : Working(v, e)' => Working(v, e)
    BY <1>2, <1>3, Constants DEF Working, quietVars
  <2>4. \A e : e \notin removed => \A v \in Workers : Working(v, e)' = Working(v, e)
    BY <1>2, <1>3, Constants DEF Working, quietVars
  <2> QED BY <2>1, <2>2, <2>3, <2>4 DEF Inv, OneToken, quietVars
<1>12. LateTokens'
  <2>1. \A e : NoToken(e)' = NoToken(e)
    BY DEF NoToken, Waiting, quietVars
  <2>2. ASSUME NEW e \in Elements, task[w] = e,
               e \in removed \/ (pc[Ctrl] \in {"relock", "close"} /\ e = subject)
        PROVE  l \in {"got", "check", "reset", "release"}
    <3>1. pc[w] \in {"got", "check", "reset", "release"} /\ l \in Claims \cup {"release"}
      BY <2>2, Constants DEF Inv, LateTokens
    <3>2. state[e] # "PLAYING"
      BY <2>2 DEF Inv, Graph
    <3> QED BY <2>2, <3>1, <3>2 DEF Claims, Runs
  <2>3. \A e \in Elements : \A v \in Workers :
          /\ e \in removed \/ (pc[Ctrl] \in {"relock", "close"} /\ e = subject)
          /\ task[v] = e
          => pc'[v] \in {"got", "check", "reset", "release"}
    BY <1>2, <1>3, <2>2, Constants DEF Inv, LateTokens
  <2> QED BY <1>2, <1>3, <2>1, <2>3 DEF Inv, LateTokens, quietVars, ctrlVars
<1>13. Refs'
  <2>1. \A e : Counted(e)' = Counted(e)
    BY <1>2, <1>3, CountedStays DEF quietVars, Queues, Pushes, Carries
  <2> QED BY <2>1 DEF Inv, Refs, Count, Held, Waiting, quietVars
<1> QED BY <1>6, <1>7, <1>8, <1>9, <1>10, <1>11, <1>12, <1>13 DEF Inv

LEMMA TaskOfWorker ==
    ASSUME Inv, NEW w \in Workers, pc[w] \in Claims \cup {"release"}
    PROVE  /\ task[w] \in Elements /\ task[w] # None
           /\ task[w] \in members \cup removed
           /\ pc[w] \in Runs => task[w] \in members /\ state[task[w]] # "NULL"
                                /\ task[w] \notin removed
<1>1. task[w] \in Elements
  BY DEF Inv, Types, Args
<1>2. ~NoToken(task[w])
  BY DEF NoToken
<1>3. task[w] \in members \cup removed
  BY <1>1, <1>2 DEF Inv, LateTokens
<1>4. pc[w] \in Runs => task[w] \notin removed
  BY <1>1 DEF Inv, LateTokens, Runs
<1> QED BY <1>1, <1>2, <1>3, <1>4, Constants DEF Inv, LateTokens, Graph

LEMMA LoopKeeps ==
    ASSUME Inv, NEW w \in Workers, WorkerLoop(w) \/ (WorkerPop(w) /\ ready = <<>>)
    PROVE  Inv'
<1>1. PICK l \in {"pop", "exit", "rescan"} : pc' = [pc EXCEPT ![w] = l]
  BY DEF WorkerLoop, WorkerPop, Goto
<1>2. pc[w] \in {"loop", "pop"} /\ dirty' = dirty /\ UNCHANGED quietVars
      /\ UNCHANGED <<isQueued, state>>
  BY DEF WorkerLoop, WorkerPop, quietVars, elemVars, pipeVars
<1>3. task[w] = None
  BY <1>2 DEF Inv, Args, Claims, Queues, Pushes
<1>4. dirty' \in BOOLEAN /\ l \in WorkerPcs
  BY <1>2 DEF Inv, Types, WorkerPcs
<1>5. /\ pc[w] \notin Scans \cup Queues \cup {"off"} /\ l \notin Scans \cup Queues
      /\ l \notin Claims /\ pc[w] \notin Claims /\ l # "release" /\ l \notin Runs
  BY <1>2 DEF Scans, Queues, Pushes, Claims, Runs
<1> QED BY <1>1, <1>2, <1>3, <1>4, <1>5, WorkerKeeps

LEMMA CheckKeeps ==
    ASSUME Inv, NEW w \in Workers, WorkerCheck(w) \/ WorkerPlaying(w) \/ WorkerSize(w) \/ WorkerReturns(w)
    PROVE  Inv'
<1>1. pc[w] \in Claims
  BY DEF WorkerCheck, WorkerPlaying, WorkerSize, WorkerReturns, Claims
<1>2. /\ task[w] \in Elements /\ task[w] # None /\ task[w] \in members \cup removed
  BY <1>1, TaskOfWorker
<1>3. UNCHANGED quietVars /\ UNCHANGED <<isQueued, state>> /\ dirty' \in BOOLEAN
  BY DEF WorkerCheck, WorkerPlaying, WorkerSize, WorkerReturns, quietVars, elemVars, pipeVars, Inv, Types
<1>4. PICK l \in Claims \cup {"release"} :
         /\ pc' = [pc EXCEPT ![w] = l]
         /\ l = "release" => pc[w] = "got" /\ ~owned[task[w]]
         /\ l \in Runs => pc[w] \in Runs \/ state[task[w]] = "PLAYING"
  BY <1>1 DEF WorkerCheck, WorkerPlaying, WorkerSize, WorkerReturns, Goto, Claims, Runs
<1>5. l = "release" => task[w] \in removed
  BY <1>2, <1>4 DEF Inv, Graph
<1>6. /\ pc[w] \notin Scans \cup Queues \cup {"off"} /\ l \notin Scans \cup Queues
      /\ l \in WorkerPcs /\ (l \notin Claims => l = "release")
  BY <1>1, <1>4 DEF Scans, Queues, Pushes, Claims, WorkerPcs
<1> QED BY <1>1, <1>2, <1>3, <1>4, <1>5, <1>6, WorkerKeeps

(* A worker leaves one place for another, the scans unchanged. *)
LEMMA WorkerMoves ==
    ASSUME Inv, NEW w \in Workers, NEW l \in WorkerPcs, pc' = [pc EXCEPT ![w] = l],
           UNCHANGED <<readers, writer, reconf, then, running>>, pc[w] # "off", l # "off",
           InScan(w)' = InScan(w), \A v \in Workers \ {w} : task'[v] = task[v],
           running \/ UNCHANGED ready \/ pc[Ctrl] = "join"
    PROVE  /\ pc' \in [Threads -> WorkerPcs \cup CtrlPcs] /\ pc'[w] = l
           /\ \A u \in Threads \ {w} : pc'[u] = pc[u]
           /\ pc'[Ctrl] \in CtrlPcs /\ (\A v \in Workers : pc'[v] \in WorkerPcs)
           /\ pc'[Ctrl] = pc[Ctrl] /\ w # Ctrl /\ w \in Threads
           /\ Reading' = Reading /\ readers' \in Nat /\ Locks' /\ Lives'
<1>1. Types
  BY DEF Inv
<1>2. /\ w \in Threads /\ w # Ctrl /\ Ctrl \in Threads
  BY Constants
<1>3. /\ pc' \in [Threads -> WorkerPcs \cup CtrlPcs] /\ pc'[w] = l
      /\ \A u \in Threads \ {w} : pc'[u] = pc[u]
      /\ pc'[Ctrl] \in CtrlPcs /\ (\A v \in Workers : pc'[v] \in WorkerPcs)
      /\ pc'[Ctrl] = pc[Ctrl]
  BY <1>1, <1>2, Moves
<1>4. \A t \in Threads : InScan(t)' = InScan(t)
  BY <1>2, <1>3 DEF InScan
<1>5. Reading' = Reading /\ readers' = Cardinality(Reading')
  BY <1>4, SameReaders DEF Inv
<1>6. Locks'
  BY <1>3, <1>5 DEF Inv, Locks
<1>7. Lives'
  BY <1>2, <1>3 DEF Inv, Lives
<1> QED BY <1>1, <1>2, <1>3, <1>5, <1>6, <1>7 DEF Types

LEMMA EofKeeps ==
    ASSUME Inv, NEW w \in Workers, WorkerEof(w)
    PROVE  Inv'
<1>0. Types
  BY DEF Inv
<1>1. /\ pc[w] = "process" /\ pc' = [pc EXCEPT ![w] = "reset"]
      /\ state' = [state EXCEPT ![task[w]] = "IDLE"]
      /\ UNCHANGED quietVars /\ UNCHANGED <<isQueued, dirty>>
  BY DEF WorkerEof, Goto, quietVars, pipeVars
<1>2. /\ task[w] \in Elements /\ task[w] # None /\ task[w] \notin removed
      /\ task[w] \in members /\ state[task[w]] # "NULL"
  BY <1>1, TaskOfWorker DEF Claims, Runs
<1>3. ~InScan(w) /\ (pc'[w] = "reset" => ~InScan(w)')
  BY <1>1 DEF InScan, Scans, Queues, Pushes
<1>4. /\ pc' \in [Threads -> WorkerPcs \cup CtrlPcs] /\ pc'[w] = "reset"
      /\ \A u \in Threads \ {w} : pc'[u] = pc[u]
      /\ pc'[Ctrl] \in CtrlPcs /\ (\A v \in Workers : pc'[v] \in WorkerPcs)
      /\ pc'[Ctrl] = pc[Ctrl] /\ w # Ctrl /\ w \in Threads
      /\ Reading' = Reading /\ readers' \in Nat /\ Locks' /\ Lives'
  <2>1. "reset" \in WorkerPcs /\ pc'[w] = "reset"
    BY <1>0, <1>1, Constants DEF WorkerPcs, Claims, Types
  <2>2. InScan(w)' = InScan(w)
    BY <1>3, <2>1 DEF InScan
  <2> QED BY <1>1, <2>1, <2>2, WorkerMoves DEF quietVars, lockVars, ctrlVars
<1>5. Types'
  BY <1>0, <1>1, <1>2, <1>4 DEF Types, quietVars, lockVars, ctrlVars
<1>6. Args'
  BY <1>1, <1>2, <1>4 DEF Inv, Args, quietVars, Queues, Pushes, Claims
<1>7. Graph'
  <2>1. state \in [Elements -> {"NULL", "IDLE", "PLAYING"}]
    BY <1>0 DEF Types
  <2>2. \A e \in Elements : state'[e] = "NULL" <=> state[e] = "NULL"
    BY <1>1, <1>2, <2>1
  <2>3. \A e \in Elements : state[e] = "IDLE" => state'[e] = "IDLE"
    BY <1>1, <1>2, <2>1
  <2>4. pc[Ctrl] \in {"drain", "relock", "close"} => subject \in Elements
    BY <1>0 DEF Inv, Graph, Types
  <2> QED BY <1>1, <1>4, <2>2, <2>3, <2>4 DEF Inv, Graph, quietVars, ctrlVars
<1>8. OneToken'
  <2>1. \A e : Waiting(e)' = Waiting(e)
    BY <1>1 DEF Waiting, quietVars
  <2>2. \A e : \A t \in Threads : Pushing(t, e)' = Pushing(t, e)
    BY <1>1, <1>4 DEF Pushing, Pushes, quietVars
  <2>3. \A e : \A v \in Workers : Working(v, e)' = Working(v, e)
    BY <1>1, <1>4, Constants DEF Working, quietVars, Claims
  <2> QED BY <1>1, <2>1, <2>2, <2>3 DEF Inv, OneToken, quietVars
<1>9. LateTokens'
  <2>1. \A e : NoToken(e)' = NoToken(e)
    BY <1>1 DEF NoToken, Waiting, quietVars
  <2> QED BY <1>1, <1>4, <2>1 DEF Inv, LateTokens, quietVars, ctrlVars
<1>10. Refs'
  <2>1. \A e : Counted(e)' = Counted(e)
    BY <1>1, <1>4, CountedStays DEF quietVars, Carries
  <2> QED BY <1>1, <2>1 DEF Inv, Refs, Count, Held, Waiting, quietVars
<1> QED BY <1>4, <1>5, <1>6, <1>7, <1>8, <1>9, <1>10 DEF Inv

LEMMA ResetKeeps ==
    ASSUME Inv, NEW w \in Workers, WorkerReset(w)
    PROVE  Inv'
<1>0. Types
  BY DEF Inv
<1> DEFINE l == IF pc[w] = "requeue" THEN "queue" ELSE "release"
           e == task[w]
<1>1. /\ pc[w] \in {"reset", "requeue"} /\ pc' = [pc EXCEPT ![w] = l]
      /\ isQueued' = [isQueued EXCEPT ![e] = FALSE]
      /\ arg' = IF pc[w] = "requeue" THEN [arg EXCEPT ![w] = e] ELSE arg
      /\ UNCHANGED <<running, ready, taskRefs, state, owned, pipeVars, lockVars, task, todo, ctrlVars>>
  BY DEF WorkerReset, Goto
<1>2. /\ e \in Elements /\ e # None /\ pc[w] \in Claims
      /\ pc[w] = "requeue" => e \in members /\ e \notin removed
  BY <1>1, TaskOfWorker DEF Claims, Runs
<1>3. l \in {"queue", "release"} /\ l \in WorkerPcs
  BY DEF WorkerPcs, Queues, Pushes
<1>4. /\ pc' \in [Threads -> WorkerPcs \cup CtrlPcs] /\ pc'[w] = l
      /\ \A u \in Threads \ {w} : pc'[u] = pc[u]
      /\ pc'[Ctrl] \in CtrlPcs /\ (\A v \in Workers : pc'[v] \in WorkerPcs)
      /\ pc'[Ctrl] = pc[Ctrl] /\ w # Ctrl /\ w \in Threads
      /\ Reading' = Reading /\ readers' \in Nat /\ Locks' /\ Lives'
  <2>1. pc'[w] = l
    BY <1>0, <1>1, Constants DEF Types
  <2>2. InScan(w)' = InScan(w)
    BY <1>1, <1>2, <1>3, <2>1 DEF InScan, Scans, Queues, Pushes
  <2> HIDE DEF l
  <2> QED BY <1>1, <1>3, <2>1, <2>2, WorkerMoves DEF pipeVars, lockVars, ctrlVars
<1>5. /\ arg \in [Threads -> Elements \cup {None}] /\ arg' \in [Threads -> Elements \cup {None}]
      /\ \A t \in Threads \ {w} : arg'[t] = arg[t]
      /\ arg'[w] = IF pc[w] = "requeue" THEN e ELSE arg[w]
      /\ arg[w] = None
  BY <1>0, <1>1, <1>2, <1>4 DEF Types, Inv, Args, Queues, Pushes
<1>6. Types'
  BY <1>0, <1>1, <1>2, <1>4, <1>5 DEF Types, pipeVars, lockVars, ctrlVars
<1>7. Args'
  BY <1>1, <1>2, <1>4, <1>5 DEF Inv, Args, Queues, Pushes, Claims
<1>8. Graph'
  BY <1>1, <1>4 DEF Inv, Graph, pipeVars, ctrlVars
<1>9. OneToken'
  <2>1. \A f : Waiting(f)' = Waiting(f)
    BY <1>1 DEF Waiting
  <2>2. \A f : \A t \in Threads : Pushing(t, f)' = Pushing(t, f)
    BY <1>1, <1>3, <1>4, <1>5 DEF Pushing, Pushes
  <2>3. \A f : \A v \in Workers : Working(v, f)' <=> (Working(v, f) /\ v # w)
    BY <1>1, <1>3, <1>4, Constants DEF Working, Claims
  <2>4. Working(w, e)
    BY <1>1, <1>2 DEF Working
  <2>5. \A f \in Elements : /\ isQueued'[f] => isQueued[f] /\ f # e
                            /\ isQueued[f] /\ f # e => isQueued'[f]
    BY <1>0, <1>1, <1>2 DEF Types
  <2>6. ~Waiting(e) /\ (\A t \in Threads : ~Pushing(t, e))
        /\ \A v \in Workers : Working(v, e) => v = w
    BY <1>2, <2>4 DEF Inv, OneToken
  <2>7. \A f : Working(w, f) => f = e
    BY DEF Working
  <2>8. ready' = ready /\ removed' = removed
    BY <1>1 DEF pipeVars
  <2>9. OneToken
    BY DEF Inv
  <2> HIDE DEF e
  <2>10. \A f \in Elements : \A t \in Threads : Pushing(t, f) => f # e
    BY <2>6
  <2>11. \A f \in Elements \ removed : isQueued'[f] =>
          \/ Waiting(f)
          \/ \E t \in Threads : Pushing(t, f)
          \/ \E v \in Workers : Working(v, f) /\ v # w
    BY <2>5, <2>7, <2>9 DEF OneToken
  <2> QED BY <2>1, <2>2, <2>3, <2>5, <2>6, <2>8, <2>9, <2>10, <2>11 DEF OneToken
<1>10. LateTokens'
  <2>1. \A f : NoToken(f) => f # e
    BY DEF NoToken
  <2>2. \A f : NoToken(f) => NoToken(f)'
    <3>1. \A f : Waiting(f)' = Waiting(f)
      BY <1>1 DEF Waiting
    <3> HIDE DEF e
    <3>2. \A f : f # e => \A t \in Threads : arg[t] # f => arg'[t] # f
      BY <1>4, <1>5
    <3> QED BY <1>1, <2>1, <3>1, <3>2 DEF NoToken
  <2>3. pc[w] = "requeue" => ~(pc[Ctrl] \in {"relock", "close"} /\ e = subject)
    BY <1>2 DEF Inv, LateTokens
  <2>4. UNCHANGED <<members, removed, subject, task>>
    BY <1>1 DEF pipeVars, ctrlVars
  <2>5. \A f \in Elements : \A v \in Workers :
          /\ f \in removed \/ (pc[Ctrl] \in {"relock", "close"} /\ f = subject)
          /\ task[v] = f
          => pc'[v] \in {"got", "check", "reset", "release"}
    <3> SUFFICES ASSUME NEW f \in Elements, NEW v \in Workers, task[v] = f,
                        f \in removed \/ (pc[Ctrl] \in {"relock", "close"} /\ f = subject)
                 PROVE  pc'[v] \in {"got", "check", "reset", "release"}
      OBVIOUS
    <3>1. pc[v] \in {"got", "check", "reset", "release"}
      BY DEF Inv, LateTokens
    <3>2. CASE v = w
      BY <1>1, <1>4, <3>1, <3>2
    <3>3. CASE v # w
      BY <1>4, <3>1, <3>3, Constants
    <3> QED BY <3>2, <3>3
  <2>6. \A t \in Threads : arg'[t] \notin removed
    BY <1>2, <1>4, <1>5 DEF Inv, LateTokens
  <2> QED BY <1>4, <2>2, <2>4, <2>5, <2>6 DEF Inv, LateTokens
<1>11. Refs'
  <2>1. \A f : Counted(f)' = Counted(f)
    BY <1>1, <1>3, <1>4, <1>5, CountedStays DEF Carries
  <2> QED BY <1>1, <2>1 DEF Inv, Refs, Count, Held, Waiting, pipeVars
<1> QED BY <1>4, <1>6, <1>7, <1>8, <1>9, <1>10, <1>11 DEF Inv

-----------------------------------------------------------------------------
(* The ready queue and the tasks in the workers' hands.                     *)

Once(s) == \A j, k \in DOMAIN s : s[j] = s[k] => j = k

LEMMA TailOnce ==
    ASSUME NEW s \in Seq(Elements), s # <<>>, Once(s)
    PROVE  /\ Head(s) \in Elements /\ Tail(s) \in Seq(Elements) /\ Len(Tail(s)) = Len(s) - 1
           /\ Once(Tail(s)) /\ \E k \in DOMAIN s : s[k] = Head(s)
           /\ \A f : (\E k \in DOMAIN Tail(s) : Tail(s)[k] = f) <=>
                     (\E k \in DOMAIN s : s[k] = f) /\ f # Head(s)
<1>1. /\ Len(s) \in Nat /\ Len(s) > 0 /\ Head(s) = s[1] /\ Tail(s) \in Seq(Elements)
      /\ Len(Tail(s)) = Len(s) - 1 /\ \A k \in 1 .. Len(s) - 1 : Tail(s)[k] = s[k + 1]
  BY HeadTailProperties, EmptySeq, LenProperties
<1>2. DOMAIN s = 1 .. Len(s) /\ DOMAIN Tail(s) = 1 .. Len(s) - 1
  BY <1>1, LenProperties
<1>3. 1 \in DOMAIN s /\ Head(s) \in Elements
  BY <1>1, <1>2
<1>4. \A k \in DOMAIN Tail(s) : k + 1 \in DOMAIN s /\ k + 1 # 1 /\ Tail(s)[k] = s[k + 1] /\ k \in Nat
  BY <1>1, <1>2
<1>5. \A j, k \in DOMAIN Tail(s) : j + 1 = k + 1 => j = k
  BY <1>2
<1>6. Once(Tail(s))
  BY <1>4, <1>5 DEF Once
<1>7. \A k \in DOMAIN s : k # 1 => k - 1 \in DOMAIN Tail(s) /\ Tail(s)[k - 1] = s[k]
  BY <1>1, <1>2
<1>8. ASSUME NEW f PROVE (\E k \in DOMAIN Tail(s) : Tail(s)[k] = f) <=>
                         (\E k \in DOMAIN s : s[k] = f) /\ f # Head(s)
  <2>1. ASSUME NEW k \in DOMAIN Tail(s), Tail(s)[k] = f
        PROVE  (\E j \in DOMAIN s : s[j] = f) /\ f # Head(s)
    BY <1>1, <1>3, <1>4, <2>1 DEF Once
  <2>2. ASSUME NEW k \in DOMAIN s, s[k] = f, f # Head(s)
        PROVE  \E j \in DOMAIN Tail(s) : Tail(s)[j] = f
    BY <1>1, <1>7, <2>2
  <2> QED BY <2>1, <2>2
<1> QED BY <1>1, <1>3, <1>6, <1>8

LEMMA AppendOnce ==
    ASSUME NEW s \in Seq(Elements), NEW e \in Elements, Once(s), ~\E k \in DOMAIN s : s[k] = e
    PROVE  /\ Append(s, e) \in Seq(Elements) /\ Len(Append(s, e)) = Len(s) + 1
           /\ Once(Append(s, e))
           /\ \A f : (\E k \in DOMAIN Append(s, e) : Append(s, e)[k] = f) <=>
                     (\E k \in DOMAIN s : s[k] = f) \/ f = e
<1> DEFINE a == Append(s, e)
<1>1. /\ a \in Seq(Elements) /\ Len(a) = Len(s) + 1 /\ Len(s) \in Nat
      /\ (\A k \in 1 .. Len(s) : a[k] = s[k]) /\ a[Len(s) + 1] = e
  BY AppendProperties, LenProperties
<1>2. DOMAIN s = 1 .. Len(s) /\ DOMAIN a = 1 .. Len(s) + 1
  BY <1>1, LenProperties
<1> HIDE DEF a
<1>3. \A k \in DOMAIN a : (k \in DOMAIN s /\ a[k] = s[k]) \/ (k = Len(s) + 1 /\ a[k] = e)
  BY <1>1, <1>2
<1>4. (\A k \in DOMAIN s : k \in DOMAIN a /\ a[k] = s[k]) /\ Len(s) + 1 \in DOMAIN a
  BY <1>1, <1>2
<1>5. Once(a)
  BY <1>3 DEF Once
<1>6. \A f : (\E k \in DOMAIN a : a[k] = f) <=> (\E k \in DOMAIN s : s[k] = f) \/ f = e
  BY <1>1, <1>3, <1>4
<1> QED BY <1>1, <1>5, <1>6 DEF a

LEMMA QueueCount ==
    ASSUME NEW s \in Seq(Elements), Once(s), NEW e
    PROVE  Cardinality({k \in DOMAIN s : s[k] = e}) = IF \E k \in DOMAIN s : s[k] = e THEN 1 ELSE 0
<1>1. CASE \E k \in DOMAIN s : s[k] = e
  <2>1. PICK k \in DOMAIN s : s[k] = e
    BY <1>1
  <2>2. {j \in DOMAIN s : s[j] = e} = {k}
    BY <2>1 DEF Once
  <2> QED BY <1>1, <2>2, FS_Singleton
<1>2. CASE ~\E k \in DOMAIN s : s[k] = e
  <2>1. {j \in DOMAIN s : s[j] = e} = {}
    BY <1>2
  <2> QED BY <1>2, <2>1, FS_EmptySet
<1> QED BY <1>1, <1>2

LEMMA HeldType ==
    ASSUME NEW e
    PROVE  /\ IsFiniteSet({w \in Workers : task[w] = e})
           /\ Held(e) \in Nat /\ Held(e) <= Cardinality(Workers)
           /\ Held(e) = 0 => \A w \in Workers : task[w] # e
<1>1. {w \in Workers : task[w] = e} \subseteq Workers
  OBVIOUS
<1>2. IsFiniteSet({w \in Workers : task[w] = e})
      /\ Cardinality({w \in Workers : task[w] = e}) <= Cardinality(Workers)
  BY <1>1, Constants, FS_Subset
<1>3. Held(e) \in Nat
  BY <1>2, FS_CardinalityType DEF Held
<1>4. Held(e) = 0 => {w \in Workers : task[w] = e} = {}
  BY <1>2, FS_EmptySet DEF Held
<1> QED BY <1>2, <1>3, <1>4 DEF Held

LEMMA HeldMore ==
    ASSUME NEW w \in Workers, NEW e, task[w] # e, task'[w] = e,
           \A v \in Workers \ {w} : task'[v] = task[v]
    PROVE  Held(e)' = Held(e) + 1
<1> DEFINE S == {v \in Workers : task[v] = e}
<1>1. {v \in Workers : task'[v] = e} = S \cup {w} /\ w \notin S
  OBVIOUS
<1>2. IsFiniteSet(S)
  BY HeldType
<1>3. Held(e)' = Cardinality(S \cup {w}) /\ Held(e) = Cardinality(S)
  BY <1>1 DEF Held
<1> HIDE DEF S
<1> QED BY <1>1, <1>2, <1>3, FS_AddElement

LEMMA HeldLess ==
    ASSUME NEW w \in Workers, NEW e, task[w] = e, task'[w] # e,
           \A v \in Workers \ {w} : task'[v] = task[v]
    PROVE  Held(e)' = Held(e) - 1
<1> DEFINE S == {v \in Workers : task[v] = e}
<1>1. {v \in Workers : task'[v] = e} = S \ {w} /\ w \in S
  OBVIOUS
<1>2. IsFiniteSet(S)
  BY HeldType
<1>3. Held(e)' = Cardinality(S \ {w}) /\ Held(e) = Cardinality(S)
  BY <1>1 DEF Held
<1> HIDE DEF S
<1> QED BY <1>1, <1>2, <1>3, FS_RemoveElement

LEMMA HeldSame ==
    ASSUME NEW e, \A v \in Workers : task'[v] = e <=> task[v] = e
    PROVE  Held(e)' = Held(e)
<1>1. {v \in Workers : task'[v] = e} = {v \in Workers : task[v] = e}
  OBVIOUS
<1> QED BY <1>1 DEF Held

LEMMA CountType ==
    ASSUME NEW e
    PROVE  Count(e) \in Nat /\ Count(e) <= Cardinality(Workers) + 1
<1>1. Held(e) \in Nat /\ Held(e) <= Cardinality(Workers)
  BY HeldType
<1>2. Cardinality(Workers) \in Nat
  BY Constants
<1>3. Count(e) = Held(e) \/ Count(e) = 1 + Held(e)
  BY <1>1 DEF Count
<1> QED BY <1>1, <1>2, <1>3

LEMMA PopKeeps ==
    ASSUME Inv, NEW w \in Workers, WorkerPop(w), ready # <<>>
    PROVE  Inv'
<1>0. Types /\ Once(ready)
  BY DEF Inv, OneToken, Once
<1>1. PICK e : e = Head(ready)
  OBVIOUS
<1>2. /\ pc[w] = "pop" /\ pc' = [pc EXCEPT ![w] = "got"] /\ task' = [task EXCEPT ![w] = e]
      /\ ready' = Tail(ready)
      /\ UNCHANGED <<running, elemVars, pipeVars, lockVars, arg, todo, ctrlVars>>
  BY <1>1 DEF WorkerPop, Goto
<1>3. /\ e \in Elements /\ ready' \in Seq(Elements) /\ Len(ready') = Len(ready) - 1
      /\ Once(ready') /\ Waiting(e)
      /\ \A f : Waiting(f)' <=> Waiting(f) /\ f # e
  <2>1. ready \in Seq(Elements)
    BY <1>0 DEF Types
  <2>2. /\ Head(ready) \in Elements /\ Tail(ready) \in Seq(Elements)
        /\ Len(Tail(ready)) = Len(ready) - 1
        /\ Once(Tail(ready)) /\ \E k \in DOMAIN ready : ready[k] = Head(ready)
        /\ \A f : (\E k \in DOMAIN Tail(ready) : Tail(ready)[k] = f) <=>
                  (\E k \in DOMAIN ready : ready[k] = f) /\ f # Head(ready)
    BY <1>0, <2>1, TailOnce
  <2>3. \A f : Waiting(f)' <=> Waiting(f) /\ f # e
    BY <1>1, <1>2, <2>2, Zenon DEF Waiting
  <2> QED BY <1>1, <1>2, <2>2, <2>3 DEF Waiting
<1>4. /\ task[w] = None /\ task'[w] = e /\ \A v \in Workers \ {w} : task'[v] = task[v]
  <2>1. task \in [Workers -> Elements \cup {None}]
    BY <1>0 DEF Types
  <2>2. task[w] = None
    BY <1>2 DEF Inv, Args, Claims, Queues, Pushes
  <2> QED BY <1>2, <2>1, <2>2
<1>5. running \/ pc[Ctrl] = "join"
  BY <1>2 DEF Inv, Lives
<1>6. /\ pc' \in [Threads -> WorkerPcs \cup CtrlPcs] /\ pc'[w] = "got"
      /\ \A u \in Threads \ {w} : pc'[u] = pc[u]
      /\ pc'[Ctrl] \in CtrlPcs /\ (\A v \in Workers : pc'[v] \in WorkerPcs)
      /\ pc'[Ctrl] = pc[Ctrl] /\ w # Ctrl /\ w \in Threads
      /\ Reading' = Reading /\ readers' \in Nat /\ Locks' /\ Lives'
  <2>1. pc'[w] = "got" /\ "got" \in WorkerPcs
    BY <1>0, <1>2, Constants DEF Types, WorkerPcs, Claims
  <2>2. InScan(w)' = InScan(w)
    BY <1>2, <2>1 DEF InScan, Scans, Queues, Pushes
  <2> QED BY <1>2, <1>4, <1>5, <2>1, <2>2, WorkerMoves DEF pipeVars, lockVars, ctrlVars
<1>7. Types'
  <2>1. Len(ready') <= QueueCap
    BY <1>0, <1>3, LenProperties, Constants DEF Types
  <2>2. task' \in [Workers -> Elements \cup {None}]
    BY <1>0, <1>2, <1>3 DEF Types
  <2> QED BY <1>0, <1>2, <1>3, <1>6, <2>1, <2>2 DEF Types, pipeVars, lockVars, ctrlVars, elemVars
<1>8. Args'
  BY <1>2, <1>3, <1>4, <1>6, Constants DEF Inv, Args, Queues, Pushes, Claims
<1>9. Graph'
  BY <1>2, <1>6 DEF Inv, Graph, pipeVars, ctrlVars, elemVars
<1>10. OneToken'
  <2>1. \A f : \A t \in Threads : Pushing(t, f)' <=> Pushing(t, f)
    BY <1>2, <1>6 DEF Pushing, Pushes
  <2>2. \A f : \A v \in Workers : Working(v, f)' <=> Working(v, f) \/ (v = w /\ f = e)
    BY <1>2, <1>4, <1>6, Constants DEF Working, Claims
  <2>3. isQueued' = isQueued /\ removed' = removed
    BY <1>2 DEF elemVars, pipeVars
  <2>4. OneToken
    BY DEF Inv
  <2>5. isQueued[e] /\ (\A t \in Threads : ~Pushing(t, e)) /\ (\A v \in Workers : ~Working(v, e))
    BY <1>3, <2>4 DEF OneToken
  <2>6. \A f : ~Working(w, f)
    BY <1>2 DEF Working, Claims
  <2>7. ASSUME NEW f \in Elements, f # e PROVE
            /\ Waiting(f)' <=> Waiting(f)
            /\ \A v \in Workers : Working(v, f)' <=> Working(v, f)
    BY <1>3, <2>2, <2>7
  <2>8. /\ ~Waiting(e)' /\ \A v \in Workers : Working(v, e)' <=> v = w
    BY <1>3, <2>2, <2>5
  <2> QED BY <1>3, <2>1, <2>3, <2>4, <2>5, <2>7, <2>8 DEF OneToken, Once
<1>11. LateTokens'
  <2>1. \A f : NoToken(f) => f # e
    BY <1>3 DEF NoToken
  <2>2. \A f : NoToken(f) => NoToken(f)'
    BY <1>2, <1>3, <1>4, <2>1 DEF NoToken
  <2>3. UNCHANGED <<members, removed, subject, arg>>
    BY <1>2 DEF pipeVars, ctrlVars
  <2>4. \A f \in Elements : \A v \in Workers :
          /\ f \in removed \/ (pc[Ctrl] \in {"relock", "close"} /\ f = subject)
          /\ task'[v] = f
          => pc'[v] \in {"got", "check", "reset", "release"}
    BY <1>4, <1>6, Constants DEF Inv, LateTokens
  <2> QED BY <1>6, <2>2, <2>3, <2>4 DEF Inv, LateTokens
<1>12. Refs'
  <2>0. \A f : Counted(f)' = Counted(f)
    BY <1>2, <1>6, CountedStays DEF Carries
  <2>1. Count(e)' = Count(e)
    <3>0. Counted(e) = {}
      BY <1>3 DEF Inv, OneToken, Pushing, Pushes, Counted
    <3>1. Held(e)' = Held(e) + 1
      BY <1>3, <1>4, Constants, HeldMore
    <3>2. Waiting(e) /\ ~Waiting(e)' /\ Held(e) \in Nat /\ Counted(e)' = {}
      BY <1>3, <2>0, <3>0, HeldType
    <3>3. Count(e) = 1 + Held(e) /\ Count(e)' = 0 + Held(e)'
      BY <3>2 DEF Count
    <3> QED BY <3>1, <3>2, <3>3
  <2>2. \A f \in Elements \ {e} : Count(f)' = Count(f)
    <3> TAKE f \in Elements \ {e}
    <3>1. Held(f)' = Held(f)
      <4>1. \A v \in Workers : task'[v] = f <=> task[v] = f
        BY <1>4, Constants
      <4> QED BY <4>1, HeldSame
    <3>2. Waiting(f)' <=> Waiting(f)
      BY <1>3
    <3> QED BY <2>0, <3>1, <3>2 DEF Count
  <2> QED BY <1>2, <2>1, <2>2 DEF Inv, Refs, elemVars, pipeVars
<1> QED BY <1>6, <1>7, <1>8, <1>9, <1>10, <1>11, <1>12 DEF Inv

LEMMA ReleaseKeeps ==
    ASSUME Inv, NEW w \in Workers, WorkerRelease(w)
    PROVE  Inv'
<1>0. Types /\ pc[w] = "release"
  BY DEF Inv, WorkerRelease
<1>1. PICK e \in Elements : e = task[w] /\ e \in members \cup removed
  BY <1>0, TaskOfWorker
<1>2. /\ pc' = [pc EXCEPT ![w] = "loop"] /\ task' = [task EXCEPT ![w] = None]
      /\ taskRefs' = IF owned[e] THEN [taskRefs EXCEPT ![e] = @ - 1] ELSE taskRefs
      /\ UNCHANGED <<running, ready, isQueued, state, owned, pipeVars, lockVars, arg, todo, ctrlVars>>
  BY <1>1 DEF WorkerRelease, Goto
<1>3. /\ task \in [Workers -> Elements \cup {None}] /\ e # None
      /\ task'[w] = None /\ \A v \in Workers \ {w} : task'[v] = task[v]
  BY <1>0, <1>2, Constants DEF Types
<1>4. /\ pc' \in [Threads -> WorkerPcs \cup CtrlPcs] /\ pc'[w] = "loop"
      /\ \A u \in Threads \ {w} : pc'[u] = pc[u]
      /\ pc'[Ctrl] \in CtrlPcs /\ (\A v \in Workers : pc'[v] \in WorkerPcs)
      /\ pc'[Ctrl] = pc[Ctrl] /\ w # Ctrl /\ w \in Threads
      /\ Reading' = Reading /\ readers' \in Nat /\ Locks' /\ Lives'
  <2>1. pc'[w] = "loop" /\ "loop" \in WorkerPcs
    BY <1>0, <1>2, Constants DEF Types, WorkerPcs
  <2>2. InScan(w)' = InScan(w)
    BY <1>0, <2>1 DEF InScan, Scans, Queues, Pushes
  <2> QED BY <1>0, <1>2, <1>3, <2>1, <2>2, WorkerMoves DEF pipeVars, lockVars, ctrlVars
<1>5. owned[e] <=> e \notin removed
  BY <1>1 DEF Inv, Graph
<1>6. /\ Count(e)' = Count(e) - 1 /\ Count(e) \in Nat /\ Count(e)' \in Nat
      /\ \A f \in Elements \ {e} : Count(f)' = Count(f)
  <2>1. \A f : (Waiting(f)' <=> Waiting(f)) /\ Counted(f)' = Counted(f)
    <3>1. \A f : Counted(f)' = Counted(f)
      BY <1>0, <1>2, <1>4, CountedStays DEF Carries
    <3> QED BY <1>2, <3>1 DEF Waiting
  <2>2. Held(e)' = Held(e) - 1 /\ Held(e) \in Nat /\ Held(e) # 0
    BY <1>1, <1>3, HeldLess, HeldType
  <2>3. Count(e)' = Count(e) - 1 /\ Count(e) \in Nat /\ Count(e)' \in Nat
    BY <2>1, <2>2 DEF Count
  <2>4. ASSUME NEW f \in Elements \ {e} PROVE Count(f)' = Count(f)
    <3>1. \A v \in Workers : task'[v] = f <=> task[v] = f
      BY <1>1, <1>3, Constants
    <3>2. Held(f)' = Held(f)
      BY <3>1, HeldSame
    <3> QED BY <2>1, <3>2 DEF Count
  <2> QED BY <2>3, <2>4
<1>7. taskRefs \in [Elements -> Nat] /\ taskRefs' \in [Elements -> Nat]
      /\ (\A f \in Elements \ {e} : taskRefs'[f] = taskRefs[f])
      /\ (e \notin removed => taskRefs'[e] = Count(e)')
      /\ (e \in removed => taskRefs'[e] = taskRefs[e])
  <2>1. taskRefs \in [Elements -> Nat]
    BY <1>0 DEF Types
  <2>2. CASE e \in removed
    BY <1>2, <1>5, <2>1, <2>2
  <2>3. CASE e \notin removed
    <3>1. taskRefs[e] = Count(e)
      BY <2>3 DEF Inv, Refs
    <3>2. taskRefs' = [taskRefs EXCEPT ![e] = Count(e)']
      BY <1>2, <1>5, <1>6, <2>3, <3>1
    <3> QED BY <1>6, <2>1, <2>3, <3>2
  <2> QED BY <2>2, <2>3
<1>8. Types'
  <2>1. task' \in [Workers -> Elements \cup {None}]
    BY <1>2, <1>3
  <2> QED BY <1>0, <1>2, <1>4, <1>7, <2>1 DEF Types, pipeVars, lockVars, ctrlVars
<1>9. Args'
  BY <1>0, <1>2, <1>3, <1>4 DEF Inv, Args, Queues, Pushes, Claims
<1>10. Graph'
  BY <1>2, <1>4 DEF Inv, Graph, pipeVars, ctrlVars
<1>11. OneToken'
  <2>1. \A f : Waiting(f)' <=> Waiting(f)
    BY <1>2 DEF Waiting
  <2>2. \A f : \A t \in Threads : Pushing(t, f)' <=> Pushing(t, f)
    BY <1>0, <1>2, <1>4 DEF Pushing, Pushes
  <2>3. \A f : \A v \in Workers : Working(v, f)' <=> Working(v, f)
    BY <1>0, <1>2, <1>3, <1>4, Constants DEF Working, Claims
  <2>4. isQueued' = isQueued /\ removed' = removed /\ ready' = ready
    BY <1>2 DEF pipeVars
  <2> QED BY <2>1, <2>2, <2>3, <2>4 DEF Inv, OneToken
<1>12. LateTokens'
  <2>1. \A f \in Elements : NoToken(f) => NoToken(f)'
    BY <1>2, <1>3, Constants DEF NoToken, Waiting
  <2>2. UNCHANGED <<members, removed, subject, arg>>
    BY <1>2 DEF pipeVars, ctrlVars
  <2>3. \A f \in Elements : \A v \in Workers : task'[v] = f => v # w /\ task[v] = f /\ pc'[v] = pc[v]
    BY <1>3, <1>4, Constants
  <2> QED BY <1>4, <2>1, <2>2, <2>3 DEF Inv, LateTokens
<1>13. Refs'
  <2>1. removed' = removed
    BY <1>2 DEF pipeVars
  <2>2. removed \subseteq Elements
    BY <1>0 DEF Types
  <2> QED BY <1>6, <1>7, <2>1, <2>2 DEF Inv, Refs
<1> QED BY <1>4, <1>8, <1>9, <1>10, <1>11, <1>12, <1>13 DEF Inv

-----------------------------------------------------------------------------
(* Scans, and the queueing of tasks.                                        *)

LEMMA ScanMoves ==
    ASSUME Inv, NEW t \in Threads, pc[t] \in Scans \cup Queues, NEW l,
           l \in {"scan", "queue", "push", "enqueue", "uncount", "unqueue"} \/ (l = "release" /\ t # Ctrl),
           pc' = [pc EXCEPT ![t] = l], InScan(t)' = InScan(t),
           UNCHANGED <<readers, writer, reconf, then, running, task>>
    PROVE  /\ pc' \in [Threads -> WorkerPcs \cup CtrlPcs] /\ pc'[t] = l
           /\ \A u \in Threads \ {t} : pc'[u] = pc[u]
           /\ pc'[Ctrl] \in CtrlPcs /\ (\A v \in Workers : pc'[v] \in WorkerPcs)
           /\ pc'[Ctrl] = pc[Ctrl] \/ (t = Ctrl /\ pc'[Ctrl] = l)
           /\ Reading' = Reading /\ readers' \in Nat /\ Locks' /\ Lives'
           /\ running \/ pc[Ctrl] = "join"
<1>1. Types
  BY DEF Inv
<1>2. /\ pc' \in [Threads -> WorkerPcs \cup CtrlPcs] /\ pc'[t] = l
      /\ \A u \in Threads \ {t} : pc'[u] = pc[u]
      /\ pc'[Ctrl] \in CtrlPcs /\ (\A v \in Workers : pc'[v] \in WorkerPcs)
  <2>1. l \in IF t = Ctrl THEN CtrlPcs ELSE WorkerPcs
    BY DEF CtrlPcs, WorkerPcs, Scans, Queues, Pushes
  <2> QED BY <1>1, <2>1, Moves
<1>3. \A u \in Threads : InScan(u)' = InScan(u)
  BY <1>2 DEF InScan
<1>4. Reading' = Reading /\ readers' = Cardinality(Reading')
  BY <1>3, SameReaders DEF Inv
<1>5. pc'[Ctrl] = pc[Ctrl] \/ (t = Ctrl /\ pc'[Ctrl] = l)
  BY <1>2, Constants
<1>6. Locks'
  <2>1. CASE t # Ctrl
    BY <1>2, <1>4, <2>1, Constants DEF Inv, Locks
  <2>2. CASE t = Ctrl
    <3>1. writer # Ctrl /\ ~reconf
      BY <2>2 DEF Inv, Locks, Scans, Queues, Pushes
    <3>2. pc'[Ctrl] \in {"scan", "queue", "push", "enqueue", "uncount", "unqueue"}
      BY <1>2, <2>2
    <3> QED BY <1>4, <3>1, <3>2 DEF Locks
  <2> QED BY <2>1, <2>2
<1>7. running \/ pc[Ctrl] = "join"
  <2>1. CASE t # Ctrl
    <3>1. t \in Workers /\ pc[t] # "off"
      BY <2>1, Constants DEF Scans, Queues, Pushes
    <3> QED BY <3>1 DEF Inv, Lives
  <2>2. CASE t = Ctrl
    BY <2>2 DEF Inv, Lives, Scans, Queues, Pushes
  <2> QED BY <2>1, <2>2
<1>8. Lives'
  <2>1. CASE t # Ctrl
    <3>1. t \in Workers /\ pc[t] # "off" /\ pc'[Ctrl] = pc[Ctrl]
      BY <1>2, <2>1, Constants DEF Scans, Queues, Pushes
    <3> QED BY <1>2, <1>7, <3>1 DEF Inv, Lives
  <2>2. CASE t = Ctrl
    <3>1. running /\ pc'[Ctrl] \in {"scan", "queue", "push", "enqueue", "uncount", "unqueue"} /\ \A v \in Workers : pc'[v] = pc[v]
      BY <1>2, <2>2, Constants DEF Inv, Lives, Scans, Queues, Pushes
    <3> QED BY <3>1 DEF Inv, Lives, Queues, Pushes
  <2> QED BY <2>1, <2>2
<1> QED BY <1>1, <1>2, <1>4, <1>5, <1>6, <1>7, <1>8 DEF Types

(* Ctrl is where it was, or neither was nor is in a change of the graph. *)
Change == {"join_state", "drain", "relock", "close"}
SameChange == pc'[Ctrl] = pc[Ctrl] \/ (pc'[Ctrl] \notin Change /\ pc[Ctrl] \notin Change)

LEMMA GraphFrame ==
    ASSUME Inv, UNCHANGED <<owned, members, removed, subject, state, stale, cache, todo>>,
           Reading' = Reading, SameChange
    PROVE  Graph'
BY DEF Inv, Graph, SameChange, Change

LEMMA LateFrame ==
    ASSUME Inv, UNCHANGED <<members, removed, subject>>, SameChange,
           \A e \in Elements : NoToken(e) => NoToken(e)',
           \A w \in Workers : task'[w] \in Elements =>
              /\ task'[w] = task[w]
              /\ pc[w] \in {"got", "check", "reset", "release"} => pc'[w] \in {"got", "check", "reset", "release"},
           \A t \in Threads : arg'[t] \notin removed
    PROVE  LateTokens'
BY DEF Inv, LateTokens, SameChange, Change

LEMMA QueueTaskKeeps ==
    ASSUME Inv, NEW t \in Threads, QueueTask(t)
    PROVE  Inv'
<1>0. Types /\ pc[t] = "queue" /\ pc[t] \in Queues
  BY DEF Inv, QueueTask, Queues, Pushes
<1>1. PICK e \in Elements : e = arg[t] /\ e \notin removed
  BY <1>0 DEF Inv, Args, Types, LateTokens
<1>2. /\ UNCHANGED <<running, ready, taskRefs, state, owned, pipeVars, lockVars, task, todo, ctrlVars>>
  BY DEF QueueTask
<1>a. /\ UNCHANGED <<members, removed, subject, cache, stale, dirty, reconf, readers, writer,
                     cacheLock, then>>
  BY <1>2 DEF pipeVars, lockVars, ctrlVars
<1>3. CASE running /\ ~isQueued[e]
  <2>1. /\ isQueued' = [isQueued EXCEPT ![e] = TRUE] /\ pc' = [pc EXCEPT ![t] = "push"]
        /\ arg' = arg
    BY <1>1, <1>3 DEF QueueTask, Goto
  <2>2. InScan(t)' = InScan(t)
    <3>1. pc'[t] = "push"
      BY <1>0, <2>1 DEF Types
    <3> QED BY <1>0, <1>2, <3>1 DEF InScan, Scans, Queues, Pushes
  <2>3. /\ pc' \in [Threads -> WorkerPcs \cup CtrlPcs] /\ pc'[t] = "push"
        /\ \A u \in Threads \ {t} : pc'[u] = pc[u]
        /\ pc'[Ctrl] \in CtrlPcs /\ (\A v \in Workers : pc'[v] \in WorkerPcs)
        /\ pc'[Ctrl] = pc[Ctrl] \/ (t = Ctrl /\ pc'[Ctrl] = "push")
        /\ Reading' = Reading /\ readers' \in Nat /\ Locks' /\ Lives'
    BY <1>0, <1>2, <1>a, <2>1, <2>2, ScanMoves
  <2>4. SameChange
    BY <1>0, <2>3 DEF SameChange, Change
  <2>5. Types'
    BY <1>0, <1>2, <1>a, <2>1, <2>3 DEF Types
  <2>6. Args'
    BY <1>0, <1>2, <2>1, <2>3, Constants DEF Inv, Args, Queues, Pushes, Claims
  <2>7. Graph'
    BY <1>2, <1>a, <2>3, <2>4, GraphFrame
  <2>8. OneToken'
    <3>1. OneToken /\ isQueued \in [Elements -> BOOLEAN]
      BY <1>0 DEF Inv, Types
    <3>2. \A f : Waiting(f)' <=> Waiting(f)
      BY <1>2 DEF Waiting
    <3>3. \A f : \A u \in Threads : Pushing(u, f)' <=> Pushing(u, f) \/ (u = t /\ f = e)
      BY <1>0, <1>1, <2>1, <2>3 DEF Pushing, Pushes
    <3>4. \A f : \A v \in Workers : Working(v, f)' <=> Working(v, f)
      BY <1>0, <1>2, <2>3, Constants DEF Working, Claims
    <3>5. isQueued'[e] /\ \A f \in Elements \ {e} : isQueued'[f] <=> isQueued[f]
      BY <2>1, <3>1
    <3>6. ~Waiting(e) /\ (\A u \in Threads : ~Pushing(u, e)) /\ (\A v \in Workers : ~Working(v, e))
      BY <1>3, <3>1 DEF OneToken
    <3>7. \A u \in Threads : Pushing(u, e)' <=> u = t
      BY <3>3, <3>6
    <3>8. \A f \in Elements \ {e} : \A u \in Threads : Pushing(u, f)' <=> Pushing(u, f)
      BY <3>3
    <3> QED BY <1>2, <1>a, <3>1, <3>2, <3>4, <3>5, <3>6, <3>7, <3>8 DEF OneToken
  <2>9. LateTokens'
    <3>1. \A f \in Elements : NoToken(f) => NoToken(f)'
      BY <1>2, <2>1 DEF NoToken, Waiting
    <3>2. \A w \in Workers : pc[w] \in {"got", "check", "reset", "release"} => pc'[w] = pc[w]
      BY <1>0, <2>3, Constants
    <3>3. \A u \in Threads : arg'[u] \notin removed
      BY <2>1 DEF Inv, LateTokens
    <3> QED BY <1>2, <1>a, <2>4, <3>1, <3>2, <3>3, LateFrame
  <2>10. Refs'
    <3>1. \A f : Counted(f)' = Counted(f)
      BY <1>0, <2>1, <2>3, CountedStays DEF Carries
    <3> QED BY <1>2, <1>a, <3>1 DEF Inv, Refs, Count, Held, Waiting
  <2> QED BY <2>3, <2>5, <2>6, <2>7, <2>8, <2>9, <2>10 DEF Inv
<1>4. CASE ~(running /\ ~isQueued[e])
  <2> DEFINE l == AfterQueueTask(t)
  <2>1. /\ isQueued' = isQueued /\ pc' = [pc EXCEPT ![t] = l]
        /\ arg' = [arg EXCEPT ![t] = None]
    BY <1>1, <1>4 DEF QueueTask, Goto
  <2>2. /\ l \in {"scan", "release"} /\ (l = "release" <=> (t \in Workers /\ task[t] # None))
        /\ (l = "release" => t # Ctrl)
    BY Constants DEF AfterQueueTask
  <2> HIDE DEF l
  <2>3. InScan(t)' = InScan(t)
    <3>1. pc'[t] = l
      BY <1>0, <2>1 DEF Types
    <3> QED BY <1>0, <1>2, <2>2, <3>1 DEF InScan, Scans, Queues, Pushes
  <2>4. /\ pc' \in [Threads -> WorkerPcs \cup CtrlPcs] /\ pc'[t] = l
        /\ \A u \in Threads \ {t} : pc'[u] = pc[u]
        /\ pc'[Ctrl] \in CtrlPcs /\ (\A v \in Workers : pc'[v] \in WorkerPcs)
        /\ pc'[Ctrl] = pc[Ctrl] \/ (t = Ctrl /\ pc'[Ctrl] = l)
        /\ Reading' = Reading /\ readers' \in Nat /\ Locks' /\ Lives'
    BY <1>0, <1>2, <1>a, <2>1, <2>2, <2>3, ScanMoves
  <2>5. SameChange
    BY <1>0, <2>2, <2>4 DEF SameChange, Change
  <2>6. arg' \in [Threads -> Elements \cup {None}] /\ arg'[t] = None
        /\ \A u \in Threads \ {t} : arg'[u] = arg[u]
    BY <1>0, <2>1 DEF Types
  <2>7. Types'
    BY <1>0, <1>2, <1>a, <2>1, <2>4, <2>6 DEF Types
  <2>8. Args'
    BY <1>0, <1>2, <2>2, <2>4, <2>6, Constants DEF Inv, Args, Queues, Pushes, Claims
  <2>9. Graph'
    BY <1>2, <1>a, <2>4, <2>5, GraphFrame
  <2>10. OneToken'
    <3>1. \A f : Waiting(f)' <=> Waiting(f)
      BY <1>2 DEF Waiting
    <3>2. \A f \in Elements : \A u \in Threads : Pushing(u, f)' <=> Pushing(u, f)
      BY <1>0, <2>2, <2>4, <2>6 DEF Pushing, Pushes
    <3>3. \A f : \A v \in Workers : Working(v, f)' <=> Working(v, f)
      BY <1>0, <1>2, <2>2, <2>4, Constants DEF Working, Claims
    <3> QED BY <1>2, <1>a, <2>1, <3>1, <3>2, <3>3 DEF Inv, OneToken
  <2>11. LateTokens'
    <3>1. \A f \in Elements : NoToken(f) => NoToken(f)'
      BY <1>2, <2>6, Constants DEF NoToken, Waiting
    <3>2. \A w \in Workers : pc[w] \in {"got", "check", "reset", "release"} => pc'[w] = pc[w]
      BY <1>0, <2>4, Constants
    <3>3. \A u \in Threads : arg'[u] \notin removed
      BY <1>0, <2>6, Constants DEF Inv, LateTokens, Types
    <3> QED BY <1>2, <1>a, <2>5, <3>1, <3>2, <3>3, LateFrame
  <2>12. Refs'
    <3>1. \A f : Counted(f)' = Counted(f)
      BY <1>0, <2>2, <2>4, <2>6, CountedStays DEF Carries
    <3> QED BY <1>2, <1>a, <3>1 DEF Inv, Refs, Count, Held, Waiting
  <2> QED BY <2>4, <2>7, <2>8, <2>9, <2>10, <2>11, <2>12 DEF Inv
<1> QED BY <1>3, <1>4

(* From one step of the queueing of a task to the next *)
LEMMA PushingKeeps ==
    ASSUME Inv, NEW t \in Threads,
           CountTask(t) \/ UncountTask(t) \/ (PushToken(t) /\ ~(Len(ready) < QueueCap))
    PROVE  Inv'
<1>0. Types /\ OneToken /\ pc[t] \in {"push", "enqueue", "uncount"} /\ pc[t] \in Queues
  BY DEF Inv, CountTask, UncountTask, PushToken, Queues, Pushes
<1>1. PICK e \in Elements : e = arg[t] /\ e \notin removed
  BY <1>0 DEF Inv, Args, Types, LateTokens, Queues, Pushes
<1>2. UNCHANGED <<running, ready, isQueued, state, owned, pipeVars, lockVars, task, arg, todo, ctrlVars>>
  BY DEF CountTask, UncountTask, PushToken, elemVars
<1>a. /\ UNCHANGED <<members, removed, subject, cache, stale, dirty, reconf, readers, writer,
                     cacheLock, then>>
  BY <1>2 DEF pipeVars, lockVars, ctrlVars
<1>3. PICK l \in {"enqueue", "uncount", "unqueue"} : pc' = [pc EXCEPT ![t] = l]
        /\ \/ l = "enqueue" /\ pc[t] = "push" /\ taskRefs' = [taskRefs EXCEPT ![e] = @ + 1]
           \/ l = "uncount" /\ pc[t] = "enqueue" /\ taskRefs' = taskRefs
           \/ l = "unqueue" /\ pc[t] = "uncount" /\ taskRefs' = [taskRefs EXCEPT ![e] = @ - 1]
  BY <1>1 DEF CountTask, UncountTask, PushToken, elemVars, Goto
<1>4. InScan(t)' = InScan(t)
  <2>1. pc'[t] = l
    BY <1>0, <1>3 DEF Types
  <2> QED BY <1>0, <1>2, <1>3, <2>1 DEF InScan, Scans, Queues, Pushes
<1>5. /\ pc' \in [Threads -> WorkerPcs \cup CtrlPcs] /\ pc'[t] = l
      /\ \A u \in Threads \ {t} : pc'[u] = pc[u]
      /\ pc'[Ctrl] \in CtrlPcs /\ (\A v \in Workers : pc'[v] \in WorkerPcs)
      /\ pc'[Ctrl] = pc[Ctrl] \/ (t = Ctrl /\ pc'[Ctrl] = l)
      /\ Reading' = Reading /\ readers' \in Nat /\ Locks' /\ Lives'
  BY <1>0, <1>2, <1>3, <1>4, <1>a, ScanMoves
<1>6. SameChange
  BY <1>0, <1>5 DEF SameChange, Change
<1>7. Args'
  BY <1>0, <1>2, <1>5, Constants DEF Inv, Args, Queues, Pushes, Claims
<1>8. Graph'
  BY <1>2, <1>5, <1>6, <1>a, GraphFrame
<1>9. \A f : \A u \in Threads : Pushing(u, f)' <=> Pushing(u, f)
  BY <1>0, <1>2, <1>5 DEF Pushing, Pushes
<1>10. OneToken'
  <2>1. \A f : Waiting(f)' <=> Waiting(f)
    BY <1>2 DEF Waiting
  <2>2. \A f : \A v \in Workers : Working(v, f)' <=> Working(v, f)
    BY <1>0, <1>2, <1>5, Constants DEF Working, Claims
  <2> QED BY <1>0, <1>2, <1>9, <1>a, <2>1, <2>2 DEF OneToken
<1>11. LateTokens'
  <2>1. \A f \in Elements : NoToken(f) => NoToken(f)'
    BY <1>2 DEF NoToken, Waiting
  <2>2. \A w \in Workers : pc[w] \in {"got", "check", "reset", "release"} => pc'[w] = pc[w]
    BY <1>0, <1>5, Constants
  <2>3. \A u \in Threads : arg'[u] \notin removed
    BY <1>2 DEF Inv, LateTokens
  <2> QED BY <1>2, <1>a, <1>6, <2>1, <2>2, <2>3, LateFrame
<1>12. /\ ~Waiting(e) /\ \A u \in Threads : Pushing(u, e) <=> u = t
  BY <1>0, <1>1 DEF OneToken, Pushing, Pushes
<1>13. /\ Counted(e) = IF pc[t] \in Carries THEN {t} ELSE {}
       /\ Counted(e)' = IF l \in Carries THEN {t} ELSE {}
       /\ \A f : f # e => Counted(f)' = Counted(f)
  <2>1. \A u \in Threads \ {t} : ~(pc[u] \in Carries /\ arg[u] = e)
    BY <1>12 DEF Pushing, Pushes, Carries
  <2>2. Counted(e) = {u \in Threads : pc[u] \in Carries /\ arg[u] = e}
        /\ Counted(e)' = {u \in Threads : pc'[u] \in Carries /\ arg[u] = e}
    BY <1>2 DEF Counted, Carries
  <2>3. ASSUME NEW f, f # e PROVE Counted(f)' = Counted(f)
    BY <1>1, <1>2, <1>5, <2>3 DEF Counted
  <2> QED BY <1>1, <1>5, <2>1, <2>2, <2>3
<1>14. Held(e) \in Nat /\ (\A f : Held(f)' = Held(f)) /\ taskRefs[e] = Count(e)
       /\ \A f : Waiting(f)' <=> Waiting(f)
  BY <1>1, <1>2, HeldType DEF Held, Inv, Refs, Waiting
<1>15. Count(e) = (IF pc[t] \in Carries THEN 1 ELSE 0) + Held(e)
       /\ Count(e)' = (IF l \in Carries THEN 1 ELSE 0) + Held(e)
       /\ \A f : f # e => Count(f)' = Count(f)
  <2>1. Count(e) = (IF pc[t] \in Carries THEN 1 ELSE 0) + Held(e)
    BY <1>12, <1>13 DEF Count
  <2>2. Count(e)' = (IF l \in Carries THEN 1 ELSE 0) + Held(e)
    BY <1>12, <1>13, <1>14 DEF Count
  <2>3. \A f : f # e => Count(f)' = Count(f)
    BY <1>13, <1>14 DEF Count
  <2> QED BY <2>1, <2>2, <2>3
<1>16. /\ taskRefs' \in [Elements -> Nat] /\ taskRefs'[e] = Count(e)'
       /\ \A f \in Elements \ {e} : taskRefs'[f] = taskRefs[f]
  <2>1. taskRefs \in [Elements -> Nat]
    BY <1>0 DEF Types
  <2>2. CASE l = "enqueue"
    BY <1>3, <1>14, <1>15, <2>1, <2>2 DEF Carries
  <2>3. CASE l = "uncount"
    BY <1>3, <1>14, <1>15, <2>1, <2>3 DEF Carries
  <2>4. CASE l = "unqueue"
    BY <1>3, <1>14, <1>15, <2>1, <2>4 DEF Carries
  <2> QED BY <2>2, <2>3, <2>4
<1>17. Types'
  BY <1>0, <1>2, <1>a, <1>5, <1>16 DEF Types
<1>18. Refs'
  <2>1. removed \subseteq Elements
    BY <1>0 DEF Types
  <2> QED BY <1>1, <1>15, <1>16, <1>a, <2>1 DEF Inv, Refs
<1> QED BY <1>5, <1>7, <1>8, <1>10, <1>11, <1>17, <1>18 DEF Inv

(* The queueing of a task ends: the token is in the queue, or was taken    *)
(* back.                                                                   *)
LEMMA LeavesKeeps ==
    ASSUME Inv, NEW t \in Threads, (PushToken(t) /\ Len(ready) < QueueCap) \/ UnqueueTask(t)
    PROVE  Inv'
<1>0. Types /\ pc[t] \in {"enqueue", "unqueue"} /\ pc[t] \in Queues /\ Once(ready) /\ OneToken
  BY DEF Inv, PushToken, UnqueueTask, Queues, Pushes, OneToken, Once
<1>1. PICK e \in Elements : e = arg[t] /\ e \notin removed
  BY <1>0 DEF Inv, Args, Types, LateTokens
<1>2. /\ UNCHANGED <<running, taskRefs, state, owned, pipeVars, lockVars, task, todo, ctrlVars>>
      /\ arg' = [arg EXCEPT ![t] = None]
  BY DEF PushToken, UnqueueTask, elemVars
<1>a. /\ UNCHANGED <<members, removed, subject, cache, stale, dirty, reconf, readers, writer,
                     cacheLock, then>>
  BY <1>2 DEF pipeVars, lockVars, ctrlVars
<1> DEFINE l == AfterQueueTask(t)
<1>3. /\ l \in {"scan", "release"} /\ (l = "release" <=> (t \in Workers /\ task[t] # None))
      /\ (l = "release" => t # Ctrl) /\ pc' = [pc EXCEPT ![t] = l]
  BY Constants DEF AfterQueueTask, PushToken, UnqueueTask, Goto
<1> HIDE DEF l
<1>4. InScan(t)' = InScan(t)
  <2>1. pc'[t] = l
    BY <1>0, <1>3 DEF Types
  <2> QED BY <1>0, <1>2, <1>3, <2>1 DEF InScan, Scans, Queues, Pushes
<1>5. /\ pc' \in [Threads -> WorkerPcs \cup CtrlPcs] /\ pc'[t] = l
      /\ \A u \in Threads \ {t} : pc'[u] = pc[u]
      /\ pc'[Ctrl] \in CtrlPcs /\ (\A v \in Workers : pc'[v] \in WorkerPcs)
      /\ pc'[Ctrl] = pc[Ctrl] \/ (t = Ctrl /\ pc'[Ctrl] = l)
      /\ Reading' = Reading /\ readers' \in Nat /\ Locks'
  BY <1>0, <1>2, <1>3, <1>4, <1>a, ScanMoves
<1>6. Lives'
  BY <1>0, <1>2, <1>3, <1>4, <1>a, ScanMoves
<1>7. SameChange
  BY <1>0, <1>3, <1>5 DEF SameChange, Change
<1>8. arg' \in [Threads -> Elements \cup {None}] /\ arg'[t] = None
      /\ \A u \in Threads \ {t} : arg'[u] = arg[u]
  BY <1>0, <1>2 DEF Types
<1>9. Args'
  BY <1>0, <1>2, <1>3, <1>5, <1>8, Constants DEF Inv, Args, Queues, Pushes, Claims
<1>10. Graph'
  BY <1>2, <1>5, <1>7, <1>a, GraphFrame
<1>11. /\ isQueued[e] /\ ~Waiting(e) /\ (\A w \in Workers : ~Working(w, e))
       /\ \A u \in Threads : Pushing(u, e) <=> u = t
  BY <1>0, <1>1 DEF OneToken, Pushing, Pushes
<1>12. \A f \in Elements : \A u \in Threads : Pushing(u, f)' <=> Pushing(u, f) /\ f # e
  <2>1. \A u \in Threads \ {t} : \A f \in Elements : Pushing(u, f)' <=> Pushing(u, f)
    BY <1>5, <1>8 DEF Pushing, Pushes
  <2>2. \A f \in Elements : ~Pushing(t, f)' /\ (Pushing(t, f) => f = e)
    BY <1>1, <1>3, <1>5 DEF Pushing, Pushes
  <2> QED BY <1>11, <2>1, <2>2
<1>13. \A f : \A v \in Workers : Working(v, f)' <=> Working(v, f)
  BY <1>0, <1>2, <1>3, <1>5, Constants DEF Working, Claims
<1>14. \A w \in Workers : pc[w] \in {"got", "check", "reset", "release"} => pc'[w] = pc[w]
  BY <1>0, <1>5, Constants
<1>15. \A u \in Threads : arg'[u] \notin removed
  BY <1>0, <1>8, Constants DEF Inv, LateTokens, Types
<1>16. \A f : Held(f)' = Held(f)
  BY <1>2 DEF Held
<1>17. CASE PushToken(t) /\ Len(ready) < QueueCap
  <2>1. ready' = Append(ready, e) /\ isQueued' = isQueued /\ pc[t] = "enqueue"
    BY <1>1, <1>17 DEF PushToken, elemVars
  <2>2. /\ ready' \in Seq(Elements) /\ Len(ready') = Len(ready) + 1
        /\ Once(ready') /\ \A f : Waiting(f)' <=> Waiting(f) \/ f = e
    <3>1. ready \in Seq(Elements)
      BY <1>0 DEF Types
    <3>2. /\ Append(ready, e) \in Seq(Elements) /\ Len(Append(ready, e)) = Len(ready) + 1
          /\ Once(Append(ready, e))
          /\ \A f : (\E k \in DOMAIN Append(ready, e) : Append(ready, e)[k] = f) <=>
                     (\E k \in DOMAIN ready : ready[k] = f) \/ f = e
      BY <1>0, <1>11, <3>1, AppendOnce DEF Waiting
    <3>3. \A f : Waiting(f)' <=> Waiting(f) \/ f = e
      BY <2>1, <3>2, Zenon DEF Waiting
    <3> QED BY <2>1, <3>2, <3>3
  <2>3. Len(ready') <= QueueCap
    BY <1>0, <1>17, <2>2, LenProperties, Constants DEF Types
  <2>5. Types'
    BY <1>0, <1>2, <1>a, <1>5, <1>8, <2>1, <2>2, <2>3 DEF Types
  <2>6. OneToken'
    <3>1. \A f \in Elements \ {e} : \A u \in Threads : Pushing(u, f)' <=> Pushing(u, f)
      BY <1>12
    <3>2. \A u \in Threads : ~Pushing(u, e)'
      BY <1>12
    <3>3. Waiting(e)' /\ \A f \in Elements \ {e} : Waiting(f)' <=> Waiting(f)
      BY <2>2
    <3> QED BY <1>0, <1>11, <1>13, <1>a, <2>1, <2>2, <3>1, <3>2, <3>3 DEF OneToken, Once
  <2>7. LateTokens'
    <3>1. \A f \in Elements : NoToken(f) => NoToken(f)'
      BY <1>1, <1>2, <1>8, <2>2, Constants DEF NoToken
    <3> QED BY <1>2, <1>a, <1>7, <1>14, <1>15, <3>1, LateFrame
  <2>8. Refs'
    <3>1. Counted(e) # {} /\ \A f \in Elements \ {e} : Counted(f)' = Counted(f)
      <4>1. t \in Counted(e)
        BY <1>1, <2>1 DEF Counted
      <4>2. ASSUME NEW f \in Elements \ {e} PROVE Counted(f)' = Counted(f)
        <5>1. \A u \in Threads : (pc'[u] \in {"enqueue", "uncount"} /\ arg'[u] = f) <=>
                                  (pc[u] \in {"enqueue", "uncount"} /\ arg[u] = f)
          BY <1>1, <1>5, <1>8, Constants
        <5> QED BY <5>1 DEF Counted
      <4> QED BY <4>1, <4>2
    <3>2. Count(e)' = Count(e)
      <4>1. Waiting(e)' /\ Held(e)' = Held(e)
        BY <1>16, <2>2
      <4>2. Count(e)' = 1 + Held(e)' /\ Count(e) = 1 + Held(e)
        BY <3>1, <4>1 DEF Count
      <4> QED BY <4>1, <4>2
    <3>3. \A f \in Elements \ {e} : Count(f)' = Count(f)
      BY <1>16, <2>2, <3>1 DEF Count
    <3> QED BY <1>1, <1>2, <1>a, <3>2, <3>3 DEF Inv, Refs, Types
  <2> QED BY <1>5, <1>6, <1>9, <1>10, <2>5, <2>6, <2>7, <2>8 DEF Inv
<1>18. CASE UnqueueTask(t)
  <2>1. ready' = ready /\ isQueued' = [isQueued EXCEPT ![e] = FALSE] /\ pc[t] = "unqueue"
    BY <1>1, <1>18 DEF UnqueueTask
  <2>2. isQueued' \in [Elements -> BOOLEAN] /\ ~isQueued'[e]
        /\ \A f \in Elements \ {e} : isQueued'[f] <=> isQueued[f]
    BY <1>0, <2>1 DEF Types
  <2>3. Types'
    BY <1>0, <1>2, <1>a, <1>5, <1>8, <2>1, <2>2 DEF Types
  <2>4. \A f : Waiting(f)' <=> Waiting(f)
    BY <2>1 DEF Waiting
  <2>5. OneToken'
    <3>1. \A f \in Elements \ {e} : \A u \in Threads : Pushing(u, f)' <=> Pushing(u, f)
      BY <1>12
    <3>2. \A u \in Threads : ~Pushing(u, e)'
      BY <1>12
    <3> QED BY <1>0, <1>11, <1>13, <1>a, <2>1, <2>2, <2>4, <3>1, <3>2 DEF OneToken
  <2>6. LateTokens'
    <3>1. \A f \in Elements : NoToken(f) => NoToken(f)'
      BY <1>1, <1>2, <1>8, <2>4, Constants DEF NoToken
    <3> QED BY <1>2, <1>a, <1>7, <1>14, <1>15, <3>1, LateFrame
  <2>7. Refs'
    <3>1. \A f : Counted(f)' = Counted(f)
      BY <1>3, <1>5, <1>8, <2>1, CountedStays DEF Carries
    <3>2. \A f : Count(f)' = Count(f)
      BY <1>16, <2>4, <3>1 DEF Count
    <3> QED BY <1>2, <1>a, <3>2 DEF Inv, Refs
  <2> QED BY <1>5, <1>6, <1>9, <1>10, <2>3, <2>5, <2>6, <2>7 DEF Inv
<1> QED BY <1>17, <1>18

-----------------------------------------------------------------------------
(* Steps that touch no token.                                               *)

tokenVars == <<ready, isQueued, taskRefs, task>>

LEMMA TokenFrame ==
    ASSUME Inv, UNCHANGED tokenVars, UNCHANGED removed,
           \A t \in Threads : \A e \in Elements : Pushing(t, e)' <=> Pushing(t, e),
           \A e : Counted(e)' = Counted(e),
           \A w \in Workers : pc'[w] \in Claims <=> pc[w] \in Claims
    PROVE  OneToken' /\ Refs'
<1>1. \A e : Waiting(e)' <=> Waiting(e)
  BY DEF Waiting, tokenVars
<1>2. \A e : \A w \in Workers : Working(w, e)' <=> Working(w, e)
  BY DEF Working, tokenVars
<1>3. OneToken'
  BY <1>1, <1>2 DEF Inv, OneToken, tokenVars
<1>4. Refs'
  BY <1>1 DEF Inv, Refs, Count, Held, tokenVars
<1> QED BY <1>3, <1>4

LEMMA ScanNextKeeps ==
    ASSUME Inv, NEW t \in Threads, ScanNext(t)
    PROVE  Inv'
<1>0. Types /\ pc[t] = "scan" /\ t \in Reading
  BY DEF Inv, ScanNext, Reading, InScan, Scans
<1>1. PICK e \in todo[t] :
        /\ todo' = [todo EXCEPT ![t] = @ \ {e}]
        /\ \/ arg' = [arg EXCEPT ![t] = e] /\ pc' = [pc EXCEPT ![t] = "queue"]
           \/ UNCHANGED <<arg, pc>>
  BY DEF ScanNext, Goto
<1>2. UNCHANGED <<running, ready, isQueued, taskRefs, state, owned, members, removed, subject, cache,
                  stale, dirty, reconf, readers, writer, cacheLock, task, then>>
  BY DEF ScanNext, pipeVars, lockVars, ctrlVars, elemVars
<1>3. e \in members /\ e \in Elements /\ e \notin removed /\ pc[Ctrl] # "join_state"
  <2>1. e \in members
    BY <1>0 DEF Inv, Graph
  <2>2. writer # Ctrl
    BY <1>0 DEF Inv, Locks
  <2> QED BY <1>0, <2>1, <2>2 DEF Inv, Graph, Locks, Types
<1>4. todo' \in [Threads -> SUBSET Elements] /\ \A u \in Threads : todo'[u] \subseteq todo[u]
  BY <1>0, <1>1 DEF Types
<1>5. CASE UNCHANGED <<arg, pc>>
  <2>1. \A u \in Threads : InScan(u)' = InScan(u)
    BY <1>2, <1>5 DEF InScan
  <2>2. Reading' = Reading /\ readers' = Cardinality(Reading')
    BY <1>2, <2>1, SameReaders DEF Inv
  <2>3. Types' /\ Args' /\ Lives'
    BY <1>0, <1>2, <1>4, <1>5 DEF Inv, Types, Args, Lives
  <2>4. Locks'
    BY <1>2, <1>5, <2>2 DEF Inv, Locks
  <2>5. Graph'
    BY <1>2, <1>4, <1>5, <2>2 DEF Inv, Graph
  <2>6. OneToken' /\ Refs'
    BY <1>2, <1>5, TokenFrame DEF Pushing, Counted, tokenVars
  <2>7. LateTokens'
    BY <1>2, <1>5 DEF Inv, LateTokens, NoToken, Waiting
  <2> QED BY <2>3, <2>4, <2>5, <2>6, <2>7 DEF Inv
<1>6. CASE arg' = [arg EXCEPT ![t] = e] /\ pc' = [pc EXCEPT ![t] = "queue"]
  <2>1. InScan(t)' = InScan(t)
    <3>1. pc'[t] = "queue"
      BY <1>0, <1>6 DEF Types
    <3>2. t \in Workers => task[t] = None
      BY <1>0 DEF Inv, Args, Claims, Queues, Pushes
    <3> QED BY <1>0, <1>2, <3>1, <3>2 DEF InScan, Scans, Queues, Pushes
  <2>2. /\ pc' \in [Threads -> WorkerPcs \cup CtrlPcs] /\ pc'[t] = "queue"
        /\ \A u \in Threads \ {t} : pc'[u] = pc[u]
        /\ pc'[Ctrl] \in CtrlPcs /\ (\A v \in Workers : pc'[v] \in WorkerPcs)
        /\ pc'[Ctrl] = pc[Ctrl] \/ (t = Ctrl /\ pc'[Ctrl] = "queue")
        /\ Reading' = Reading /\ readers' \in Nat /\ Locks' /\ Lives'
    BY <1>0, <1>2, <1>6, <2>1, ScanMoves DEF Scans
  <2>3. SameChange
    BY <1>0, <2>2 DEF SameChange, Change
  <2>4. arg' \in [Threads -> Elements \cup {None}] /\ arg'[t] = e
        /\ \A u \in Threads \ {t} : arg'[u] = arg[u]
    BY <1>0, <1>3, <1>6 DEF Types
  <2>5. Types'
    BY <1>0, <1>2, <1>4, <2>2, <2>4 DEF Types
  <2>6. Args'
    BY <1>0, <1>2, <1>3, <2>2, <2>4, Constants DEF Inv, Args, Queues, Pushes, Claims
  <2>7. Graph'
    <3>1. \A u \in Threads : todo'[u] \subseteq members /\ (u \notin Reading' => todo'[u] = {})
      BY <1>4, <2>2 DEF Inv, Graph
    <3> QED BY <1>2, <2>2, <2>3, <3>1 DEF Inv, Graph, SameChange, Change
  <2>8. OneToken' /\ Refs'
    <3>1. \A u \in Threads : \A f \in Elements : Pushing(u, f)' <=> Pushing(u, f)
      BY <1>0, <2>2, <2>4 DEF Pushing, Pushes
    <3>2. \A w \in Workers : pc'[w] \in Claims <=> pc[w] \in Claims
      BY <1>0, <2>2, Constants DEF Claims
    <3>3. \A f : Counted(f)' = Counted(f)
      BY <1>0, <2>2, <2>4, CountedStays DEF Carries
    <3> QED BY <1>2, <3>1, <3>2, <3>3, TokenFrame DEF tokenVars
  <2>9. LateTokens'
    <3>1. \A f \in Elements : f # e /\ NoToken(f) => NoToken(f)'
      BY <1>2, <2>4, Constants DEF NoToken, Waiting
    <3>2. \A f \in Elements : f \notin members \cup removed \/ (pc'[Ctrl] = "join_state" /\ f = subject)
             => NoToken(f)'
      BY <1>3, <2>3, <3>1 DEF Inv, LateTokens, SameChange, Change
    <3>3. \A w \in Workers : pc[w] \in {"got", "check", "reset", "release"} => pc'[w] = pc[w]
      BY <1>0, <2>2, Constants
    <3>4. \A u \in Threads : arg'[u] \notin removed
      BY <1>3, <2>4, Constants DEF Inv, LateTokens, Types
    <3> QED BY <1>2, <2>3, <3>2, <3>3, <3>4 DEF Inv, LateTokens, SameChange, Change
  <2> QED BY <2>2, <2>5, <2>6, <2>7, <2>8, <2>9 DEF Inv
<1> QED BY <1>1, <1>5, <1>6

(* One thread moves, and nobody begins or ends the queueing of a task. *)
LEMMA QuietMove ==
    ASSUME Inv, NEW t \in Threads, NEW l, l \in IF t = Ctrl THEN CtrlPcs ELSE WorkerPcs,
           pc' = [pc EXCEPT ![t] = l], UNCHANGED tokenVars, UNCHANGED arg,
           l \notin Queues, pc[t] \notin Queues,
           t \in Workers => pc[t] \notin Claims \cup {"release"} /\ l \notin Claims \cup {"release"}
    PROVE  /\ pc' \in [Threads -> WorkerPcs \cup CtrlPcs] /\ pc'[t] = l
           /\ \A u \in Threads \ {t} : pc'[u] = pc[u] /\ (InScan(u)' <=> InScan(u))
           /\ InScan(t)' <=> l \in Scans
           /\ InScan(t) <=> pc[t] \in Scans
           /\ pc'[Ctrl] \in CtrlPcs /\ (\A v \in Workers : pc'[v] \in WorkerPcs)
           /\ Args' /\ (UNCHANGED removed => OneToken' /\ Refs')
           /\ \A e : NoToken(e)' <=> NoToken(e)
           /\ \A e : Counted(e)' = Counted(e)
           /\ \A w \in Workers : task[w] # None => pc'[w] = pc[w]
<1>1. Types
  BY DEF Inv
<1>2. /\ pc' \in [Threads -> WorkerPcs \cup CtrlPcs] /\ pc'[t] = l
      /\ \A u \in Threads \ {t} : pc'[u] = pc[u]
      /\ pc'[Ctrl] \in CtrlPcs /\ \A v \in Workers : pc'[v] \in WorkerPcs
  BY <1>1, Moves
<1>3. UNCHANGED <<task, ready>>
  BY DEF tokenVars
<1>4. \A u \in Threads \ {t} : InScan(u)' <=> InScan(u)
  BY <1>2, <1>3 DEF InScan
<1>5. (InScan(t)' <=> l \in Scans) /\ (InScan(t) <=> pc[t] \in Scans)
  BY <1>2 DEF InScan
<1>6. t \in Workers => task[t] = None
  BY DEF Inv, Args
<1>7. \A w \in Workers : task[w] # None => pc'[w] = pc[w]
  BY <1>2, <1>6, Constants
<1>8. Args'
  BY <1>2, <1>3, <1>6, Constants DEF Inv, Args
<1>9. \A u \in Threads : \A e \in Elements : Pushing(u, e)' <=> Pushing(u, e)
  BY <1>2 DEF Pushing, Pushes, Queues
<1>10. \A w \in Workers : pc'[w] \in Claims <=> pc[w] \in Claims
  BY <1>2, Constants
<1>13. \A e : Counted(e)' = Counted(e)
  BY <1>2, CountedStays DEF Queues, Pushes, Carries
<1>11. UNCHANGED removed => OneToken' /\ Refs'
  BY <1>9, <1>10, <1>13, TokenFrame
<1>12. \A e : NoToken(e)' <=> NoToken(e)
  BY <1>3 DEF NoToken, Waiting
<1> QED BY <1>2, <1>4, <1>5, <1>7, <1>8, <1>11, <1>12, <1>13

LEMMA ScanLockKeeps ==
    ASSUME Inv, NEW t \in Threads, ScanLock(t)
    PROVE  Inv'
<1>0. Types /\ pc[t] = "rescan" /\ pc' = [pc EXCEPT ![t] = "refresh"]
  BY DEF Inv, ScanLock, Goto
<1>1. /\ UNCHANGED <<running, ready, isQueued, taskRefs, state, owned, members, removed, subject, cache,
                     stale, dirty, reconf, cacheLock, task, then, arg, todo>>
      /\ UNCHANGED tokenVars
  BY DEF ScanLock, pipeVars, ctrlVars, elemVars, tokenVars
<1>2. writer = None /\ writer' = None /\ readers' = readers + 1
  <2>1. writer \in {None, t}
    BY DEF ScanLock, RdLock, CanRead
  <2>2. writer # t
    BY <1>0, Constants DEF Inv, Locks, Types
  <2> QED BY <2>1, <2>2 DEF ScanLock, RdLock
<1>3. "refresh" \in (IF t = Ctrl THEN CtrlPcs ELSE WorkerPcs) /\ "refresh" \in Scans
      /\ pc[t] \notin Queues \cup Claims \cup {"release"} \cup Scans
      /\ "refresh" \notin Queues \cup Claims \cup {"release"}
  BY <1>0 DEF CtrlPcs, WorkerPcs, Scans, Queues, Pushes, Claims
<1>4. /\ pc' \in [Threads -> WorkerPcs \cup CtrlPcs] /\ pc'[t] = "refresh"
      /\ \A u \in Threads \ {t} : pc'[u] = pc[u] /\ (InScan(u)' <=> InScan(u))
      /\ InScan(t)' /\ ~InScan(t)
      /\ pc'[Ctrl] \in CtrlPcs /\ (\A v \in Workers : pc'[v] \in WorkerPcs)
      /\ Args' /\ OneToken' /\ Refs'
      /\ \A e : NoToken(e)' <=> NoToken(e)
      /\ \A w \in Workers : task[w] # None => pc'[w] = pc[w]
  BY <1>0, <1>1, <1>3, QuietMove
<1>5. Reading' = Reading \cup {t} /\ readers' = Cardinality(Reading') /\ readers' \in Nat
  <2>1. \A u \in Threads \ {t} : InScan(u)' = InScan(u)
    BY <1>4 DEF InScan
  <2> QED BY <1>2, <1>4, <2>1, OneReaderMore DEF Inv
<1>6. Types'
  BY <1>0, <1>1, <1>2, <1>4, <1>5 DEF Types
<1>7. SameChange /\ pc'[Ctrl] \in {pc[Ctrl], "refresh"} /\ (pc'[Ctrl] = pc[Ctrl] \/ pc[Ctrl] = "rescan")
  BY <1>0, <1>4, Constants DEF SameChange, Change
<1>8. Locks'
  BY <1>1, <1>2, <1>5, <1>7, Constants DEF Inv, Locks
<1>9. Lives'
  <2>1. CASE t = Ctrl
    <3>1. \A w \in Workers : pc'[w] = pc[w]
      BY <1>4, <2>1, Constants
    <3> QED BY <1>0, <1>1, <1>4, <2>1, <3>1 DEF Inv, Lives, Scans, Queues, Pushes
  <2>2. CASE t # Ctrl
    <3>1. pc'[Ctrl] = pc[Ctrl] /\ t \in Workers
      BY <1>4, <2>2, Constants
    <3> QED BY <1>0, <1>1, <1>4, <3>1, Constants DEF Inv, Lives
  <2> QED BY <2>1, <2>2
<1>11. Graph'
  <2>1. \A u \in Threads : todo'[u] \subseteq members /\ (u \notin Reading' => todo'[u] = {})
    BY <1>1, <1>5 DEF Inv, Graph
  <2> QED BY <1>1, <1>7, <2>1 DEF Inv, Graph, SameChange, Change
<1>12. LateTokens'
  <2>1. \A u \in Threads : arg'[u] \notin removed
    BY <1>1 DEF Inv, LateTokens
  <2>2. \A w \in Workers : task'[w] \in Elements => task'[w] = task[w] /\ pc'[w] = pc[w]
    BY <1>1, <1>4, Constants
  <2> QED BY <1>1, <1>4, <1>7, <2>1, <2>2, LateFrame
<1> QED BY <1>4, <1>6, <1>8, <1>9, <1>11, <1>12 DEF Inv

LEMMA ScanBeginKeeps ==
    ASSUME Inv, NEW t \in Threads, ScanBegin(t) \/ ScanUncached(t)
    PROVE  Inv'
<1>0. Types /\ pc[t] = "refresh" /\ pc' = [pc EXCEPT ![t] = "scan"]
  BY DEF Inv, ScanBegin, ScanUncached, Goto
<1>1. /\ UNCHANGED <<running, ready, isQueued, taskRefs, state, owned, members, removed, subject,
                     dirty, reconf, readers, writer, task, then, arg>>
      /\ UNCHANGED tokenVars
  BY DEF ScanBegin, ScanUncached, rwVars, lockVars, pipeVars, ctrlVars, elemVars, tokenVars
<1>2. "scan" \in (IF t = Ctrl THEN CtrlPcs ELSE WorkerPcs) /\ "scan" \in Scans /\ pc[t] \in Scans
      /\ pc[t] \notin Queues \cup Claims \cup {"release"}
      /\ "scan" \notin Queues \cup Claims \cup {"release"}
  BY <1>0 DEF CtrlPcs, WorkerPcs, Scans, Queues, Pushes, Claims
<1>3. /\ InScan(t)' /\ InScan(t) /\ Args' /\ OneToken' /\ Refs'
      /\ \A e : NoToken(e)' <=> NoToken(e)
      /\ \A w \in Workers : task[w] # None => pc'[w] = pc[w]
  BY <1>0, <1>1, <1>2, QuietMove
<1>4. /\ pc' \in [Threads -> WorkerPcs \cup CtrlPcs] /\ pc'[t] = "scan"
      /\ \A u \in Threads \ {t} : pc'[u] = pc[u]
      /\ pc'[Ctrl] \in CtrlPcs /\ (\A v \in Workers : pc'[v] \in WorkerPcs)
      /\ pc'[Ctrl] = pc[Ctrl] \/ (t = Ctrl /\ pc'[Ctrl] = "scan")
      /\ Reading' = Reading /\ readers' \in Nat /\ Locks' /\ Lives'
  <2>1. InScan(t)' = InScan(t)
    BY <1>3 DEF InScan
  <2> QED BY <1>0, <1>1, <1>2, <2>1, ScanMoves
<1>5. SameChange
  BY <1>0, <1>4 DEF SameChange, Change
<1>6. /\ cache' \subseteq Elements /\ stale' \in BOOLEAN /\ (~stale' => cache' \subseteq members)
      /\ cacheLock' \in Threads \cup {None}
      /\ \E T \in SUBSET members : todo' = [todo EXCEPT ![t] = T]
  <2>1. CASE ScanBegin(t)
    BY <1>0, <2>1 DEF ScanBegin, Inv, Graph, Types
  <2>2. CASE ScanUncached(t)
    BY <1>0, <2>2 DEF ScanUncached, pipeVars, lockVars, Inv, Graph, Types
  <2> QED BY <2>1, <2>2
<1>7. todo' \in [Threads -> SUBSET Elements] /\ todo'[t] \subseteq members
      /\ \A u \in Threads \ {t} : todo'[u] = todo[u]
  BY <1>0, <1>6 DEF Types
<1>8. Types'
  BY <1>0, <1>1, <1>4, <1>6, <1>7 DEF Types
<1>9. Graph'
  <2>1. t \in Reading
    BY <1>3 DEF Reading
  <2>2. \A u \in Threads : todo'[u] \subseteq members /\ (u \notin Reading' => todo'[u] = {})
    BY <1>4, <1>6, <1>7, <2>1 DEF Inv, Graph
  <2> QED BY <1>1, <1>5, <1>6, <2>2 DEF Inv, Graph, SameChange, Change
<1>10. LateTokens'
  <2>1. \A u \in Threads : arg'[u] \notin removed
    BY <1>1 DEF Inv, LateTokens
  <2>2. \A w \in Workers : task'[w] \in Elements => task'[w] = task[w] /\ pc'[w] = pc[w]
    BY <1>1, <1>3, Constants
  <2> QED BY <1>1, <1>3, <1>5, <2>1, <2>2, LateFrame
<1> QED BY <1>3, <1>4, <1>8, <1>9, <1>10 DEF Inv

LEMMA ScanEndKeeps ==
    ASSUME Inv, NEW t \in Threads, ScanEnd(t)
    PROVE  Inv'
<1> DEFINE l == IF t = Ctrl THEN then ELSE "loop"
<1>0. Types /\ pc[t] = "scan" /\ pc' = [pc EXCEPT ![t] = l] /\ todo[t] = {}
  BY DEF Inv, ScanEnd, Goto
<1>1. /\ UNCHANGED <<running, ready, isQueued, taskRefs, state, owned, members, removed, subject, cache,
                     stale, dirty, reconf, task, then, arg, todo>>
      /\ UNCHANGED tokenVars /\ cacheLock' \in {cacheLock, None}
  BY DEF ScanEnd, pipeVars, ctrlVars, elemVars, tokenVars
<1>2. then \in {"idle", "spawn", "resize"} \/ t # Ctrl
  BY <1>0 DEF Inv, Lives, Types
<1>3. l \in {"loop", "idle", "spawn", "resize"} /\ (t # Ctrl <=> l = "loop") /\ (t = Ctrl => l = then)
      /\ l \in (IF t = Ctrl THEN CtrlPcs ELSE WorkerPcs)
  BY <1>2 DEF CtrlPcs, WorkerPcs
<1> HIDE DEF l
<1>4. /\ pc[t] \in Scans /\ pc[t] \notin Queues \cup Claims \cup {"release"}
      /\ l \notin Queues \cup Scans \cup {"release"} /\ (t \in Workers => l \notin Claims)
  <2>1. t \in Workers => l = "loop"
    BY <1>3, Constants
  <2> QED BY <1>0, <1>3, <2>1 DEF CtrlPcs, WorkerPcs, Scans, Queues, Pushes, Claims
<1>5. /\ pc' \in [Threads -> WorkerPcs \cup CtrlPcs] /\ pc'[t] = l
      /\ \A u \in Threads \ {t} : pc'[u] = pc[u] /\ (InScan(u)' <=> InScan(u))
      /\ ~InScan(t)' /\ InScan(t)
      /\ pc'[Ctrl] \in CtrlPcs /\ (\A v \in Workers : pc'[v] \in WorkerPcs)
      /\ Args' /\ OneToken' /\ Refs'
      /\ \A e : NoToken(e)' <=> NoToken(e)
      /\ \A w \in Workers : task[w] # None => pc'[w] = pc[w]
  BY <1>0, <1>1, <1>3, <1>4, QuietMove
<1>6. writer = None /\ writer' = None /\ readers' = readers - 1
  <2>1. t \in Reading
    BY <1>5 DEF Reading
  <2>2. writer = None
    BY <1>0, <2>1 DEF Inv, Locks, Types
  <2> QED BY <2>2, Constants DEF ScanEnd, Unlock
<1>7. Reading' = Reading \ {t} /\ readers' = Cardinality(Reading') /\ readers' \in Nat
  <2>1. \A u \in Threads \ {t} : InScan(u)' = InScan(u)
    BY <1>5 DEF InScan
  <2> QED BY <1>5, <1>6, <2>1, OneReaderLess DEF Inv
<1>8. Types'
  BY <1>0, <1>1, <1>5, <1>6, <1>7 DEF Types
<1>9. SameChange /\ (t # Ctrl => pc'[Ctrl] = pc[Ctrl])
  BY <1>0, <1>3, <1>5, Constants DEF SameChange, Change
<1>10. Locks'
  <2>1. CASE t # Ctrl
    BY <1>1, <1>6, <1>7, <1>9, <2>1, Constants DEF Inv, Locks
  <2>2. CASE t = Ctrl
    <3>1. ~reconf
      BY <1>0, <2>2 DEF Inv, Locks
    <3>2. pc'[Ctrl] \in {"idle", "spawn", "resize"}
      BY <1>2, <1>3, <1>5, <2>2
    <3> QED BY <1>1, <1>6, <1>7, <3>1, <3>2, Constants DEF Locks
  <2> QED BY <2>1, <2>2
<1>11. Lives'
  <2>1. CASE t = Ctrl
    <3>1. \A w \in Workers : pc'[w] = pc[w]
      BY <1>5, <2>1, Constants
    <3>2. running /\ pc'[Ctrl] = then /\ then \in {"idle", "spawn", "resize"}
      BY <1>0, <1>2, <1>3, <1>5, <2>1 DEF Inv, Lives, Scans
    <3> QED BY <1>0, <1>1, <2>1, <3>1, <3>2 DEF Inv, Lives, Scans, Queues, Pushes
  <2>2. CASE t # Ctrl
    <3>1. pc'[Ctrl] = pc[Ctrl] /\ t \in Workers
      BY <1>5, <2>2, Constants
    <3> QED BY <1>0, <1>1, <1>5, <3>1, Constants DEF Inv, Lives
  <2> QED BY <2>1, <2>2
<1>12. Graph'
  <2>1. \A u \in Threads : todo'[u] \subseteq members /\ (u \notin Reading' => todo'[u] = {})
    BY <1>0, <1>1, <1>7 DEF Inv, Graph
  <2> QED BY <1>1, <1>9, <2>1 DEF Inv, Graph, SameChange, Change
<1>13. LateTokens'
  <2>1. \A u \in Threads : arg'[u] \notin removed
    BY <1>1 DEF Inv, LateTokens
  <2>2. \A w \in Workers : task'[w] \in Elements => task'[w] = task[w] /\ pc'[w] = pc[w]
    BY <1>1, <1>5, Constants
  <2> QED BY <1>1, <1>5, <1>9, <2>1, <2>2, LateFrame
<1> QED BY <1>5, <1>8, <1>10, <1>11, <1>12, <1>13 DEF Inv

-----------------------------------------------------------------------------
(* Ctrl.                                                                    *)

LEMMA CtrlMoves ==
    ASSUME Inv, NEW l \in CtrlPcs, l \notin Scans \cup Queues, pc[Ctrl] \notin Scans \cup Queues,
           pc' = [pc EXCEPT ![Ctrl] = l], UNCHANGED tokenVars, UNCHANGED <<arg, readers>>
    PROVE  /\ pc' \in [Threads -> WorkerPcs \cup CtrlPcs] /\ pc'[Ctrl] = l
           /\ pc'[Ctrl] \in CtrlPcs /\ (\A w \in Workers : pc'[w] \in WorkerPcs)
           /\ \A w \in Workers : pc'[w] = pc[w]
           /\ Reading' = Reading /\ readers' = Cardinality(Reading')
           /\ Args' /\ (UNCHANGED removed => OneToken' /\ Refs')
           /\ \A e : NoToken(e)' <=> NoToken(e)
           /\ \A e : Counted(e)' = Counted(e)
           /\ UNCHANGED <<ready, isQueued, taskRefs, task, arg, readers>>
<1>1. Ctrl \in Threads /\ Ctrl \notin Workers /\ \A w \in Workers : w \in Threads \ {Ctrl}
  BY Constants
<1>2. /\ pc' \in [Threads -> WorkerPcs \cup CtrlPcs] /\ pc'[Ctrl] = l
      /\ \A u \in Threads \ {Ctrl} : pc'[u] = pc[u] /\ (InScan(u)' <=> InScan(u))
      /\ InScan(Ctrl)' <=> l \in Scans
      /\ InScan(Ctrl) <=> pc[Ctrl] \in Scans
      /\ pc'[Ctrl] \in CtrlPcs /\ (\A v \in Workers : pc'[v] \in WorkerPcs)
      /\ Args' /\ (UNCHANGED removed => OneToken' /\ Refs')
      /\ \A e : NoToken(e)' <=> NoToken(e)
      /\ \A e : Counted(e)' = Counted(e)
  BY <1>1, QuietMove
<1>3. \A u \in Threads : InScan(u)' = InScan(u)
  BY <1>2 DEF InScan
<1>4. Reading' = Reading /\ readers' = Cardinality(Reading')
  BY <1>3, SameReaders DEF Inv
<1> QED BY <1>1, <1>2, <1>4 DEF tokenVars

(* The calls that change neither the graph nor the tokens *)
graphVars == <<owned, members, removed, subject, cache, todo>>

LEMMA CtrlKeeps ==
    ASSUME Inv, NEW l \in CtrlPcs, l \notin Scans \cup Queues, pc[Ctrl] \notin Scans \cup Queues,
           pc' = [pc EXCEPT ![Ctrl] = l], UNCHANGED tokenVars, UNCHANGED graphVars,
           UNCHANGED <<arg, readers, cacheLock, state>>, stale' \in BOOLEAN, stale' \/ UNCHANGED stale,
           dirty' \in BOOLEAN, running' \in BOOLEAN, reconf' \in BOOLEAN, writer' \in {None, Ctrl},
           then' \in {"idle", "spawn", "finish", "resize"},
           l \notin Change /\ pc[Ctrl] \notin Change, Locks', Lives'
    PROVE  Inv'
<1>1. /\ pc' \in [Threads -> WorkerPcs \cup CtrlPcs] /\ pc'[Ctrl] = l
      /\ pc'[Ctrl] \in CtrlPcs /\ (\A w \in Workers : pc'[w] \in WorkerPcs)
      /\ \A w \in Workers : pc'[w] = pc[w]
      /\ Reading' = Reading /\ readers' = Cardinality(Reading')
      /\ Args' /\ (UNCHANGED removed => OneToken' /\ Refs')
      /\ \A e : NoToken(e)' <=> NoToken(e)
      /\ UNCHANGED <<ready, isQueued, taskRefs, task, arg, readers>>
  BY CtrlMoves
<1>2. SameChange /\ UNCHANGED <<owned, members, removed, subject, cache, todo>>
  BY <1>1 DEF SameChange, graphVars
<1>3. Types'
  BY <1>1, <1>2 DEF Inv, Types
<1>4. Graph'
  BY <1>1, <1>2 DEF Inv, Graph, SameChange, Change
<1>5. LateTokens'
  <2>1. \A t \in Threads : arg'[t] \notin removed
    BY <1>1 DEF Inv, LateTokens
  <2> QED BY <1>1, <1>2, <2>1, LateFrame
<1> QED BY <1>1, <1>2, <1>3, <1>4, <1>5 DEF Inv

LEMMA CallsKeep ==
    ASSUME Inv, CtrlStop \/ CtrlWake \/ CtrlBegin \/ CtrlEnd \/ CtrlFinish \/ CtrlResize
    PROVE  Inv'
<1>0. Types /\ Locks /\ Lives
  BY DEF Inv
<1>1. PICK l : /\ l \in CtrlPcs /\ l \notin Scans \cup Queues /\ l \notin Change
               /\ pc' = [pc EXCEPT ![Ctrl] = l]
  <2>1. CASE CtrlBegin
    <3>1. pc' = [pc EXCEPT ![Ctrl] = "idle"]
      BY <1>0, <2>1 DEF CtrlBegin, Types
    <3> QED BY <3>1 DEF CtrlPcs, Scans, Queues, Pushes, Change
  <2>2. CASE CtrlWake
    <3>1. pc' = [pc EXCEPT ![Ctrl] = IF running THEN "rescan" ELSE then] /\ then # "spawn"
      BY <1>0, <2>2 DEF CtrlWake, Goto, Lives, Queues, Pushes
    <3> QED BY <1>0, <3>1 DEF Types, CtrlPcs, Scans, Queues, Pushes, Change
  <2>3. CASE CtrlStop \/ CtrlEnd \/ CtrlFinish \/ CtrlResize
    BY <2>3 DEF CtrlStop, CtrlEnd, CtrlFinish, CtrlResize, Goto, CtrlPcs, Scans, Queues, Pushes, Change
  <2> QED BY <2>1, <2>2, <2>3
<1>2. pc[Ctrl] \notin Scans \cup Queues /\ pc[Ctrl] \notin Change
  BY DEF CtrlStop, CtrlWake, CtrlBegin, CtrlEnd, CtrlFinish, CtrlResize, Scans, Queues, Pushes, Change
<1>3. /\ UNCHANGED tokenVars /\ UNCHANGED graphVars /\ UNCHANGED <<arg, cacheLock, state>>
  BY DEF CtrlStop, CtrlWake, CtrlBegin, CtrlEnd, CtrlFinish, CtrlResize, tokenVars, graphVars,
         elemVars, pipeVars, ctrlVars, lockVars
<1>4. /\ stale' \in BOOLEAN /\ (stale' \/ UNCHANGED stale) /\ dirty' \in BOOLEAN
      /\ running' \in BOOLEAN /\ reconf' \in BOOLEAN
      /\ then' \in {"idle", "spawn", "finish", "resize"}
  BY <1>0 DEF CtrlStop, CtrlWake, CtrlBegin, CtrlEnd, CtrlFinish, CtrlResize,
         elemVars, pipeVars, ctrlVars, lockVars, Types
<1>5. UNCHANGED readers /\ writer' \in {None, Ctrl}
  BY <1>0 DEF CtrlStop, CtrlWake, CtrlBegin, CtrlEnd, CtrlFinish, CtrlResize,
         lockVars, Types, Locks, Unlock, WrLock
<1>6. /\ pc'[Ctrl] = l /\ \A w \in Workers : pc'[w] = pc[w]
      /\ Reading' = Reading /\ readers' = Cardinality(Reading') /\ ready' = ready
  BY <1>1, <1>2, <1>3, <1>5, CtrlMoves
<1>7. readers = 0 => Reading = {}
  BY <1>0, ReadingFinite, FS_EmptySet DEF Locks
<1>8. Locks' /\ Lives'
  <2>1. CASE CtrlStop
    <3>1. /\ pc[Ctrl] = "idle" /\ l = "join" /\ ~running' /\ ~reconf
          /\ UNCHANGED <<reconf, writer, then>>
      BY <1>0, <1>1, <2>1, Constants DEF CtrlStop, Goto, pipeVars, ctrlVars, lockVars, Types
    <3> QED BY <1>0, <1>6, <3>1, Constants DEF Locks, Lives, Scans, Queues, Pushes
  <2>2. CASE CtrlWake
    <3>1. /\ pc[Ctrl] = "wake" /\ l = (IF running THEN "rescan" ELSE then)
          /\ UNCHANGED <<reconf, writer, then, running>>
      BY <1>0, <1>1, <2>2, Constants DEF CtrlWake, Goto, pipeVars, ctrlVars, lockVars, Types
    <3>2. then # "spawn" /\ ~reconf
      BY <1>0, <3>1 DEF Lives, Locks, Queues, Pushes
    <3>3. CASE running
      <4>1. then # "finish" /\ writer # Ctrl
        BY <1>0, <3>1, <3>3 DEF Lives, Locks
      <4> QED BY <1>0, <1>6, <3>1, <3>2, <3>3, <4>1 DEF Locks, Lives
    <3>4. CASE ~running
      <4>1. l = then /\ then \in {"idle", "finish", "resize"}
        BY <1>0, <3>1, <3>2, <3>4 DEF Types
      <4>2. Locks'
        BY <1>0, <1>6, <3>1, <3>2, <4>1 DEF Locks
      <4>3. Lives'
        BY <1>0, <1>6, <3>1, <3>2, <3>4, <4>1 DEF Lives, Scans, Queues, Pushes
      <4> QED BY <4>2, <4>3
    <3> QED BY <3>3, <3>4
  <2>3. CASE CtrlBegin
    <3>1. /\ pc[Ctrl] = "idle" /\ pc'[Ctrl] = "idle" /\ reconf' = TRUE /\ writer' = Ctrl /\ readers = 0
          /\ UNCHANGED <<running, then>>
      BY <2>3 DEF CtrlBegin, WrLock, ctrlVars
    <3> QED BY <1>0, <1>6, <1>7, <3>1, Constants DEF Locks, Lives
  <2>4. CASE CtrlEnd
    <3>1. /\ pc[Ctrl] = "idle" /\ l = "finish" /\ reconf /\ reconf' = FALSE
          /\ UNCHANGED <<running, then, writer>>
      BY <1>0, <1>1, <2>4, Constants DEF CtrlEnd, Goto, pipeVars, ctrlVars, lockVars, Types
    <3> QED BY <1>0, <1>6, <3>1, Constants DEF Locks, Lives, Scans, Queues, Pushes
  <2>5. CASE CtrlFinish
    <3>1. /\ pc[Ctrl] = "finish" /\ l = "wake" /\ then' = "resize"
          /\ writer' = None /\ UNCHANGED <<running, reconf>>
      BY <1>0, <1>1, <2>5, Constants DEF CtrlFinish, Goto, Unlock, Types, Locks
    <3> QED BY <1>0, <1>6, <3>1, Constants DEF Locks, Lives, Scans, Queues, Pushes
  <2>6. CASE CtrlResize
    <3>1. /\ pc[Ctrl] = "resize" /\ l = "idle" /\ then' = "idle"
          /\ UNCHANGED <<running, reconf, writer>>
      BY <1>0, <1>1, <2>6, Constants DEF CtrlResize, Goto, lockVars, Types, Locks
    <3> QED BY <1>0, <1>6, <3>1, Constants DEF Locks, Lives, Scans, Queues, Pushes
  <2> QED BY <2>1, <2>2, <2>3, <2>4, <2>5, <2>6
<1> QED BY <1>1, <1>2, <1>3, <1>4, <1>5, <1>8, CtrlKeeps

LEMMA PlayPauseKeeps ==
    ASSUME Inv, NEW e \in Elements, CtrlPlay(e) \/ CtrlPause(e)
    PROVE  Inv'
<1>0. Types /\ Locks /\ Lives /\ pc[Ctrl] = "idle"
  BY DEF Inv, CtrlPlay, CtrlPause
<1>1. /\ UNCHANGED tokenVars /\ UNCHANGED <<arg, readers>>
      /\ UNCHANGED <<owned, members, removed, subject, cache, todo, stale, dirty, reconf, running,
                     cacheLock, writer>>
  BY DEF CtrlPlay, CtrlPause, tokenVars, pipeVars, lockVars, ctrlVars
<1>2. PICK l \in {"idle", "wake"} :
        /\ pc' = [pc EXCEPT ![Ctrl] = l] /\ (l = "wake" => then' = "idle" /\ ~reconf)
        /\ then' \in {then, "idle"}
  <2>1. CASE CtrlPlay(e)
    BY <2>1 DEF CtrlPlay, Goto
  <2>2. CASE CtrlPause(e)
    <3>1. pc' = [pc EXCEPT ![Ctrl] = "idle"]
      BY <1>0, <2>2 DEF CtrlPause, Types
    <3> QED BY <2>2, <3>1 DEF CtrlPause, ctrlVars
  <2> QED BY <2>1, <2>2
<1>3. e \in members /\ state[e] # "NULL" /\ \E x \in {"IDLE", "PLAYING"} : state' = [state EXCEPT ![e] = x]
  BY DEF CtrlPlay, CtrlPause
<1>4. /\ state' \in [Elements -> {"NULL", "IDLE", "PLAYING"}]
      /\ \A f \in Elements : state'[f] = "NULL" <=> state[f] = "NULL"
  BY <1>0, <1>3 DEF Types
<1>5. l \in CtrlPcs /\ l \notin Scans \cup Queues /\ pc[Ctrl] \notin Scans \cup Queues
  BY <1>0, <1>2 DEF CtrlPcs, Scans, Queues, Pushes
<1>6. /\ pc' \in [Threads -> WorkerPcs \cup CtrlPcs] /\ pc'[Ctrl] = l
      /\ pc'[Ctrl] \in CtrlPcs /\ (\A w \in Workers : pc'[w] \in WorkerPcs)
      /\ \A w \in Workers : pc'[w] = pc[w]
      /\ Reading' = Reading /\ readers' = Cardinality(Reading')
      /\ Args' /\ (UNCHANGED removed => OneToken' /\ Refs')
      /\ \A f : NoToken(f)' <=> NoToken(f)
      /\ UNCHANGED <<ready, isQueued, taskRefs, task, arg, readers>>
  BY <1>1, <1>2, <1>5, CtrlMoves
<1>7. Types'
  BY <1>0, <1>1, <1>2, <1>4, <1>6 DEF Types
<1>8. Locks'
  BY <1>0, <1>1, <1>2, <1>6 DEF Locks
<1>9. Lives'
  BY <1>0, <1>1, <1>2, <1>6 DEF Lives, Scans, Queues, Pushes
<1>10. Graph'
  BY <1>0, <1>1, <1>2, <1>4, <1>6 DEF Inv, Graph
<1>11. LateTokens'
  <2>1. SameChange
    BY <1>0, <1>2, <1>6 DEF SameChange, Change
  <2>2. \A t \in Threads : arg'[t] \notin removed
    BY <1>1 DEF Inv, LateTokens
  <2> QED BY <1>1, <1>6, <2>1, <2>2, LateFrame
<1> QED BY <1>1, <1>6, <1>7, <1>8, <1>9, <1>10, <1>11 DEF Inv

LEMMA AddKeeps ==
    ASSUME Inv, ~BareAdds, NEW e \in Elements, CtrlAdd(e)
    PROVE  Inv'
<1>0. Types /\ Locks /\ Lives /\ pc[Ctrl] = "idle" /\ e \notin members /\ e \notin removed
      /\ (reconf \/ ~running)
  BY DEF Inv, CtrlAdd
<1>1. /\ UNCHANGED tokenVars
      /\ UNCHANGED <<arg, removed, cache, todo, reconf, running, cacheLock, state, then>>
      /\ owned' = [owned EXCEPT ![e] = TRUE] /\ members' = members \cup {e} /\ subject' = e
      /\ stale' = TRUE /\ dirty' = TRUE /\ pc' = [pc EXCEPT ![Ctrl] = "join_state"]
  BY DEF CtrlAdd, tokenVars, Goto
<1>2. readers' = readers /\ writer' = Ctrl /\ Reading = {}
  <2>1. CASE reconf
    BY <1>0, <2>1 DEF CtrlAdd, rwVars, Locks
  <2>2. CASE ~reconf
    <3>1. readers' = readers /\ writer' = Ctrl /\ readers = 0
      BY <2>2 DEF CtrlAdd, WrLock
    <3> QED BY <1>0, <3>1, ReadingFinite, FS_EmptySet DEF Locks
  <2> QED BY <2>1, <2>2
<1>3. "join_state" \in CtrlPcs /\ "join_state" \notin Scans \cup Queues /\ pc[Ctrl] \notin Scans \cup Queues
  BY <1>0 DEF CtrlPcs, Scans, Queues, Pushes
<1>4. /\ pc' \in [Threads -> WorkerPcs \cup CtrlPcs] /\ pc'[Ctrl] = "join_state"
      /\ pc'[Ctrl] \in CtrlPcs /\ (\A w \in Workers : pc'[w] \in WorkerPcs)
      /\ \A w \in Workers : pc'[w] = pc[w]
      /\ Reading' = Reading /\ readers' = Cardinality(Reading')
      /\ Args' /\ (UNCHANGED removed => OneToken' /\ Refs')
      /\ \A f : NoToken(f)' <=> NoToken(f)
      /\ UNCHANGED <<ready, isQueued, taskRefs, task, arg, readers>>
  BY <1>1, <1>2, <1>3, CtrlMoves
<1>5. Types'
  BY <1>0, <1>1, <1>2, <1>4 DEF Types
<1>6. Locks'
  BY <1>0, <1>1, <1>2, <1>4 DEF Locks
<1>7. Lives'
  BY <1>0, <1>1, <1>4 DEF Lives, Scans, Queues, Pushes
<1>8. Graph'
  <2>1. \A f \in Elements : owned'[f] <=> f \in members'
    BY <1>0, <1>1 DEF Inv, Graph, Types
  <2>2. \A f \in Elements : state'[f] = "NULL" <=> f \notin members' \/ (pc'[Ctrl] = "join_state" /\ f = subject')
    BY <1>0, <1>1, <1>4 DEF Inv, Graph
  <2>3. \A t \in Threads : todo'[t] \subseteq members' /\ (t \notin Reading' => todo'[t] = {})
    BY <1>1, <1>4 DEF Inv, Graph
  <2> QED BY <1>0, <1>1, <1>4, <2>1, <2>2, <2>3 DEF Inv, Graph
<1>9. LateTokens'
  <2>1. NoToken(e)
    BY <1>0 DEF Inv, LateTokens
  <2> QED BY <1>0, <1>1, <1>4, <2>1 DEF Inv, LateTokens
<1> QED BY <1>1, <1>4, <1>5, <1>6, <1>7, <1>8, <1>9 DEF Inv

LEMMA AddedKeeps ==
    ASSUME Inv, CtrlAdded \/ CtrlAddFails
    PROVE  Inv'
<1>0. Types /\ Locks /\ Lives /\ pc[Ctrl] = "join_state" /\ writer = Ctrl /\ Reading = {}
      /\ (reconf \/ ~running)
  BY DEF Inv, CtrlAdded, CtrlAddFails, Locks, Lives
<1>1. PICK e \in Elements : e = subject /\ e \in members /\ e \notin removed /\ state[e] = "NULL"
                            /\ NoToken(e)
  BY <1>0 DEF Inv, Graph, LateTokens, Types
<1>2. /\ UNCHANGED tokenVars /\ UNCHANGED readers
      /\ UNCHANGED <<arg, removed, cache, todo, reconf, running, cacheLock>>
      /\ subject' = None
  BY <1>0 DEF CtrlAdded, CtrlAddFails, tokenVars, pipeVars, lockVars, rwVars, Unlock
<1>3. PICK l \in {"idle", "wake"} : pc' = [pc EXCEPT ![Ctrl] = l]
         /\ (l = "wake" => CtrlAdded /\ ~reconf) /\ (l = "idle" => reconf \/ CtrlAddFails)
  BY DEF CtrlAdded, CtrlAddFails, Goto
<1>4. l \in CtrlPcs /\ l \notin Scans \cup Queues /\ pc[Ctrl] \notin Scans \cup Queues
  BY <1>0 DEF CtrlPcs, Scans, Queues, Pushes
<1>5. /\ pc' \in [Threads -> WorkerPcs \cup CtrlPcs] /\ pc'[Ctrl] = l
      /\ pc'[Ctrl] \in CtrlPcs /\ (\A w \in Workers : pc'[w] \in WorkerPcs)
      /\ \A w \in Workers : pc'[w] = pc[w]
      /\ Reading' = Reading /\ readers' = Cardinality(Reading')
      /\ Args' /\ (UNCHANGED removed => OneToken' /\ Refs')
      /\ \A f : NoToken(f)' <=> NoToken(f)
      /\ UNCHANGED <<ready, isQueued, taskRefs, task, arg, readers>>
  BY <1>2, <1>3, <1>4, CtrlMoves
<1>6. \A t \in Threads : todo'[t] = {}
  BY <1>0, <1>2 DEF Inv, Graph
<1>7. CASE CtrlAdded
  <2>1. /\ state' = [state EXCEPT ![e] = "PLAYING"] /\ UNCHANGED <<owned, members, stale, dirty, writer>>
        /\ then' = (IF reconf THEN "idle" ELSE "finish") /\ l = (IF reconf THEN "idle" ELSE "wake")
    <3>1. pc' = [pc EXCEPT ![Ctrl] = IF reconf THEN "idle" ELSE "wake"]
      BY <1>7 DEF CtrlAdded, Goto
    <3>2. pc'[Ctrl] = IF reconf THEN "idle" ELSE "wake"
      BY <1>0, <3>1, Constants DEF Types
    <3> QED BY <1>1, <1>5, <1>7, <3>2 DEF CtrlAdded, pipeVars, lockVars
  <2>2. Types'
    BY <1>0, <1>2, <1>5, <2>1 DEF Types
  <2>3. Locks'
    BY <1>0, <1>2, <1>5, <2>1 DEF Locks
  <2>4. Lives'
    BY <1>0, <1>2, <1>5, <2>1 DEF Lives, Scans, Queues, Pushes
  <2>5. Graph'
    <3>1. \A f \in Elements : state'[f] = "NULL" <=> state[f] = "NULL" /\ f # e
      BY <1>0, <1>1, <2>1 DEF Types
    <3>2. \A f \in Elements : state'[f] = "NULL" <=> f \notin members
      BY <1>0, <1>1, <3>1 DEF Inv, Graph
    <3> QED BY <1>2, <1>5, <1>6, <2>1, <3>2 DEF Inv, Graph
  <2>6. LateTokens'
    BY <1>2, <1>5, <2>1 DEF Inv, LateTokens
  <2> QED BY <1>2, <1>5, <2>2, <2>3, <2>4, <2>5, <2>6 DEF Inv
<1>8. CASE CtrlAddFails
  <2>1. /\ owned' = [owned EXCEPT ![e] = FALSE] /\ members' = members \ {e}
        /\ stale' = TRUE /\ dirty' = TRUE /\ UNCHANGED <<state, then>>
        /\ pc' = [pc EXCEPT ![Ctrl] = "idle"]
        /\ writer' = IF reconf THEN Ctrl ELSE None
    BY <1>0, <1>1, <1>8 DEF CtrlAddFails, Goto, Unlock, rwVars
  <2>2. pc'[Ctrl] = "idle"
    BY <1>0, <2>1, Constants DEF Types
  <2>3. Types'
    BY <1>0, <1>2, <1>5, <2>1 DEF Types
  <2>4. Locks'
    BY <1>0, <1>2, <1>5, <2>1, <2>2, Constants DEF Locks
  <2>5. Lives'
    BY <1>0, <1>2, <1>5, <2>1, <2>2 DEF Lives, Scans, Queues, Pushes
  <2>6. Graph'
    <3>1. \A f \in Elements : owned'[f] <=> f \in members'
      BY <1>0, <1>1, <2>1 DEF Inv, Graph, Types
    <3>2. \A f \in Elements : state'[f] = "NULL" <=> f \notin members'
      BY <1>0, <1>1, <2>1 DEF Inv, Graph
    <3> QED BY <1>2, <1>6, <2>1, <2>2, <3>1, <3>2 DEF Inv, Graph
  <2>7. LateTokens'
    BY <1>1, <1>2, <1>5, <2>1, <2>2 DEF Inv, LateTokens
  <2> QED BY <1>2, <1>5, <2>3, <2>4, <2>5, <2>6, <2>7 DEF Inv
<1> QED BY <1>7, <1>8

LEMMA RemoveKeeps ==
    ASSUME Inv, NEW e \in Elements, CtrlRemove(e)
    PROVE  Inv'
<1>0. Types /\ Locks /\ Lives /\ pc[Ctrl] = "idle" /\ e \in members /\ e \notin removed
  BY DEF Inv, CtrlRemove, Graph
<1>1. /\ UNCHANGED tokenVars
      /\ UNCHANGED <<arg, owned, members, removed, cache, todo, reconf, running, cacheLock, stale,
                     dirty, then>>
      /\ state' = [state EXCEPT ![e] = "IDLE"] /\ subject' = e /\ pc' = [pc EXCEPT ![Ctrl] = "drain"]
  BY DEF CtrlRemove, tokenVars, Goto, pipeVars
<1>2. readers' = readers /\ writer' = None
  <2>1. CASE reconf
    BY <1>0, <2>1 DEF CtrlRemove, Unlock, Locks
  <2>2. CASE ~reconf
    BY <1>0, <2>2 DEF CtrlRemove, rwVars, Locks, Types
  <2> QED BY <2>1, <2>2
<1>3. "drain" \in CtrlPcs /\ "drain" \notin Scans \cup Queues /\ pc[Ctrl] \notin Scans \cup Queues
  BY <1>0 DEF CtrlPcs, Scans, Queues, Pushes
<1>4. /\ pc' \in [Threads -> WorkerPcs \cup CtrlPcs] /\ pc'[Ctrl] = "drain"
      /\ pc'[Ctrl] \in CtrlPcs /\ (\A w \in Workers : pc'[w] \in WorkerPcs)
      /\ \A w \in Workers : pc'[w] = pc[w]
      /\ Reading' = Reading /\ readers' = Cardinality(Reading')
      /\ Args' /\ (UNCHANGED removed => OneToken' /\ Refs')
      /\ \A f : NoToken(f)' <=> NoToken(f)
      /\ UNCHANGED <<ready, isQueued, taskRefs, task, arg, readers>>
  BY <1>1, <1>2, <1>3, CtrlMoves
<1>5. Types'
  BY <1>0, <1>1, <1>2, <1>4 DEF Types
<1>6. Locks'
  BY <1>0, <1>1, <1>2, <1>4, Constants DEF Locks
<1>7. Lives'
  BY <1>0, <1>1, <1>4 DEF Lives, Scans, Queues, Pushes
<1>8. Graph'
  <2>1. state'[e] = "IDLE" /\ \A f \in Elements : f # e => state'[f] = state[f]
    BY <1>0, <1>1 DEF Types
  <2>2. \A f \in Elements : state'[f] = "NULL" <=> f \notin members
    BY <1>0, <2>1 DEF Inv, Graph
  <2> QED BY <1>0, <1>1, <1>4, <2>1, <2>2 DEF Inv, Graph
<1>9. LateTokens'
  BY <1>0, <1>1, <1>4 DEF Inv, LateTokens
<1> QED BY <1>1, <1>4, <1>5, <1>6, <1>7, <1>8, <1>9 DEF Inv

(* Once the references are gone, so are the tokens: what a worker pops     *)
(* from here on it drops.                                                  *)
LEMMA DrainedKeeps ==
    ASSUME Inv, CtrlDrained \/ CtrlRelock
    PROVE  Inv'
<1>0. Types /\ Locks /\ Lives /\ pc[Ctrl] \in {"drain", "relock"} /\ subject \in members
      /\ subject \in Elements /\ subject \notin removed
  BY DEF Inv, CtrlDrained, CtrlRelock, Graph, Types
<1>1. /\ UNCHANGED tokenVars
      /\ UNCHANGED <<arg, owned, members, removed, cache, todo, reconf, running, cacheLock, stale,
                     dirty, then, state, subject>>
  BY DEF CtrlDrained, CtrlRelock, tokenVars, pipeVars, elemVars, lockVars, ctrlVars
<1>2. readers' = readers
  BY DEF CtrlDrained, CtrlRelock, lockVars, WrLock
<1>3. PICK l \in {"relock", "close"} : pc' = [pc EXCEPT ![Ctrl] = l]
        /\ (l = "close" => CtrlRelock) /\ (l = "relock" => CtrlDrained)
  BY DEF CtrlDrained, CtrlRelock, Goto
<1>4. l \in CtrlPcs /\ l \notin Scans \cup Queues /\ pc[Ctrl] \notin Scans \cup Queues
  BY <1>0 DEF CtrlPcs, Scans, Queues, Pushes
<1>5. /\ pc' \in [Threads -> WorkerPcs \cup CtrlPcs] /\ pc'[Ctrl] = l
      /\ pc'[Ctrl] \in CtrlPcs /\ (\A w \in Workers : pc'[w] \in WorkerPcs)
      /\ \A w \in Workers : pc'[w] = pc[w]
      /\ Reading' = Reading /\ readers' = Cardinality(Reading')
      /\ Args' /\ (UNCHANGED removed => OneToken' /\ Refs')
      /\ \A f : NoToken(f)' <=> NoToken(f)
      /\ UNCHANGED <<ready, isQueued, taskRefs, task, arg, readers>>
  BY <1>1, <1>2, <1>3, <1>4, CtrlMoves
<1>6. /\ writer' = IF l = "close" THEN Ctrl ELSE None
      /\ l = "close" => Reading = {}
  <2>1. CASE l = "close"
    <3>1. writer' = Ctrl /\ readers = 0
      BY <1>3, <2>1 DEF CtrlRelock, WrLock
    <3> QED BY <1>0, <2>1, <3>1, ReadingFinite, FS_EmptySet DEF Locks
  <2>2. CASE l = "relock"
    <3>1. writer' = writer
      BY <1>3, <2>2 DEF CtrlDrained, lockVars
    <3> QED BY <1>0, <2>2, <3>1 DEF Locks, Types
  <2> QED BY <2>1, <2>2
<1>7. Types'
  BY <1>0, <1>1, <1>5, <1>6 DEF Types
<1>8. Locks'
  BY <1>0, <1>1, <1>5, <1>6, Constants DEF Locks
<1>9. Lives'
  BY <1>0, <1>1, <1>5 DEF Lives, Scans, Queues, Pushes
<1>10. Graph'
  BY <1>0, <1>1, <1>5 DEF Inv, Graph
<1>11. \A w \in Workers : task[w] = subject => pc[w] \in {"got", "check", "reset", "release"}
  <2>1. CASE l = "close"
    <3>1. pc[Ctrl] = "relock"
      BY <1>3, <2>1 DEF CtrlRelock
    <3> QED BY <1>0, <3>1 DEF Inv, LateTokens
  <2>2. CASE l = "relock"
    <3>1. taskRefs[subject] = 0
      BY <1>3, <2>2 DEF CtrlDrained
    <3>2. Count(subject) = 0
      BY <1>0, <3>1 DEF Inv, Refs
    <3>3. Held(subject) \in Nat
      BY HeldType
    <3>4. Count(subject) = Held(subject) \/ Count(subject) = 1 + Held(subject)
      BY <3>3 DEF Count
    <3>5. Held(subject) = 0
      BY <3>2, <3>3, <3>4
    <3> QED BY <3>5, HeldType
  <2> QED BY <2>1, <2>2
<1>12. LateTokens'
  BY <1>0, <1>1, <1>5, <1>11 DEF Inv, LateTokens
<1> QED BY <1>1, <1>5, <1>7, <1>8, <1>9, <1>10, <1>12 DEF Inv

LEMMA CloseKeeps ==
    ASSUME Inv, CtrlClose
    PROVE  Inv'
<1>0. Types /\ Locks /\ Lives /\ pc[Ctrl] = "close" /\ writer = Ctrl /\ Reading = {}
  BY DEF Inv, CtrlClose, Locks
<1>1. PICK e \in Elements : e = subject /\ e \in members /\ e \notin removed
  BY <1>0 DEF Inv, Graph, Types
<1>2. /\ UNCHANGED tokenVars
      /\ UNCHANGED <<arg, cache, todo, reconf, running, cacheLock, then, readers, writer>>
      /\ state' = [state EXCEPT ![e] = "NULL"] /\ members' = members \ {e}
      /\ owned' = [owned EXCEPT ![e] = FALSE] /\ stale' = TRUE /\ dirty' = TRUE
      /\ removed' = removed \cup {e} /\ subject' = None
  BY <1>1 DEF CtrlClose, tokenVars, lockVars
<1>3. PICK l \in {"idle", "finish"} : pc' = [pc EXCEPT ![Ctrl] = l] /\ (l = "idle" <=> reconf)
  BY DEF CtrlClose, Goto
<1>4. l \in CtrlPcs /\ l \notin Scans \cup Queues /\ pc[Ctrl] \notin Scans \cup Queues
  BY <1>0 DEF CtrlPcs, Scans, Queues, Pushes
<1>5. /\ pc' \in [Threads -> WorkerPcs \cup CtrlPcs] /\ pc'[Ctrl] = l
      /\ pc'[Ctrl] \in CtrlPcs /\ (\A w \in Workers : pc'[w] \in WorkerPcs)
      /\ \A w \in Workers : pc'[w] = pc[w]
      /\ Reading' = Reading /\ readers' = Cardinality(Reading') /\ Args'
      /\ \A f : NoToken(f)' <=> NoToken(f)
      /\ \A f : Counted(f)' = Counted(f)
      /\ UNCHANGED <<ready, isQueued, taskRefs, task, arg, readers>>
  BY <1>2, <1>3, <1>4, CtrlMoves
<1>6. Types'
  BY <1>0, <1>2, <1>5 DEF Types
<1>7. Locks'
  BY <1>0, <1>2, <1>3, <1>5 DEF Locks
<1>8. Lives'
  BY <1>0, <1>2, <1>5 DEF Lives, Scans, Queues, Pushes
<1>9. Graph'
  <2>1. \A f \in Elements : owned'[f] <=> f \in members'
    BY <1>0, <1>1, <1>2 DEF Inv, Graph, Types
  <2>2. \A f \in Elements : state'[f] = "NULL" <=> f \notin members'
    BY <1>0, <1>1, <1>2 DEF Inv, Graph, Types
  <2>3. \A t \in Threads : todo'[t] = {}
    BY <1>0, <1>2 DEF Inv, Graph
  <2> QED BY <1>2, <1>5, <2>1, <2>2, <2>3 DEF Inv, Graph
<1>10. \A w \in Workers : task[w] = e => pc[w] \in {"got", "check", "reset", "release"}
  BY <1>0, <1>1 DEF Inv, LateTokens
<1>11. \A t \in Threads : arg[t] # e
  <2> SUFFICES ASSUME NEW t \in Threads, arg[t] = e PROVE FALSE
    OBVIOUS
  <2>1. pc[t] \in Queues
    BY <1>1, Constants DEF Inv, Args
  <2>2. t \in Workers /\ task[t] # None
    BY <1>0, <2>1 DEF Reading, InScan
  <2>3. task[t] = e
    BY <2>1, <2>2 DEF Inv, Args
  <2> QED BY <1>10, <2>1, <2>2, <2>3 DEF Queues, Pushes
<1>12. LateTokens'
  BY <1>1, <1>2, <1>5, <1>10, <1>11 DEF Inv, LateTokens
<1>13. OneToken'
  <2>1. \A f : Waiting(f)' <=> Waiting(f)
    BY <1>5 DEF Waiting
  <2>2. \A f : \A t \in Threads : Pushing(t, f)' <=> Pushing(t, f)
    BY <1>3, <1>4, <1>5, Constants DEF Pushing, Pushes, Queues
  <2>3. \A f : \A w \in Workers : Working(w, f)' <=> Working(w, f)
    BY <1>5 DEF Working
  <2> QED BY <1>2, <1>5, <2>1, <2>2, <2>3 DEF Inv, OneToken
<1>14. Refs'
  <2>1. \A f : Count(f)' = Count(f)
    BY <1>5 DEF Count, Held, Waiting
  <2>2. taskRefs[e] <= Cardinality(Workers) + 1
    BY <1>1, CountType DEF Inv, Refs
  <2> QED BY <1>2, <1>5, <2>1, <2>2 DEF Inv, Refs
<1> QED BY <1>5, <1>6, <1>7, <1>8, <1>9, <1>12, <1>13, <1>14 DEF Inv

LEMMA RunKeeps ==
    ASSUME Inv, CtrlRun
    PROVE  Inv'
<1>0. Types /\ Locks /\ Lives /\ pc[Ctrl] = "idle" /\ ~running /\ ~reconf /\ readers = 0
      /\ Ctrl \in Threads
  BY Constants DEF Inv, CtrlRun
<1>1. /\ UNCHANGED tokenVars
      /\ UNCHANGED <<arg, owned, members, removed, cache, reconf, cacheLock, stale, state, subject, writer>>
      /\ running' = TRUE /\ dirty' = FALSE /\ readers' = readers + 1 /\ writer = None
      /\ todo' = [todo EXCEPT ![Ctrl] = members] /\ then' = "spawn" /\ pc' = [pc EXCEPT ![Ctrl] = "scan"]
  BY <1>0 DEF CtrlRun, tokenVars, elemVars, Goto
<1>2. /\ "scan" \in CtrlPcs /\ "scan" \in Scans /\ "scan" \notin Queues
      /\ pc[Ctrl] \notin Scans \cup Queues
  BY <1>0 DEF CtrlPcs, Scans, Queues, Pushes
<1>3. /\ pc' \in [Threads -> WorkerPcs \cup CtrlPcs] /\ pc'[Ctrl] = "scan"
      /\ \A u \in Threads \ {Ctrl} : pc'[u] = pc[u] /\ (InScan(u)' <=> InScan(u))
      /\ InScan(Ctrl)' /\ ~InScan(Ctrl)
      /\ pc'[Ctrl] \in CtrlPcs /\ (\A v \in Workers : pc'[v] \in WorkerPcs)
      /\ Args' /\ OneToken' /\ Refs'
      /\ \A e : NoToken(e)' <=> NoToken(e)
  BY <1>0, <1>1, <1>2, QuietMove, Constants
<1>4. Reading' = Reading \cup {Ctrl} /\ readers' = Cardinality(Reading') /\ readers' \in Nat
  <2>1. \A u \in Threads \ {Ctrl} : InScan(u)' = InScan(u)
    BY <1>3 DEF InScan
  <2> QED BY <1>0, <1>1, <1>3, <2>1, OneReaderMore
<1>5. todo' \in [Threads -> SUBSET Elements] /\ todo'[Ctrl] = members
      /\ \A u \in Threads \ {Ctrl} : todo'[u] = todo[u]
  BY <1>0, <1>1 DEF Types
<1>6. UNCHANGED <<ready, isQueued, taskRefs, task>> /\ \A w \in Workers : pc'[w] = pc[w]
  BY <1>1, <1>3, Constants DEF tokenVars
<1>7. Types'
  BY <1>0, <1>1, <1>3, <1>4, <1>5, <1>6 DEF Types
<1>8. Locks'
  BY <1>0, <1>1, <1>3, <1>4, Constants DEF Locks
<1>9. Lives'
  BY <1>0, <1>1, <1>3, <1>6 DEF Lives
<1>10. Graph'
  <2>1. \A u \in Threads : todo'[u] \subseteq members /\ (u \notin Reading' => todo'[u] = {})
    BY <1>4, <1>5 DEF Inv, Graph
  <2> QED BY <1>0, <1>1, <1>3, <2>1 DEF Inv, Graph
<1>11. LateTokens'
  BY <1>0, <1>1, <1>3, <1>6 DEF Inv, LateTokens
<1> QED BY <1>3, <1>7, <1>8, <1>9, <1>10, <1>11 DEF Inv

LEMMA SpawnKeeps ==
    ASSUME Inv, CtrlSpawn
    PROVE  Inv'
<1>0. Types /\ Locks /\ Lives /\ pc[Ctrl] = "spawn" /\ then = "spawn" /\ running /\ ~reconf
  BY DEF Inv, CtrlSpawn, Lives, Locks
<1>1. /\ UNCHANGED tokenVars /\ UNCHANGED graphVars
      /\ UNCHANGED <<running, state, stale, dirty, reconf, readers, writer, cacheLock, arg>>
      /\ UNCHANGED <<owned, members, removed, subject, cache, todo, ready, isQueued, taskRefs, task>>
      /\ then' = "idle"
  BY DEF CtrlSpawn, tokenVars, graphVars, elemVars, pipeVars, lockVars
<1>2. pc'[Ctrl] = "idle" /\ \A w \in Workers : pc'[w] = "loop" /\ pc[w] = "off"
  BY <1>0, Constants DEF CtrlSpawn, Lives
<1>3. /\ pc' \in [Threads -> WorkerPcs \cup CtrlPcs]
      /\ pc'[Ctrl] \in CtrlPcs /\ (\A w \in Workers : pc'[w] \in WorkerPcs)
  BY <1>2, Constants DEF CtrlSpawn, WorkerPcs, CtrlPcs
<1>4. \A t \in Threads : pc[t] \notin Scans \cup Queues \cup Claims \cup {"release"}
                         /\ pc'[t] \notin Scans \cup Queues \cup Claims \cup {"release"}
  BY <1>0, <1>2, Constants DEF Scans, Queues, Pushes, Claims
<1>5. \A t \in Threads : InScan(t)' = InScan(t)
  BY <1>4 DEF InScan
<1>6. Reading' = Reading /\ readers' = Cardinality(Reading')
  BY <1>0, <1>1, <1>5, SameReaders
<1>7. Types'
  BY <1>0, <1>1, <1>3 DEF Types
<1>8. Locks'
  BY <1>0, <1>1, <1>2, <1>6 DEF Locks
<1>9. Lives'
  BY <1>0, <1>1, <1>2 DEF Lives
<1>10. Args'
  BY <1>1, <1>4, Constants DEF Inv, Args
<1>11. Graph'
  BY <1>0, <1>1, <1>2, <1>6 DEF Inv, Graph
<1>12. OneToken' /\ Refs'
  <2>1. \A t \in Threads : \A e \in Elements : Pushing(t, e)' <=> Pushing(t, e)
    BY <1>4 DEF Pushing, Pushes, Queues
  <2>2. \A w \in Workers : pc'[w] \in Claims <=> pc[w] \in Claims
    BY <1>4, Constants
  <2>3. \A e : Counted(e) = {} /\ Counted(e)' = {}
    BY <1>4 DEF Counted, Queues, Pushes
  <2> QED BY <1>1, <2>1, <2>2, <2>3, TokenFrame
<1>13. LateTokens'
  <2>1. \A w \in Workers : task[w] = None
    BY <1>4, Constants DEF Inv, Args
  <2>2. \A e : NoToken(e)' <=> NoToken(e)
    BY <1>1 DEF NoToken, Waiting
  <2> QED BY <1>0, <1>1, <1>2, <2>1, <2>2, Constants DEF Inv, LateTokens
<1> QED BY <1>7, <1>8, <1>9, <1>10, <1>11, <1>12, <1>13 DEF Inv

(* The workers have left nothing but tokens in the queue. *)
LEMMA JoinKeeps ==
    ASSUME Inv, CtrlJoin
    PROVE  Inv'
<1>0. Types /\ Locks /\ Lives /\ pc[Ctrl] = "join" /\ ~running /\ OneToken /\ LateTokens
  BY DEF Inv, CtrlJoin, Lives
<1> DEFINE drained == {e \in ToSet(ready) : owned[e]}
<1>1. /\ UNCHANGED <<running, state, owned, members, removed, subject, cache, todo, stale, dirty,
                     reconf, readers, writer, cacheLock, arg, task, then>>
      /\ ready' = <<>>
      /\ isQueued' = [e \in Elements |-> isQueued[e] /\ e \notin drained]
      /\ taskRefs' = [e \in Elements |-> taskRefs[e] - (IF e \in drained THEN 1 ELSE 0)]
  BY DEF CtrlJoin, pipeVars, lockVars, ctrlVars
<1>2. pc'[Ctrl] = "idle" /\ \A w \in Workers : pc'[w] = "off" /\ pc[w] = "exit"
  BY Constants DEF CtrlJoin
<1>3. /\ pc' \in [Threads -> WorkerPcs \cup CtrlPcs]
      /\ pc'[Ctrl] \in CtrlPcs /\ (\A w \in Workers : pc'[w] \in WorkerPcs)
  BY <1>2, Constants DEF CtrlJoin, WorkerPcs, CtrlPcs
<1>4. \A t \in Threads : pc[t] \notin Scans \cup Queues \cup Claims \cup {"release"}
                         /\ pc'[t] \notin Scans \cup Queues \cup Claims \cup {"release"}
  BY <1>0, <1>2, Constants DEF Scans, Queues, Pushes, Claims
<1>5. \A t \in Threads : InScan(t)' = InScan(t)
  BY <1>4 DEF InScan
<1>6. Reading' = Reading /\ readers' = Cardinality(Reading')
  BY <1>0, <1>1, <1>5, SameReaders
<1>7. (\A w \in Workers : task[w] = None) /\ (\A t \in Threads : arg[t] = None)
  BY <1>4, Constants DEF Inv, Args
<1>8. \A e \in Elements : Held(e) = 0 /\ Held(e)' = 0
  <2> TAKE e \in Elements
  <2>1. {w \in Workers : task[w] = e} = {} /\ {w \in Workers : task'[w] = e} = {}
    BY <1>1, <1>7, Constants
  <2> QED BY <2>1, FS_EmptySet DEF Held
<1>9. \A e \in Elements : ~Waiting(e)' /\ Counted(e) = {} /\ Counted(e)' = {}
  BY <1>1, <1>4 DEF Waiting, Counted, Queues, Pushes
<1>10. \A e \in Elements : e \in drained <=> Waiting(e) /\ e \notin removed
  <2> TAKE e \in Elements
  <2>1. e \in ToSet(ready) <=> Waiting(e)
    BY <1>0 DEF ToSet, Waiting, Types
  <2>2. Waiting(e) => e \in members \cup removed
    BY <1>0 DEF LateTokens, NoToken
  <2>3. owned[e] <=> e \in members
    BY DEF Inv, Graph
  <2>4. removed \cap members = {}
    BY DEF Inv, Graph
  <2> QED BY <2>1, <2>2, <2>3, <2>4
<1> HIDE DEF drained
<1>11. \A e \in Elements \ removed : ~isQueued'[e]
  <2> SUFFICES ASSUME NEW e \in Elements \ removed, isQueued[e] PROVE e \in drained
    BY <1>1
  <2>1. \A t \in Threads : ~Pushing(t, e)
    BY <1>4 DEF Pushing, Pushes, Queues
  <2>2. \A w \in Workers : ~Working(w, e)
    BY <1>4, Constants DEF Working
  <2>3. Waiting(e)
    BY <1>0, <2>1, <2>2 DEF OneToken
  <2> QED BY <1>10, <2>3
<1>12. \A e \in Elements \ removed : taskRefs'[e] = 0
  <2> TAKE e \in Elements \ removed
  <2>1. taskRefs[e] = (IF Waiting(e) THEN 1 ELSE 0) + Held(e) /\ Held(e) = 0
    BY <1>8, <1>9 DEF Inv, Refs, Count
  <2>2. taskRefs'[e] = taskRefs[e] - (IF e \in drained THEN 1 ELSE 0)
    BY <1>1
  <2> QED BY <1>10, <2>1, <2>2
<1>13. \A e \in removed : taskRefs'[e] = taskRefs[e] /\ taskRefs[e] \in Nat
  <2> TAKE e \in removed
  <2>1. e \in Elements /\ e \notin drained /\ taskRefs[e] \in Nat
    BY <1>0, <1>10 DEF Types
  <2> QED BY <1>1, <2>1
<1>14. taskRefs' \in [Elements -> Nat] /\ isQueued' \in [Elements -> BOOLEAN]
  <2>1. \A e \in Elements : taskRefs'[e] \in Nat
    BY <1>12, <1>13
  <2>2. \A e \in Elements : (isQueued[e] /\ e \notin drained) \in BOOLEAN
    OBVIOUS
  <2> QED BY <1>1, <2>1, <2>2
<1>15. Types'
  <2>1. ready' \in Seq(Elements) /\ Len(ready') <= QueueCap
    BY <1>1, Constants
  <2> QED BY <1>0, <1>1, <1>3, <1>14, <2>1 DEF Types
<1>16. Locks'
  BY <1>0, <1>1, <1>2, <1>6 DEF Locks
<1>17. Lives'
  BY <1>0, <1>1, <1>2 DEF Lives, Scans, Queues, Pushes
<1>18. Args'
  BY <1>1, <1>4, <1>7, Constants DEF Args
<1>19. Graph'
  BY <1>0, <1>1, <1>2, <1>6 DEF Inv, Graph
<1>20. OneToken'
  <2>1. \A t \in Threads : \A e \in Elements : ~Pushing(t, e)'
    BY <1>4 DEF Pushing, Pushes, Queues
  <2>2. \A w \in Workers : \A e \in Elements : ~Working(w, e)'
    BY <1>4, Constants DEF Working
  <2>3. DOMAIN ready' = {}
    BY <1>1
  <2> QED BY <1>1, <1>9, <1>11, <2>1, <2>2, <2>3 DEF OneToken
<1>21. LateTokens'
  <2>1. \A e \in Elements : NoToken(e)'
    BY <1>1, <1>7, <1>9, Constants DEF NoToken
  <2> QED BY <1>0, <1>1, <1>7, <2>1, Constants DEF LateTokens
<1>22. Refs'
  <2>1. \A e \in Elements : Count(e)' = 0
    BY <1>8, <1>9 DEF Count
  <2> QED BY <1>0, <1>1, <1>12, <1>13, <2>1 DEF Inv, Refs
<1> QED BY <1>15, <1>16, <1>17, <1>18, <1>19, <1>20, <1>21, <1>22 DEF Inv

-----------------------------------------------------------------------------
(* The invariant and what it gives.                                         *)

LEMMA Starts == Init => Inv
<1> SUFFICES ASSUME Init PROVE Inv
  OBVIOUS
<1> USE DEF Init
<1>1. Types
  <2>1. ready \in Seq(Elements) /\ Len(ready) <= QueueCap
    BY Constants
  <2>2. pc \in [Threads -> WorkerPcs \cup CtrlPcs] /\ pc[Ctrl] = "idle" /\ \A w \in Workers : pc[w] = "off"
    BY Constants DEF WorkerPcs, CtrlPcs
  <2>3. pc[Ctrl] \in CtrlPcs /\ \A w \in Workers : pc[w] \in WorkerPcs
    BY <2>2 DEF WorkerPcs, CtrlPcs
  <2>4. owned \in [Elements -> BOOLEAN]
    <3>1. \A e \in Elements : (e \in Initial) \in BOOLEAN
      OBVIOUS
    <3> QED BY <3>1, Zenon
  <2> QED BY <2>1, <2>2, <2>3, <2>4, SchedulerAssumption DEF Types
<1>2. pc[Ctrl] = "idle" /\ \A w \in Workers : pc[w] = "off"
  BY Constants
<1>3. \A t \in Threads : pc[t] \notin Scans \cup Queues \cup Claims \cup {"release"}
  BY <1>2, Constants DEF Scans, Queues, Pushes, Claims
<1>4. Reading = {} /\ Cardinality({}) = 0
  BY <1>3, FS_EmptySet DEF Reading, InScan
<1>5. Locks
  BY <1>2, <1>4, Constants DEF Locks
<1>6. Lives
  BY <1>2 DEF Lives, Scans, Queues, Pushes
<1>7. Args
  BY <1>3, Constants DEF Args
<1>8. Graph
  BY <1>2, <1>4 DEF Graph
<1>9. \A e : ~Waiting(e) /\ Counted(e) = {}
  BY <1>3 DEF Waiting, Counted, Queues, Pushes
<1>10. \A e \in Elements : NoToken(e)
  BY <1>9, Constants DEF NoToken
<1>11. OneToken
  <2>1. \A t \in Threads : \A e \in Elements : ~Pushing(t, e)
    BY <1>3 DEF Pushing, Pushes, Queues
  <2>2. \A w \in Workers : \A e \in Elements : ~Working(w, e)
    BY <1>3, Constants DEF Working
  <2> QED BY <1>9, <2>1, <2>2 DEF OneToken
<1>12. LateTokens
  BY <1>10, Constants DEF LateTokens
<1>13. Refs
  <2>1. ASSUME NEW e \in Elements PROVE Count(e) = 0
    <3>1. {w \in Workers : task[w] = e} = {}
      BY Constants
    <3>2. Held(e) = 0
      BY <1>4, <3>1 DEF Held
    <3> QED BY <1>9, <3>2 DEF Count
  <2> QED BY <2>1 DEF Refs
<1> QED BY <1>1, <1>5, <1>6, <1>7, <1>8, <1>11, <1>12, <1>13 DEF Inv

LEMMA WorkerStep ==
    ASSUME Inv, NEW w \in Workers, Worker(w)
    PROVE  Inv'
<1>1. w \in Threads
  BY Constants
<1>2. CASE QueueTasks(w) \/ Scan(w)
  BY <1>1, <1>2, QueueTaskKeeps, PushingKeeps, LeavesKeeps, ScanLockKeeps, ScanBeginKeeps, ScanNextKeeps,
     ScanEndKeeps DEF QueueTasks, Scan
<1>3. CASE WorkerLoop(w) \/ WorkerPop(w)
  BY <1>3, LoopKeeps, PopKeeps
<1>4. CASE WorkerCheck(w) \/ WorkerPlaying(w) \/ WorkerSize(w) \/ WorkerReturns(w)
  BY <1>4, CheckKeeps
<1>5. CASE WorkerEof(w) \/ WorkerReset(w) \/ WorkerRelease(w)
  BY <1>5, EofKeeps, ResetKeeps, ReleaseKeeps
<1> QED BY <1>2, <1>3, <1>4, <1>5 DEF Worker

LEMMA CtrlStep ==
    ASSUME Inv, ~BareAdds, CtrlCalls \/ CtrlGoesOn
    PROVE  Inv'
<1>1. CASE QueueTasks(Ctrl) \/ Scan(Ctrl)
  BY <1>1, QueueTaskKeeps, PushingKeeps, LeavesKeeps, ScanLockKeeps, ScanBeginKeeps, ScanNextKeeps,
     ScanEndKeeps, Constants DEF QueueTasks, Scan
<1>2. CASE CtrlSpawn \/ CtrlJoin \/ CtrlRun
  BY <1>2, SpawnKeeps, JoinKeeps, RunKeeps
<1>3. CASE CtrlWake \/ CtrlFinish \/ CtrlResize \/ CtrlStop \/ CtrlBegin \/ CtrlEnd
  BY <1>3, CallsKeep
<1>4. CASE CtrlAdded \/ CtrlAddFails \/ CtrlDrained \/ CtrlRelock \/ CtrlClose
  BY <1>4, AddedKeeps, DrainedKeeps, CloseKeeps
<1>5. CASE \E e \in Elements : CtrlPlay(e) \/ CtrlPause(e) \/ CtrlAdd(e) \/ CtrlRemove(e)
  BY <1>5, PlayPauseKeeps, AddKeeps, RemoveKeeps
<1> QED BY <1>1, <1>2, <1>3, <1>4, <1>5 DEF CtrlCalls, CtrlGoesOn

LEMMA StutterKeeps ==
    ASSUME Inv, UNCHANGED vars
    PROVE  Inv'
<1> USE DEF vars, elemVars, pipeVars, lockVars, ctrlVars
<1>1. Reading' = Reading
  BY DEF Reading, InScan
<1>2. \A e : (Waiting(e)' <=> Waiting(e)) /\ (NoToken(e)' <=> NoToken(e)) /\ Held(e)' = Held(e)
             /\ Counted(e)' = Counted(e)
  BY DEF Waiting, NoToken, Held, Counted
<1>3. \A e : Count(e)' = Count(e)
  BY <1>2 DEF Count
<1>4. Types' /\ Lives' /\ Args'
  BY DEF Inv, Types, Lives, Args
<1>5. Locks' /\ Graph'
  BY <1>1 DEF Inv, Locks, Graph
<1>6. OneToken'
  BY <1>2 DEF Inv, OneToken, Pushing, Working
<1>7. LateTokens' /\ Refs'
  BY <1>2, <1>3 DEF Inv, LateTokens, Refs
<1> QED BY <1>4, <1>5, <1>6, <1>7 DEF Inv

(* What an application that adds elements to a running pipeline only       *)
(* inside reconfigurations can rely on: the invariant above.               *)
THEOREM SchedulerInvariant ==
    ASSUME ~BareAdds
    PROVE  Spec => []Inv
<1>1. Init => Inv
  BY Starts
<1>2. Inv /\ [Next]_vars => Inv'
  <2> SUFFICES ASSUME Inv, [Next]_vars PROVE Inv'
    OBVIOUS
  <2>1. CASE CtrlCalls \/ CtrlGoesOn
    BY <2>1, CtrlStep
  <2>2. CASE \E w \in Workers : Worker(w)
    BY <2>2, WorkerStep
  <2>3. CASE UNCHANGED vars
    BY <2>3, StutterKeeps
  <2> QED BY <2>1, <2>2, <2>3 DEF Next
<1> QED BY <1>1, <1>2, PTL DEF Spec

(* zst_scheduler.c:188-262, zst_pipeline.c:802-836: process() of an        *)
(* element runs in one worker, and not once a removal has closed it.       *)
THEOREM ProcessAlwaysGuarded ==
    ASSUME ~BareAdds
    PROVE  Spec => []ProcessGuarded
<1>1. Inv => ProcessGuarded
  <2> SUFFICES ASSUME Inv PROVE ExclusiveProcess /\ NoProcessAfterClose
    BY DEF ProcessGuarded
  <2>1. ASSUME NEW w \in Workers, pc[w] = "process"
        PROVE  task[w] \in Elements /\ Working(w, task[w]) /\ state[task[w]] # "NULL"
    BY <2>1, TaskOfWorker DEF Working, Claims, Runs
  <2>2. ExclusiveProcess
    BY <2>1 DEF Inv, OneToken, ExclusiveProcess
  <2> QED BY <2>1, <2>2 DEF NoProcessAfterClose
<1> QED BY <1>1, SchedulerInvariant, PTL

(* zst_scheduler.c:54-88, 396-402: tasks, marks and references agree       *)
(* through full queues, removals and stops.                                *)
THEOREM TasksAlwaysExact ==
    ASSUME ~BareAdds
    PROVE  Spec => []TasksExact
<1>1. Inv => TasksExact
  <2> SUFFICES ASSUME Inv PROVE TypeOK /\ RefsExact /\ QueuedHasToken /\ StoppedClean
    BY DEF TasksExact, TasksAccounted
  <2>0. Types /\ Once(ready) /\ ready \in Seq(Elements)
    BY DEF Inv, OneToken, Once, Types
  <2>1. \A e \in Elements : InQueue(e) = IF Waiting(e) THEN 1 ELSE 0
    <3> TAKE e \in Elements
    <3>1. Cardinality({k \in DOMAIN ready : ready[k] = e})
             = IF \E k \in DOMAIN ready : ready[k] = e THEN 1 ELSE 0
      BY <2>0, QueueCount
    <3> QED BY <3>1 DEF InQueue, Waiting
  <2>a. ASSUME NEW e \in Elements, Counted(e) # {}
        PROVE  ~Waiting(e) /\ Cardinality(Counted(e)) = 1
    <3>1. PICK t \in Threads : t \in Counted(e) /\ Pushing(t, e)
      BY <2>a DEF Counted, Pushing, Pushes
    <3>2. Counted(e) = {t}
      BY <3>1 DEF Inv, OneToken, Counted, Pushing, Pushes
    <3> QED BY <3>1, <3>2, FS_Singleton DEF Inv, OneToken
  <2>b. Cardinality({}) = 0
    BY FS_EmptySet
  <2>2. RefsExact
    <3> SUFFICES ASSUME NEW e \in Elements \ removed
                 PROVE  taskRefs[e] = InQueue(e) + Held(e) + Cardinality(Counted(e))
      BY DEF RefsExact
    <3>1. taskRefs[e] = (IF Waiting(e) \/ Counted(e) # {} THEN 1 ELSE 0) + Held(e)
      BY DEF Inv, Refs, Count
    <3>2. InQueue(e) = (IF Waiting(e) THEN 1 ELSE 0) /\ Held(e) \in Nat
      BY <2>1, HeldType
    <3>3. CASE Counted(e) = {}
      BY <2>b, <3>1, <3>2, <3>3
    <3>4. CASE Counted(e) # {}
      BY <2>a, <3>1, <3>2, <3>4
    <3> QED BY <3>3, <3>4
  <2>3. QueuedHasToken
    BY <2>1 DEF Inv, OneToken, QueuedHasToken, Pushing, Pushes, Working, Claims
  <2>4. TypeOK
    <3>1. \A e \in Elements : taskRefs[e] \in 0 .. Cardinality(Workers) + 1
      <4> TAKE e \in Elements
      <4>1. taskRefs[e] \in Nat /\ Cardinality(Workers) \in Nat
        BY <2>0, Constants DEF Types
      <4>2. taskRefs[e] <= Cardinality(Workers) + 1
        BY CountType DEF Inv, Refs
      <4> QED BY <4>1, <4>2
    <3>2. taskRefs \in [Elements -> 0 .. Cardinality(Workers) + 1]
      BY <2>0, <3>1 DEF Types
    <3>3. readers \in 0 .. Cardinality(Threads)
      <4>1. Reading \subseteq Threads /\ readers = Cardinality(Reading)
        BY DEF Reading, Inv, Locks
      <4>2. Cardinality(Reading) <= Cardinality(Threads) /\ Cardinality(Reading) \in Nat
        BY <4>1, Constants, ReadingFinite, FS_Subset
      <4> QED BY <4>1, <4>2, Constants
    <3>4. \A k \in DOMAIN ready : ready[k] \in Elements
      BY <2>0
    <3> QED BY <2>0, <3>2, <3>3, <3>4 DEF Types, TypeOK
  <2>5. StoppedClean
    <3> SUFFICES ASSUME ~running, pc[Ctrl] = "idle"
                 PROVE  /\ ready = <<>>
                        /\ \A e \in Elements \ removed : taskRefs[e] = 0 /\ ~isQueued[e]
      BY DEF StoppedClean
    <3>1. ready = <<>> /\ \A w \in Workers : pc[w] = "off"
      BY DEF Inv, Lives
    <3>2. \A t \in Threads : pc[t] \notin Queues \cup Claims \cup {"release"}
      BY <3>1, Constants DEF Queues, Pushes, Claims
    <3>3. \A w \in Workers : task[w] = None
      BY <3>2, Constants DEF Inv, Args
    <3>4. ASSUME NEW e \in Elements \ removed PROVE taskRefs[e] = 0 /\ ~isQueued[e]
      <4>1. ~Waiting(e) /\ {w \in Workers : task[w] = e} = {} /\ Counted(e) = {}
        BY <3>1, <3>2, <3>3, Constants DEF Waiting, Counted, Queues, Pushes
      <4>2. Count(e) = 0
        BY <4>1, FS_EmptySet DEF Count, Held
      <4>3. (\A t \in Threads : ~Pushing(t, e)) /\ \A w \in Workers : ~Working(w, e)
        BY <3>2, Constants DEF Pushing, Working, Queues, Pushes
      <4>4. ~isQueued[e]
        BY <4>1, <4>3 DEF Inv, OneToken
      <4> QED BY <4>2, <4>4 DEF Inv, Refs
    <3> QED BY <3>1, <3>4
  <2> QED BY <2>2, <2>3, <2>4, <2>5
<1> QED BY <1>1, SchedulerInvariant, PTL

(* zst_pipeline.c:802-836, zst_scheduler.c:379-402: the application waits  *)
(* for workers without the lock their scans need, and a removal only for   *)
(* what workers that run will come to.                                     *)
LEMMA WaitsFollow == ASSUME Inv PROVE WaitsServed
<1>1. pc[Ctrl] \in {"drain", "join"} => writer # Ctrl
  BY DEF Inv, Locks
<1>2. ASSUME pc[Ctrl] = "drain", taskRefs[subject] > 0
      PROVE  /\ running
             /\ \/ subject \in ToSet(ready) \/ Counted(subject) # {}
                \/ \E w \in Workers : task[w] = subject
  <2>1. subject \in Elements \ removed
    BY <1>2 DEF Inv, Graph, Types
  <2>2. Count(subject) > 0
    BY <1>2, <2>1 DEF Inv, Refs
  <2>3. Waiting(subject) \/ Counted(subject) # {} \/ {w \in Workers : task[w] = subject} # {}
    BY <2>2, FS_EmptySet DEF Count, Held
  <2>4. Waiting(subject) => subject \in ToSet(ready)
    BY DEF Waiting, ToSet
  <2>5. running
    <3> SUFFICES ASSUME ~running PROVE FALSE
      OBVIOUS
    <3>1. ready = <<>> /\ \A w \in Workers : pc[w] = "off"
      BY <1>2 DEF Inv, Lives
    <3>2. \A t \in Threads : pc[t] \notin Queues \cup Claims \cup {"release"}
      BY <1>2, <3>1, Constants DEF Queues, Pushes, Claims
    <3>3. (\A w \in Workers : task[w] = None) /\ subject # None
      BY <2>1, <3>2, Constants DEF Inv, Args
    <3>4. ~Waiting(subject) /\ Counted(subject) = {}
      BY <3>1, <3>2 DEF Waiting, Counted, Queues, Pushes
    <3> QED BY <2>3, <3>3, <3>4
  <2> QED BY <2>3, <2>4, <2>5
<1> QED BY <1>1, <1>2 DEF WaitsServed

(* zst_scheduler.c:119-153, zst_pipeline.c:700-850: who walks over the     *)
(* elements sees those of the pipeline, who changes them is alone, and who *)
(* waits for the workers does not keep them from their walk.               *)
THEOREM GraphAlwaysGuarded ==
    ASSUME ~BareAdds
    PROVE  Spec => []GraphGuarded
<1>1. Inv => GraphGuarded
  <2> SUFFICES ASSUME Inv PROVE CacheFresh /\ ChangesUnderLock /\ WaitsServed
    BY DEF GraphGuarded
  <2>1. CacheFresh
    BY DEF Inv, Graph, CacheFresh
  <2>2. ChangesUnderLock
    BY FS_EmptySet DEF Inv, Locks, ChangesUnderLock
  <2> QED BY <2>1, <2>2, WaitsFollow
<1> QED BY <1>1, SchedulerInvariant, PTL
=============================================================================
