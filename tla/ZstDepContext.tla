--------------------------- MODULE ZstDepContext ---------------------------
(***************************************************************************)
(* The context that the Dante audio elements of one shared-memory object   *)
(* share (dante_dep_context.c): its registry entry, its list of endpoints, *)
(* the worker thread that is started with the first enabled endpoint and   *)
(* joined with the last, the mapping that follows the resets of the        *)
(* provider, and the copying of audio periods between the provider's rings *)
(* and the queue of each endpoint.                                         *)
(*                                                                         *)
(* A section under context->lock is one step, except the worker's loop     *)
(* over the periods, which keeps the lock while the provider writes on.    *)
(* The unit of a queue is one period (block-samples is 0).  The provider   *)
(* is another process; it is modelled from what this code and its test     *)
(* (tests/test_dante_dep.c) take it to do: it fills the slot of period     *)
(* period_count and then publishes it, and reset_serial is odd during a    *)
(* reset.                                                                  *)
(***************************************************************************)
EXTENDS Integers, FiniteSets

CONSTANTS
    Rx, Tx,           \* the endpoints of sources and of sinks
    Pipeline,         \* the pipeline of each endpoint: it makes one call at a time
    RingPeriods,      \* samples_per_channel / samples_per_period
    QueuePeriods,     \* the queue-periods setting
    MaxPeriod,        \* bound: periods the provider publishes between resets
    MaxResets,        \* bound: resets of the provider
    MaxWorkers        \* bound: worker threads created

ASSUME DepAssumption ==
    /\ Rx \cap Tx = {} /\ IsFiniteSet(Rx \cup Tx) /\ DOMAIN Pipeline = Rx \cup Tx
    /\ {RingPeriods, QueuePeriods, MaxWorkers} \subseteq Nat \ {0}
    /\ MaxPeriod \in Nat /\ MaxResets \in Nat

Endpoints == Rx \cup Tx
Workers   == 1 .. MaxWorkers

VARIABLES
    call,             \* where each endpoint's element is in its life and in a call
    refs,             \* context->references
    attached,         \* context->endpoints
    enabled,          \* the endpoints whose enabled flag is set
    running, stop,    \* worker_running, stop_worker
    worker,           \* context->worker, 0 before the first pthread_create
    thread,           \* per thread: where it is
    join,             \* per endpoint: the thread its call joins, 0 for none
    cxt,              \* connected, reset_serial, next_period and the loop's current
    todo,             \* the endpoints the worker has still to serve in this period
    queue,            \* per endpoint: slots, read_frame, used_frames
    copy,             \* what receive_period rolls back to
    ring,             \* per slot of the provider's ring: what is in it
    provider,         \* its reset_serial, period_count, and whether it is filling
    got,              \* per receiving endpoint: the kept period process() read last
    flaws             \* history: what went wrong in a join

vars == <<call, refs, attached, enabled, running, stop, worker, thread, join, cxt, todo,
          queue, copy, ring, provider, got, flaws>>

life == <<call, refs, attached, enabled, running, stop, worker, thread, join>>
data == <<cxt, todo, queue, copy, got>>
prov == <<ring, provider>>

(* A slot holds a period of one generation of the provider, or a mixture.  *)
(* The samples of a slot are kept when they are whole and their copy has   *)
(* not been rejected: a mark for the properties, which the code has not.   *)
Period(g, n) == [gen |-> g, n |-> n, whole |-> TRUE, kept |-> TRUE]
Torn(x)      == [x EXCEPT !.whole = FALSE, !.kept = FALSE]
Blank        == [gen |-> 0, n |-> -1, whole |-> FALSE, kept |-> FALSE]

Empty   == [slots |-> [i \in 0 .. QueuePeriods - 1 |-> Blank], read |-> 0, used |-> 0]
NoCopy  == [read |-> 0, used |-> 0, e |-> CHOOSE e \in Endpoints : TRUE]
NotConn == [up |-> FALSE, serial |-> 0, next |-> 0, cur |-> 0]

Joining == {"stop_join", "close_join", "last_join"}
Busy    == Joining \cup {"detach", "release", "last", "free"}
Quiet(e) == \A f \in Endpoints : Pipeline[f] = Pipeline[e] => call[f] \notin Busy

(* The worker is inside the loop over the periods, context->lock held. *)
Looping == {"periods", "copy", "check"}
LockFree == \A w \in Workers : thread[w] \notin Looping

Init ==
    /\ call = [e \in Endpoints |-> "closed"] /\ refs = 0
    /\ attached = {} /\ enabled = {}
    /\ running = FALSE /\ stop = FALSE /\ worker = 0
    /\ thread = [w \in Workers |-> "none"] /\ join = [e \in Endpoints |-> 0]
    /\ cxt = NotConn /\ todo = {} /\ queue = [e \in Endpoints |-> Empty]
    /\ copy = NoCopy
    /\ ring = [i \in 0 .. RingPeriods - 1 |-> Blank]
    /\ provider = [serial |-> 0, count |-> 0, filling |-> FALSE]
    /\ got = [e \in Rx |-> Blank] /\ flaws = {}

----------------------------------------------------------------------------
(* The elements' calls *)

(* open(): dep_endpoint_init, dep_context_acquire and dep_context_attach.  *)
(* A context that is being released has left the registry; the new one     *)
(* that would be made beside it shares nothing with it and is left out.    *)
Open(e) ==
    /\ call[e] = "closed" /\ Quiet(e) /\ LockFree
    /\ \A f \in Endpoints : call[f] \notin {"last", "last_join", "free"}
    /\ call' = [call EXCEPT ![e] = "stopped"]
    /\ refs' = refs + 1
    /\ attached' = attached \cup {e}
    /\ queue' = [queue EXCEPT ![e] = Empty]
    /\ IF refs = 0 THEN running' = FALSE /\ stop' = FALSE /\ cxt' = NotConn
       ELSE UNCHANGED <<running, stop, cxt>>
    /\ UNCHANGED <<enabled, worker, thread, join, todo, copy, prov, got, flaws>>

(* dep_endpoint_start *)
Start(e) ==
    /\ call[e] = "stopped" /\ Quiet(e) /\ LockFree
    /\ \/ /\ running
          /\ enabled' = enabled \cup {e}
          /\ call' = [call EXCEPT ![e] = "playing"]
          /\ UNCHANGED <<running, stop, worker, thread>>
       \/ /\ ~running
          /\ \E w \in Workers :
                /\ thread[w] = "none" /\ \A v \in Workers : v < w => thread[v] # "none"
                /\ worker' = w /\ thread' = [thread EXCEPT ![w] = "top"]
          /\ enabled' = enabled \cup {e}
          /\ stop' = FALSE /\ running' = TRUE
          /\ call' = [call EXCEPT ![e] = "playing"]
       \/ /\ ~running                                    \* pthread_create fails
          /\ stop' = FALSE
          /\ UNCHANGED <<enabled, running, worker, thread, call>>
    /\ UNCHANGED <<refs, attached, join, data, prov, flaws>>

(* Mutant of the next: the flag is not set for the last endpoint. *)
StopWorker_Never(e) == UNCHANGED stop

(* Mutant of the next: the other endpoints are not looked at. *)
StopWorker_Always(e) == stop' = TRUE

(* dep_endpoint_stop, under the lock: without an enabled endpoint the      *)
(* worker has to end, and this call joins it.                              *)
StopWorker(e) == stop' = (stop \/ enabled \ {e} = {})

StopSection(e, to, joining) ==
    /\ LockFree
    /\ enabled' = enabled \ {e}
    /\ StopWorker(e)
    /\ call' = [call EXCEPT ![e] = IF enabled' = {} /\ running THEN joining ELSE to]

Stop(e) ==
    /\ call[e] = "playing" /\ Quiet(e)
    /\ StopSection(e, "stopped", "stop_join")
    /\ UNCHANGED <<refs, attached, running, worker, thread, join, data, prov, flaws>>

(* close(): dep_endpoint_deinit stops the endpoint once more. *)
Close(e) ==
    /\ call[e] = "stopped" /\ Quiet(e)
    /\ StopSection(e, "detach", "close_join")
    /\ UNCHANGED <<refs, attached, running, worker, thread, join, data, prov, flaws>>

(* pthread_join(context->worker): the handle is read after the unlock, and *)
(* a thread may be joined once.                                            *)
JoinCall(e) ==
    /\ call[e] \in Joining /\ join[e] = 0
    /\ join' = [join EXCEPT ![e] = worker]
    /\ flaws' = IF thread[worker] = "joined" \/ \E f \in Endpoints : join[f] = worker
                THEN flaws \cup {"joined twice"} ELSE flaws
    /\ UNCHANGED <<call, refs, attached, enabled, running, stop, worker, thread, data, prov>>

JoinReturn(e) ==
    /\ join[e] # 0 /\ thread[join[e]] = "ended"
    /\ thread' = [thread EXCEPT ![join[e]] = "joined"]
    /\ join' = [join EXCEPT ![e] = 0]
    /\ call' = [call EXCEPT ![e] = CASE @ = "stop_join" -> "stopped"
                                     [] @ = "close_join" -> "detach"
                                     [] @ = "last_join" -> "free"]
    /\ UNCHANGED <<refs, attached, enabled, running, stop, worker, data, prov, flaws>>

(* dep_context_detach, and the endpoint's memory is freed. *)
Detach(e) ==
    /\ call[e] = "detach" /\ LockFree
    /\ attached' = attached \ {e}
    /\ queue' = [queue EXCEPT ![e] = Empty]
    /\ got' = [f \in Rx |-> IF f = e THEN Blank ELSE got[f]]
    /\ call' = [call EXCEPT ![e] = "release"]
    /\ UNCHANGED <<refs, enabled, running, stop, worker, thread, join, cxt, todo, copy, prov,
                   flaws>>

(* dep_context_release, under the lock of the registry *)
Release(e) ==
    /\ call[e] = "release"
    /\ refs' = refs - 1
    /\ call' = [call EXCEPT ![e] = IF refs = 1 THEN "last" ELSE "closed"]
    /\ UNCHANGED <<attached, enabled, running, stop, worker, thread, join, data, prov, flaws>>

(* The last reference: the worker, if there is one, is stopped and joined. *)
ReleaseLast(e) ==
    /\ call[e] = "last" /\ LockFree
    /\ stop' = TRUE
    /\ call' = [call EXCEPT ![e] = IF running THEN "last_join" ELSE "free"]
    /\ UNCHANGED <<refs, attached, enabled, running, worker, thread, join, data, prov, flaws>>

(* context_disconnect, and the memory is freed. *)
Free(e) ==
    /\ call[e] = "free"
    /\ call' = [call EXCEPT ![e] = "closed"]
    /\ cxt' = NotConn
    /\ flaws' = IF \E w \in Workers : thread[w] \notin {"none", "ended", "joined"}
                THEN flaws \cup {"freed in use"} ELSE flaws
    /\ UNCHANGED <<refs, attached, enabled, running, stop, worker, thread, join, todo, queue,
                   copy, prov, got>>

----------------------------------------------------------------------------
(* The worker *)

Goto(w, to) == thread' = [thread EXCEPT ![w] = to]

(* context_disconnect empties the queues of all endpoints of the list. *)
Emptied == [e \in Endpoints |-> IF e \in attached THEN Empty ELSE queue[e]]
Disconnect == cxt' = NotConn /\ queue' = Emptied

(* The head of context_worker's loop *)
Top(w) ==
    /\ thread[w] = "top" /\ LockFree
    /\ Goto(w, IF stop THEN "exit" ELSE IF cxt.up THEN "wait" ELSE "connect")
    /\ UNCHANGED <<call, refs, attached, enabled, running, stop, worker, join, data, prov,
                   flaws>>

(* Mutant of the next: a failed attempt ends the thread. *)
Retry_GivesUp(w) == Goto(w, IF cxt'.up THEN "top" ELSE "exit")

(* The loop goes on after an attempt to connect, failed or not. *)
Retry(w) == Goto(w, "top")

(* context_connect: the header is read between two reads of reset_serial.  *)
Connect(w) ==
    /\ thread[w] = "connect" /\ LockFree
    /\ ~stop /\ provider.serial % 2 = 0
    /\ cxt' = [up |-> TRUE, serial |-> provider.serial, next |-> provider.count, cur |-> 0]
    /\ queue' = Emptied
    /\ Retry(w)
    /\ UNCHANGED <<call, refs, attached, enabled, running, stop, worker, join, todo, copy,
                   prov, got, flaws>>

(* During a reset, and at any time when the shared memory or its semaphore *)
(* is missing or malformed, or memory is short, the worker tries again.    *)
ConnectFails(w) ==
    /\ thread[w] = "connect" /\ LockFree
    /\ IF stop THEN UNCHANGED <<cxt, queue>> ELSE Disconnect
    /\ Retry(w)
    /\ UNCHANGED <<call, refs, attached, enabled, running, stop, worker, join, todo, copy,
                   prov, got, flaws>>

(* After the signal, or 20 ms without it: a reset ends the mapping, and    *)
(* periods that have left the ring are skipped.                            *)
WasReset == provider.serial # cxt.serial \/ provider.serial % 2 = 1 \/ provider.count < cxt.next

Skipped ==
    LET available == provider.count - cxt.next
    IN  IF available > RingPeriods THEN cxt.next + (available - RingPeriods) ELSE cxt.next

Wake(w) ==
    /\ thread[w] = "wait" /\ LockFree
    /\ \/ /\ stop /\ Goto(w, "exit")
          /\ UNCHANGED <<cxt, queue>>
       \/ /\ ~stop /\ WasReset
          /\ Disconnect /\ Goto(w, "top")
       \/ /\ ~stop /\ ~WasReset
          /\ cxt' = [cxt EXCEPT !.next = Skipped, !.cur = provider.count]
          /\ Goto(w, "periods")
          /\ UNCHANGED queue
    /\ UNCHANGED <<call, refs, attached, enabled, running, stop, worker, join, todo, copy,
                   prov, got, flaws>>

(* The next period, for every enabled endpoint in turn; after the last one *)
(* the lock is released.                                                   *)
NextPeriod(w) ==
    /\ thread[w] = "periods" /\ todo = {}
    /\ IF cxt.next < cxt.cur
       THEN /\ cxt' = [cxt EXCEPT !.next = @ + 1]
            /\ todo' = enabled \cap attached /\ UNCHANGED thread
       ELSE Goto(w, "top") /\ UNCHANGED <<cxt, todo>>
    /\ UNCHANGED <<call, refs, attached, enabled, running, stop, worker, join, queue, copy,
                   prov, got, flaws>>

Slot(q, i) == (q.read + i) % QueuePeriods
FifoDrop(q, k) == [slots |-> q.slots, read |-> Slot(q, k), used |-> q.used - k]

(* Mutant of the next: the ring is taken to be one period longer. *)
InRing_OffByOne == /\ provider.count >= cxt.next
                   /\ provider.count - (cxt.next - 1) <= RingPeriods + 1

(* Period cxt.next - 1 is published and has not been overwritten. *)
InRing == /\ provider.count >= cxt.next
          /\ provider.count - (cxt.next - 1) <= RingPeriods

(* Room for one period is made by dropping the oldest. *)
Room(q) == IF q.used = QueuePeriods THEN FifoDrop(q, 1) ELSE q

(* receive_period, up to the copy *)
Receive(w, e) ==
    /\ thread[w] = "periods" /\ e \in todo \cap Rx
    /\ IF InRing
       THEN LET q == queue[e] IN
            /\ Goto(w, "copy")
            /\ copy' = [read |-> q.read, used |-> q.used, e |-> e]
            /\ queue' = [queue EXCEPT ![e] = Room(q)]
            /\ UNCHANGED todo
       ELSE todo' = todo \ {e} /\ UNCHANGED <<thread, copy, queue>>
    /\ UNCHANGED <<call, refs, attached, enabled, running, stop, worker, join, cxt, prov, got,
                   flaws>>

CopySamples(w) ==
    /\ thread[w] = "copy"
    /\ LET e == copy.e
           q == queue[e]
           x == ring[(cxt.next - 1) % RingPeriods]
       IN  queue' = [queue EXCEPT ![e] =
                        [slots |-> [q.slots EXCEPT ![Slot(q, q.used)] = x],
                         read |-> q.read, used |-> q.used + 1]]
    /\ Goto(w, "check")
    /\ UNCHANGED <<call, refs, attached, enabled, running, stop, worker, join, cxt, todo, copy,
                   prov, got, flaws>>

(* The two counters go back to where they were.  What the copy has written *)
(* stays: in a full queue it lies where the oldest period was, at the head *)
(* of the queue, and is read next.  It is no longer kept.                  *)
Undone(q) ==
    [slots |-> [q.slots EXCEPT ![Slot(q, q.used - 1)].kept = FALSE],
     read |-> copy.read, used |-> copy.used]

(* The provider may have gone on during the copy: then it is undone. *)
CheckCopy(w) ==
    /\ thread[w] = "check"
    /\ queue' = IF InRing THEN queue
                ELSE [queue EXCEPT ![copy.e] = Undone(@)]
    /\ todo' = todo \ {copy.e} /\ copy' = NoCopy
    /\ Goto(w, "periods")
    /\ UNCHANGED <<call, refs, attached, enabled, running, stop, worker, join, cxt, prov, got,
                   flaws>>

(* transmit_period: what the queue has, or silence *)
Transmit(w, e) ==
    /\ thread[w] = "periods" /\ e \in todo \cap Tx
    /\ queue' = [queue EXCEPT ![e].used = IF @ > 0 THEN @ - 1 ELSE 0]
    /\ todo' = todo \ {e}
    /\ UNCHANGED <<life, cxt, copy, prov, got, flaws>>

Ended == running' = FALSE

(* The end of context_worker *)
Exit(w) ==
    /\ thread[w] = "exit" /\ LockFree
    /\ Disconnect
    /\ Ended
    /\ Goto(w, "ended")
    /\ UNCHANGED <<call, refs, attached, enabled, stop, worker, join, todo, copy, prov, got,
                   flaws>>

----------------------------------------------------------------------------
(* process() of the elements: dep_endpoint_read and dep_endpoint_write.    *)
(* The endpoint's own lock is held during a copy.                          *)
EndpointFree(e) == \A w \in Workers : thread[w] \in {"copy", "check"} => copy.e # e

Read(e) ==
    /\ call[e] = "playing" /\ e \in enabled /\ EndpointFree(e) /\ queue[e].used > 0
    /\ LET q == queue[e]
           x == q.slots[q.read]
       IN  /\ got' = [got EXCEPT ![e] = IF x.kept THEN x ELSE @]
           /\ queue' = [queue EXCEPT ![e] =
                           FifoDrop([q EXCEPT !.slots = [q.slots EXCEPT ![q.read] = Blank]], 1)]
    /\ UNCHANGED <<life, cxt, todo, copy, prov, flaws>>

Write(e) ==
    /\ call[e] = "playing" /\ e \in enabled /\ EndpointFree(e)
    /\ queue' = [queue EXCEPT ![e].used = IF @ = QueuePeriods THEN @ ELSE @ + 1]
    /\ UNCHANGED <<life, cxt, todo, copy, prov, got, flaws>>

----------------------------------------------------------------------------
(* The provider (external) *)

Fill ==
    /\ ~provider.filling /\ provider.serial % 2 = 0 /\ provider.count < MaxPeriod
    /\ provider' = [provider EXCEPT !.filling = TRUE]
    /\ ring' = [ring EXCEPT ![provider.count % RingPeriods] = Torn(@)]
    /\ UNCHANGED <<life, data, flaws>>

Publish ==
    /\ provider.filling
    /\ provider' = [provider EXCEPT !.filling = FALSE, !.count = @ + 1]
    /\ ring' = [ring EXCEPT ![provider.count % RingPeriods] =
                                Period(provider.serial \div 2, provider.count)]
    /\ UNCHANGED <<life, data, flaws>>

ResetBegin ==
    /\ ~provider.filling /\ provider.serial % 2 = 0 /\ provider.serial < 2 * MaxResets
    /\ provider' = [provider EXCEPT !.serial = @ + 1]
    /\ UNCHANGED <<ring, life, data, flaws>>

ResetEnd ==
    /\ provider.serial % 2 = 1
    /\ provider' = [provider EXCEPT !.serial = @ + 1, !.count = 0]
    /\ ring' = [i \in DOMAIN ring |-> Torn(ring[i])]
    /\ UNCHANGED <<life, data, flaws>>

----------------------------------------------------------------------------
Calls(e) ==
    \/ Open(e) \/ Start(e) \/ Stop(e) \/ Close(e) \/ JoinCall(e) \/ JoinReturn(e)
    \/ Detach(e) \/ Release(e) \/ ReleaseLast(e) \/ Free(e)

Work(w) ==
    \/ Top(w) \/ Connect(w) \/ ConnectFails(w) \/ Wake(w) \/ NextPeriod(w) \/ CopySamples(w) \/ CheckCopy(w)
    \/ Exit(w)
    \/ \E e \in Rx : Receive(w, e)
    \/ \E e \in Tx : Transmit(w, e)

Provide == Fill \/ Publish \/ ResetBegin \/ ResetEnd

Next ==
    \/ \E e \in Endpoints : Calls(e)
    \/ \E w \in Workers : Work(w)
    \/ \E e \in Rx : Read(e)
    \/ \E e \in Tx : Write(e)
    \/ Provide

Spec == Init /\ [][Next]_vars

(* The worker and a call that has begun go on, and a reset ends.  That an  *)
(* attempt to connect succeeds in the end is a premise on the provider:    *)
(* outside its resets the shared memory is there and well formed.  Nothing *)
(* obliges an element to be started, or the provider to publish.           *)
Fairness ==
    /\ \A w \in Workers : WF_vars(Work(w)) /\ SF_vars(Connect(w))
    /\ \A e \in Endpoints : WF_vars(JoinCall(e) \/ JoinReturn(e) \/ Detach(e)
                                    \/ Release(e) \/ ReleaseLast(e) \/ Free(e))
    /\ WF_vars(ResetEnd)

FairSpec == Spec /\ Fairness

----------------------------------------------------------------------------
TypeOK ==
    /\ enabled \subseteq attached /\ attached \subseteq Endpoints
    /\ refs \in 0 .. Cardinality(Endpoints)
    /\ worker \in 0 .. MaxWorkers
    /\ \A e \in Endpoints : queue[e].used \in 0 .. QueuePeriods

(* pthread_join is called once per worker, and a context that is freed has *)
(* no worker left: start, stop and close of the elements that share it, in *)
(* any order of the calls of one pipeline.                                 *)
WorkerJoinedOnce == flaws \cap {"joined twice", "freed in use"} = {}

(* While an element plays and no call is on its way, a worker runs that    *)
(* has not been told to end: the stop of one endpoint never takes the      *)
(* worker away from another (dep_endpoint_stop's scan of the list).        *)
NoOrphan ==
    (\A e \in Endpoints : call[e] \in {"closed", "stopped", "playing"}) /\ enabled # {}
        => running /\ ~stop

Before(x, y) == x.gen < y.gen \/ (x.gen = y.gen /\ x.n < y.n)
InUse(e, i)  == queue[e].slots[Slot(queue[e], i)]

(* The periods whose copy was accepted leave a queue in the order of the   *)
(* provider, none twice, across laps of the ring, full queues, undone      *)
(* copies and resets.  What an undone copy has left at the head of a full  *)
(* queue is read too (dante_dep_context.c:440-442): this property does not *)
(* speak of it, PeriodsInOrder does.                                       *)
InOrder ==
    \A e \in Rx : \A i \in 0 .. queue[e].used - 1 : InUse(e, i).kept =>
        /\ Before(got[e], InUse(e, i))
        /\ \A j \in 0 .. i - 1 : InUse(e, j).kept => Before(InUse(e, j), InUse(e, i))

(* wiki/DANTE_CONTROL_AUDIO_VIDEO_PROTOCOL.md: every elapsed period is     *)
(* transferred, in order.  So the whole periods that wait in a queue are   *)
(* in the order of the provider, whichever copy they came from.            *)
PeriodsInOrder ==
    \A e \in Rx : EndpointFree(e) =>
        \A i, j \in 0 .. queue[e].used - 1 :
            i < j /\ InUse(e, i).whole /\ InUse(e, j).whole => Before(InUse(e, i), InUse(e, j))

(* stop() and close() return: the worker they join ends. *)
JoinsReturn == \A e \in Endpoints : call[e] \in Joining ~> call[e] \notin Joining

(* A playing element is connected again after every reset, to the present  *)
(* generation of the shared memory.                                        *)
Reconnected ==
    \A e \in Endpoints :
        call[e] = "playing" ~> (cxt.up /\ cxt.serial = provider.serial) \/ call[e] # "playing"

(* The elements that share a context agree on its worker: it is started,   *)
(* told to end, joined and freed once, and not while another element plays *)
(* (dante_dep_context.c:777-814; WorkerJoinedOnce and NoOrphan, with the   *)
(* types).                                                                 *)
WorkerShared == TypeOK /\ WorkerJoinedOnce /\ NoOrphan
=============================================================================
