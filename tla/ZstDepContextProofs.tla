------------------------ MODULE ZstDepContextProofs ------------------------
(***************************************************************************)
(* The worker and the queues of a shared Dante context                     *)
(* (dante_dep_context.c), for every number of endpoints and of workers,    *)
(* every length of the rings and any run of the provider.                  *)
(***************************************************************************)
EXTENDS ZstDepContext, FiniteSetTheorems, TLAPS

-----------------------------------------------------------------------------
(* The inductive invariant.                                                 *)

CallStates == {"closed", "stopped", "playing", "stop_join", "close_join", "detach", "release",
               "last", "last_join", "free"}
Attached   == {"stopped", "playing", "stop_join", "close_join", "detach"}
Active     == {"top", "connect", "wait", "periods", "copy", "check", "exit"}
ThreadStates == Active \cup {"none", "ended", "joined"}

LifeTypes ==
    /\ call \in [Endpoints -> CallStates] /\ thread \in [Workers -> ThreadStates]
    /\ worker \in 0 .. MaxWorkers /\ join \in [Endpoints -> 0 .. MaxWorkers]
    /\ running \in BOOLEAN /\ stop \in BOOLEAN

(* The endpoints that have a reference: those of the list, and one that is *)
(* about to give its reference back.                                       *)
Holders == {e \in Endpoints : call[e] \in Attached \cup {"release"}}

(* The list of endpoints, the flags and the count follow the calls. *)
Lists ==
    /\ attached = {e \in Endpoints : call[e] \in Attached}
    /\ enabled = {e \in Endpoints : call[e] = "playing"}
    /\ refs = Cardinality(Holders)

(* Of one pipeline only one call at a time is beyond its first section. *)
OneBusy == \A e, f \in Endpoints : call[e] \in Busy /\ call[f] \in Busy => e = f

SomeJoins == \E e \in Endpoints : call[e] \in Joining

(* There is one worker while worker_running is set; one that has ended is  *)
(* about to be joined.                                                     *)
Threads ==
    /\ running => worker # 0 /\ thread[worker] \in Active
    /\ \A w \in Workers : thread[w] \in Active => w = worker /\ running
    /\ \A w \in Workers : thread[w] = "ended" => w = worker /\ SomeJoins
    /\ \A w \in Workers : thread[w] = "exit" => stop

(* The worker runs for enabled endpoints, or for the call that ends it. *)
Purpose ==
    /\ enabled # {} => running /\ ~stop
    /\ running => enabled # {} \/ SomeJoins
    /\ \A e \in Endpoints : call[e] \in Joining =>
          /\ call[e] # "last_join"
          /\ enabled = {} /\ stop /\ worker # 0 /\ (running \/ thread[worker] = "ended")
    /\ \A e \in Endpoints : join[e] # 0 => call[e] \in Joining /\ join[e] = worker
    /\ \A e \in Endpoints : call[e] \in {"last", "free"} => attached = {}

LifeInv == LifeTypes /\ Lists /\ OneBusy /\ Threads /\ Purpose /\ flaws = {}

(* The data *)
Places   == 0 .. QueuePeriods - 1
SlotType == [gen : Int, n : Int, whole : BOOLEAN, kept : BOOLEAN]
QueueType == [slots : [Places -> SlotType], read : Places, used : 0 .. QueuePeriods]

DataTypes ==
    /\ queue \in [Endpoints -> QueueType]
    /\ ring \in [0 .. RingPeriods - 1 -> SlotType]
    /\ got \in [Rx -> SlotType]
    /\ cxt \in [up : BOOLEAN, serial : Nat, next : Nat, cur : Nat]
    /\ provider \in [serial : Nat, count : Nat, filling : BOOLEAN]
    /\ todo \subseteq Endpoints

InCopy == \E w \in Workers : thread[w] \in {"copy", "check"}

(* What receive_period keeps to roll back to, against the queue it works   *)
(* on: the oldest period of a full queue is gone, and after the copy there *)
(* is one more.                                                            *)
CopyType == [read : Places, used : 0 .. QueuePeriods, e : Rx]

Copying ==
    InCopy =>
        /\ copy \in CopyType /\ copy.e \in todo
        /\ LET q == queue[copy.e]
               m == IF copy.used = QueuePeriods THEN QueuePeriods - 1 ELSE copy.used
           IN  /\ q.read = IF copy.used = QueuePeriods
                           THEN (copy.read + 1) % QueuePeriods ELSE copy.read
               /\ \A w \in Workers : thread[w] = "copy" => q.used = m
               /\ \A w \in Workers : thread[w] = "check" => q.used = m + 1

DataInv == DataTypes /\ Copying

(* The elements of one pipeline share the context: the pipeline makes one  *)
(* call at a time.                                                         *)
SamePipeline == \A e, f \in Endpoints : Pipeline[e] = Pipeline[f]

-----------------------------------------------------------------------------
(* The life of the worker.                                                  *)

lifeVars == <<call, refs, attached, enabled, running, stop, worker, join, flaws>>

LEMMA Sizes == 
    /\ MaxWorkers \in Nat \ {0} /\ QueuePeriods \in Nat \ {0} /\ RingPeriods \in Nat \ {0}
    /\ IsFiniteSet(Endpoints) /\ Rx \cap Tx = {} /\ Rx \subseteq Endpoints /\ Tx \subseteq Endpoints
    /\ Workers = 1 .. MaxWorkers
BY DepAssumption DEF Endpoints, Workers

(* A step of the worker that goes on working *)
LEMMA WorkKeeps ==
    ASSUME LifeInv, NEW w \in Workers, thread[w] \in Active, NEW l \in Active,
           thread' = [thread EXCEPT ![w] = l], l = "exit" => stop, UNCHANGED lifeVars
    PROVE  LifeInv'
<1>1. /\ thread \in [Workers -> ThreadStates] /\ w = worker /\ running
  BY DEF LifeInv, LifeTypes, Threads
<1>2. /\ thread' \in [Workers -> ThreadStates] /\ thread'[w] = l
      /\ \A v \in Workers \ {w} : thread'[v] = thread[v]
  BY <1>1 DEF ThreadStates
<1>3. LifeTypes' /\ Lists' /\ OneBusy' /\ flaws' = {}
  BY <1>2 DEF LifeInv, LifeTypes, Lists, Holders, OneBusy, lifeVars
<1>4. SomeJoins' = SomeJoins
  BY DEF SomeJoins, lifeVars
<1>5. l # "ended" /\ worker \in Workers
  BY <1>1 DEF Active
<1>6. Threads'
  BY <1>1, <1>2, <1>4, <1>5 DEF LifeInv, Threads, lifeVars
<1>7. Purpose'
  BY <1>1, <1>2, <1>4, <1>5 DEF LifeInv, Purpose, lifeVars
<1> QED BY <1>3, <1>6, <1>7 DEF LifeInv

LEMMA LifeSame ==
    ASSUME LifeInv, UNCHANGED lifeVars, UNCHANGED thread PROVE LifeInv'
BY DEF LifeInv, LifeTypes, Lists, Holders, OneBusy, Threads, Purpose, SomeJoins, lifeVars

(* One call moves on. *)
LEMMA CallMoves ==
    ASSUME LifeInv, NEW e \in Endpoints, NEW s \in CallStates, call' = [call EXCEPT ![e] = s]
    PROVE  /\ call' \in [Endpoints -> CallStates] /\ call'[e] = s
           /\ \A f \in Endpoints \ {e} : call'[f] = call[f]
BY DEF LifeInv, LifeTypes

LEMMA NobodyBusy ==
    ASSUME SamePipeline, NEW e \in Endpoints, Quiet(e)
    PROVE  (\A f \in Endpoints : call[f] \notin Busy) /\ ~SomeJoins
BY DEF SamePipeline, Quiet, Busy, SomeJoins

LEMMA AttachedCount ==
    ASSUME Lists
    PROVE  /\ IsFiniteSet(Holders) /\ refs \in Nat /\ (refs = 0 <=> Holders = {})
           /\ refs \in 0 .. Cardinality(Endpoints) /\ attached \subseteq Holders
<1>1. /\ Holders \subseteq Endpoints /\ IsFiniteSet(Endpoints) /\ refs = Cardinality(Holders)
      /\ attached \subseteq Holders
  BY Sizes DEF Lists, Holders
<1>2. IsFiniteSet(Holders) /\ Cardinality(Holders) <= Cardinality(Endpoints)
  BY <1>1, FS_Subset
<1>3. Cardinality(Holders) \in Nat /\ Cardinality(Endpoints) \in Nat
  BY <1>1, <1>2, FS_CardinalityType
<1>4. Cardinality(Holders) = 0 <=> Holders = {}
  BY <1>2, FS_EmptySet
<1> QED BY <1>1, <1>2, <1>3, <1>4

LEMMA OpenKeeps ==
    ASSUME LifeInv, SamePipeline, NEW e \in Endpoints, Open(e) PROVE LifeInv'
<1>1. /\ call[e] = "closed" /\ call' = [call EXCEPT ![e] = "stopped"]
      /\ UNCHANGED <<enabled, worker, thread, join, flaws>>
      /\ attached' = attached \cup {e} /\ refs' = refs + 1
      /\ IF refs = 0 THEN running' = FALSE /\ stop' = FALSE ELSE UNCHANGED <<running, stop>>
  BY DEF Open
<1>2. (\A f \in Endpoints : call[f] \notin Busy) /\ ~SomeJoins
  BY NobodyBusy DEF Open
<1>3. /\ call' \in [Endpoints -> CallStates] /\ call'[e] = "stopped"
      /\ \A f \in Endpoints \ {e} : call'[f] = call[f]
  BY <1>1, CallMoves DEF CallStates
<1>4. IsFiniteSet(Holders) /\ refs \in Nat /\ (refs = 0 => attached = {})
      /\ refs = Cardinality(Holders)
  BY AttachedCount DEF LifeInv, Lists
<1>5. e \notin Holders /\ Holders' = Holders \cup {e}
  BY <1>1, <1>3 DEF Holders, Attached
<1>6. Lists'
  <2>1. attached' = {f \in Endpoints : call'[f] \in Attached}
    BY <1>1, <1>3 DEF LifeInv, Lists, Attached
  <2>2. enabled' = {f \in Endpoints : call'[f] = "playing"}
    BY <1>1, <1>3 DEF LifeInv, Lists
  <2>3. Cardinality(Holders') = Cardinality(Holders) + 1
    BY <1>4, <1>5, FS_AddElement
  <2> QED BY <1>1, <1>4, <2>1, <2>2, <2>3 DEF Lists
<1>7. \A f \in Endpoints : call'[f] \notin Busy
  BY <1>2, <1>3 DEF Busy, Joining
<1>8. ~SomeJoins' /\ \A f \in Endpoints : call'[f] \notin Joining \cup {"last", "free"}
  BY <1>7 DEF SomeJoins, Busy
<1>9. refs = 0 => ~running
  BY <1>2, <1>4 DEF LifeInv, Purpose, Lists, Attached
<1>10. UNCHANGED running /\ (stop' = stop \/ (stop' = FALSE /\ ~running)) /\ stop' \in BOOLEAN
  BY <1>1, <1>9 DEF LifeInv, LifeTypes
<1>11. LifeTypes' /\ OneBusy' /\ flaws' = {}
  BY <1>1, <1>3, <1>7, <1>10 DEF LifeInv, LifeTypes, OneBusy
<1>12. Threads'
  BY <1>1, <1>2, <1>8, <1>10 DEF LifeInv, Threads, Active
<1>13. Purpose'
  BY <1>1, <1>2, <1>8, <1>10, <1>3 DEF LifeInv, Purpose, Busy
<1> QED BY <1>6, <1>11, <1>12, <1>13 DEF LifeInv

LEMMA StartKeeps ==
    ASSUME LifeInv, SamePipeline, NEW e \in Endpoints, Start(e) PROVE LifeInv'
<1>1. /\ call[e] = "stopped" /\ UNCHANGED <<refs, attached, join, flaws>>
  BY DEF Start
<1>2. (\A f \in Endpoints : call[f] \notin Busy) /\ ~SomeJoins
  BY NobodyBusy DEF Start
<1>3. CASE enabled' = enabled \cup {e} /\ call' = [call EXCEPT ![e] = "playing"]
           /\ running' = TRUE /\ stop' = FALSE
           /\ \/ running /\ UNCHANGED <<worker, thread>>
              \/ ~running /\ \E w \in Workers : /\ thread[w] = "none" /\ worker' = w
                                                /\ thread' = [thread EXCEPT ![w] = "top"]
  <2>1. /\ call' \in [Endpoints -> CallStates] /\ call'[e] = "playing"
        /\ \A f \in Endpoints \ {e} : call'[f] = call[f]
    BY <1>3, CallMoves DEF CallStates
  <2>2. Lists'
    BY <1>1, <1>3, <2>1 DEF LifeInv, Lists, Holders, Attached
  <2>3. \A f \in Endpoints : call'[f] \notin Busy
    BY <1>2, <2>1 DEF Busy, Joining
  <2>4. ~SomeJoins' /\ (\A f \in Endpoints : call'[f] \notin Joining \cup {"last", "free"})
        /\ \A f \in Endpoints : join[f] = 0
    BY <1>2, <2>3 DEF SomeJoins, Busy, LifeInv, Purpose
  <2>5. OneBusy' /\ flaws' = {}
    BY <1>1, <2>3 DEF LifeInv, OneBusy
  <2> DEFINE Alone ==
        /\ worker' \in 0 .. MaxWorkers /\ worker' # 0 /\ thread' \in [Workers -> ThreadStates]
        /\ thread'[worker'] \in Active \ {"exit"}
        /\ \A v \in Workers : v # worker' => thread'[v] \notin Active \cup {"ended"}
  <2>6. Alone
    <3>1. CASE running /\ UNCHANGED <<worker, thread>>
      <4>1. worker \in Workers /\ thread[worker] \in Active /\ ~stop
        BY <1>2, <3>1, Sizes DEF LifeInv, Threads, Purpose, LifeTypes
      <4> QED BY <1>2, <3>1, <4>1, Sizes DEF LifeInv, LifeTypes, Threads
    <3>2. ASSUME ~running, NEW w \in Workers, worker' = w, thread' = [thread EXCEPT ![w] = "top"]
          PROVE  Alone
      <4>1. \A v \in Workers : thread[v] \notin Active \cup {"ended"}
        BY <1>2, <3>2 DEF LifeInv, Threads
      <4>2. thread' \in [Workers -> ThreadStates] /\ thread'[w] = "top"
            /\ \A v \in Workers \ {w} : thread'[v] = thread[v]
        BY <3>2 DEF LifeInv, LifeTypes, ThreadStates, Active
      <4>3. w \in 0 .. MaxWorkers /\ w # 0
        BY Sizes
      <4> QED BY <3>2, <4>1, <4>2, <4>3 DEF Active
    <3> QED BY <1>3, <3>1, <3>2
  <2>7. LifeTypes'
    BY <1>1, <1>3, <2>1, <2>6 DEF LifeInv, LifeTypes
  <2>8. Threads'
    <3>1. thread'[worker'] \notin {"ended", "exit"}
      BY <2>6 DEF Active
    <3> QED BY <1>3, <2>6, <3>1, Sizes DEF Threads, Active
  <2>9. Purpose'
    BY <1>1, <1>3, <2>1, <2>4 DEF Purpose
  <2> QED BY <2>2, <2>5, <2>7, <2>8, <2>9 DEF LifeInv
<1>4. CASE ~running /\ stop' = FALSE /\ UNCHANGED <<enabled, running, worker, thread, call>>
  <2>1. SomeJoins' = SomeJoins
    BY <1>4 DEF SomeJoins
  <2>2. LifeTypes' /\ Lists' /\ OneBusy' /\ flaws' = {}
    BY <1>1, <1>4 DEF LifeInv, LifeTypes, Lists, Holders, OneBusy
  <2>3. Threads'
    BY <1>4, <2>1 DEF LifeInv, Threads, Active
  <2>4. Purpose'
    BY <1>1, <1>2, <1>4, <2>1 DEF LifeInv, Purpose, SomeJoins
  <2> QED BY <2>2, <2>3, <2>4 DEF LifeInv
<1>5. running => ~stop
  BY <1>2 DEF LifeInv, Purpose
<1> QED BY <1>1, <1>3, <1>4, <1>5 DEF Start, LifeInv, LifeTypes

LEMMA StopKeeps ==
    ASSUME LifeInv, SamePipeline, NEW e \in Endpoints, Stop(e) \/ Close(e) PROVE LifeInv'
<1>1. /\ call[e] \in {"playing", "stopped"} /\ Quiet(e)
      /\ UNCHANGED <<refs, attached, running, worker, thread, join, flaws>>
      /\ enabled' = enabled \ {e} /\ stop' = (stop \/ enabled' = {})
  BY DEF Stop, Close, StopSection, StopWorker
<1>2. PICK s \in {"stopped", "stop_join", "detach", "close_join"} :
         /\ call' = [call EXCEPT ![e] = s]
         /\ s \in {"stop_join", "close_join"} <=> enabled' = {} /\ running
  BY DEF Stop, Close, StopSection
<1>3. (\A f \in Endpoints : call[f] \notin Busy) /\ ~SomeJoins
  BY <1>1, NobodyBusy
<1>4. /\ call' \in [Endpoints -> CallStates] /\ call'[e] = s
      /\ \A f \in Endpoints \ {e} : call'[f] = call[f]
  BY <1>2, CallMoves DEF CallStates
<1>5. Lists'
  <2>1. attached' = {f \in Endpoints : call'[f] \in Attached}
    BY <1>1, <1>4 DEF LifeInv, Lists, Attached
  <2>2. enabled' = {f \in Endpoints : call'[f] = "playing"}
    BY <1>1, <1>4 DEF LifeInv, Lists
  <2>3. Holders' = Holders
    BY <1>1, <1>4 DEF Holders, Attached, Joining
  <2> QED BY <1>1, <2>1, <2>2, <2>3 DEF LifeInv, Lists
<1>6. \A f \in Endpoints : call'[f] \in Busy => f = e
  BY <1>3, <1>4
<1>7. LifeTypes' /\ OneBusy' /\ flaws' = {}
  BY <1>1, <1>4, <1>6 DEF LifeInv, LifeTypes, OneBusy
<1>8. SomeJoins' <=> enabled' = {} /\ running
  BY <1>2, <1>4, <1>6 DEF SomeJoins, Joining, Busy
<1>9. Threads'
  BY <1>1, <1>3, <1>8 DEF LifeInv, Threads
<1>10. running => worker # 0 /\ ~stop
  BY <1>3 DEF LifeInv, Threads, Purpose
<1>11. Purpose'
  <2>1. enabled' # {} => running' /\ ~stop'
    BY <1>1, <1>10 DEF LifeInv, Purpose
  <2>2. ASSUME NEW f \in Endpoints, call'[f] \in Joining
        PROVE  /\ call'[f] # "last_join"
               /\ enabled' = {} /\ stop' /\ worker' # 0 /\ (running' \/ thread'[worker'] = "ended")
    BY <1>1, <1>2, <1>4, <1>6, <1>10, <2>2 DEF Joining, Busy
  <2>3. \A f \in Endpoints : join'[f] = 0
    BY <1>1, <1>3 DEF LifeInv, Purpose, Busy
  <2>4. \A f \in Endpoints : call'[f] \notin {"last", "free"}
    BY <1>2, <1>4, <1>6 DEF Busy
  <2> QED BY <1>1, <1>8, <2>1, <2>2, <2>3, <2>4 DEF Purpose
<1> QED BY <1>5, <1>7, <1>9, <1>11 DEF LifeInv

LEMMA JoinCallKeeps ==
    ASSUME LifeInv, NEW e \in Endpoints, JoinCall(e) PROVE LifeInv'
<1>1. /\ call[e] \in Joining /\ join[e] = 0 /\ join' = [join EXCEPT ![e] = worker]
      /\ UNCHANGED <<call, refs, attached, enabled, running, stop, worker, thread>>
  BY DEF JoinCall
<1>2. worker # 0 /\ (running \/ thread[worker] = "ended")
  BY <1>1 DEF LifeInv, Purpose
<1>3. thread[worker] # "joined"
  BY <1>2 DEF LifeInv, Threads, Active
<1>4. \A f \in Endpoints : join[f] # worker
  <2> SUFFICES ASSUME NEW f \in Endpoints, join[f] = worker PROVE FALSE
    OBVIOUS
  <2>1. call[f] \in Joining
    BY <1>2 DEF LifeInv, Purpose
  <2> QED BY <1>1, <1>2, <2>1 DEF LifeInv, OneBusy, Busy
<1>5. flaws' = {}
  BY <1>3, <1>4 DEF JoinCall, LifeInv
<1>6. join' \in [Endpoints -> 0 .. MaxWorkers] /\ join'[e] = worker
      /\ \A f \in Endpoints \ {e} : join'[f] = join[f]
  BY <1>1 DEF LifeInv, LifeTypes
<1>7. SomeJoins' = SomeJoins
  BY <1>1 DEF SomeJoins
<1>8. LifeTypes' /\ Lists' /\ OneBusy' /\ Threads'
  BY <1>1, <1>6, <1>7 DEF LifeInv, LifeTypes, Lists, Holders, OneBusy, Threads
<1>9. Purpose'
  BY <1>1, <1>6, <1>7 DEF LifeInv, Purpose
<1> QED BY <1>5, <1>8, <1>9 DEF LifeInv

LEMMA JoinReturnKeeps ==
    ASSUME LifeInv, NEW e \in Endpoints, JoinReturn(e) PROVE LifeInv'
<1>1. /\ join[e] # 0 /\ thread[join[e]] = "ended"
      /\ thread' = [thread EXCEPT ![join[e]] = "joined"] /\ join' = [join EXCEPT ![e] = 0]
      /\ UNCHANGED <<refs, attached, enabled, running, stop, worker, flaws>>
  BY DEF JoinReturn
<1>2. join[e] = worker /\ call[e] \in Joining \ {"last_join"} /\ worker \in Workers /\ enabled = {}
  BY <1>1, Sizes DEF LifeInv, Purpose, LifeTypes
<1>3. ~running
  BY <1>1, <1>2 DEF LifeInv, Threads, Active
<1>4. PICK s \in {"stopped", "detach"} : call' = [call EXCEPT ![e] = s]
  BY <1>2 DEF JoinReturn, Joining
<1>5. /\ call' \in [Endpoints -> CallStates] /\ call'[e] = s
      /\ \A f \in Endpoints \ {e} : call'[f] = call[f]
  BY <1>4, CallMoves DEF CallStates
<1>6. /\ thread' \in [Workers -> ThreadStates] /\ thread'[worker] = "joined"
      /\ \A v \in Workers \ {worker} : thread'[v] = thread[v]
  BY <1>1, <1>2 DEF LifeInv, LifeTypes, ThreadStates
<1>7. \A f \in Endpoints : call'[f] \in Busy => f = e
  BY <1>2, <1>5 DEF LifeInv, OneBusy, Busy
<1>8. \A f \in Endpoints : call'[f] \notin Joining \cup {"last", "free"}
  BY <1>4, <1>5, <1>7 DEF Busy, Joining
<1>9. Lists'
  <2>1. attached' = {f \in Endpoints : call'[f] \in Attached}
    BY <1>1, <1>2, <1>5 DEF LifeInv, Lists, Attached, Joining
  <2>2. enabled' = {f \in Endpoints : call'[f] = "playing"}
    BY <1>1, <1>2, <1>5 DEF LifeInv, Lists, Joining
  <2>3. Holders' = Holders
    BY <1>1, <1>2, <1>5 DEF Holders, Attached, Joining
  <2> QED BY <1>1, <2>1, <2>2, <2>3 DEF LifeInv, Lists
<1>10. \A f \in Endpoints : join'[f] = 0
  <2>1. \A f \in Endpoints : join[f] # 0 => f = e
    BY <1>2 DEF LifeInv, Purpose, OneBusy, Busy
  <2> QED BY <1>1, <2>1 DEF LifeInv, LifeTypes
<1>11. LifeTypes' /\ OneBusy' /\ flaws' = {}
  <2>1. join' \in [Endpoints -> 0 .. MaxWorkers]
    BY <1>1, Sizes DEF LifeInv, LifeTypes
  <2> QED BY <1>1, <1>5, <1>6, <1>7, <2>1 DEF LifeInv, LifeTypes, OneBusy
<1>12. Threads'
  BY <1>1, <1>2, <1>3, <1>6 DEF LifeInv, Threads, Active
<1>13. Purpose'
  BY <1>1, <1>2, <1>3, <1>8, <1>10 DEF Purpose
<1> QED BY <1>9, <1>11, <1>12, <1>13 DEF LifeInv

LEMMA DetachKeeps ==
    ASSUME LifeInv, NEW e \in Endpoints, Detach(e) \/ Release(e) PROVE LifeInv'
<1>1. /\ call[e] \in {"detach", "release"} /\ attached' = attached \ {e}
      /\ UNCHANGED <<enabled, running, stop, worker, thread, join, flaws>>
  BY DEF Detach, Release, LifeInv, Lists, Attached
<1>2. PICK s \in {"release", "last", "closed"} :
         /\ call' = [call EXCEPT ![e] = s]
         /\ s = "release" => Detach(e)
         /\ s # "release" => Release(e) /\ (s = "last" <=> refs = 1)
  BY DEF Detach, Release
<1>3. /\ call' \in [Endpoints -> CallStates] /\ call'[e] = s
      /\ \A f \in Endpoints \ {e} : call'[f] = call[f]
  BY <1>2, CallMoves DEF CallStates
<1>4. e \in Holders /\ IsFiniteSet(Holders) /\ refs = Cardinality(Holders)
  BY <1>1, AttachedCount DEF LifeInv, Lists, Holders, Attached
<1>5. refs' = Cardinality(Holders') /\ (s = "last" => Holders' = {})
  <2>1. CASE s = "release"
    <3>1. Holders' = Holders
      BY <1>1, <1>3, <2>1 DEF Holders, Attached
    <3> QED BY <1>2, <1>4, <2>1, <3>1 DEF Detach
  <2>2. CASE s # "release"
    <3>1. Holders' = Holders \ {e}
      BY <1>1, <1>2, <1>3, <2>2 DEF Holders, Attached
    <3>2. Cardinality(Holders') = refs - 1 /\ IsFiniteSet(Holders')
      BY <1>4, <3>1, FS_RemoveElement
    <3>3. s = "last" => Holders' = {}
      BY <1>2, <2>2, <3>2, FS_EmptySet
    <3>4. refs' = refs - 1
      BY <1>2, <2>2 DEF Release
    <3> QED BY <3>2, <3>3, <3>4
  <2> QED BY <2>1, <2>2
<1>6. Lists'
  <2>1. attached' = {f \in Endpoints : call'[f] \in Attached}
    BY <1>1, <1>2, <1>3 DEF LifeInv, Lists, Attached
  <2>2. enabled' = {f \in Endpoints : call'[f] = "playing"}
    BY <1>1, <1>2, <1>3 DEF LifeInv, Lists
  <2> QED BY <1>1, <1>5, <2>1, <2>2 DEF Lists
<1>7. \A f \in Endpoints : call'[f] \in Busy => f = e
  BY <1>1, <1>3 DEF LifeInv, OneBusy, Busy
<1>8. ~SomeJoins /\ ~SomeJoins' /\ \A f \in Endpoints : call'[f] \notin Joining
  BY <1>1, <1>2, <1>3, <1>7 DEF SomeJoins, LifeInv, OneBusy, Busy, Joining
<1>9. LifeTypes' /\ OneBusy' /\ flaws' = {}
  BY <1>1, <1>3, <1>7 DEF LifeInv, LifeTypes, OneBusy
<1>10. Threads'
  BY <1>1, <1>8 DEF LifeInv, Threads
<1>11. Purpose'
  <2>1. s = "last" => attached' = {}
    BY <1>5, <1>6 DEF Lists, Holders
  <2>2. \A f \in Endpoints : call'[f] \in {"last", "free"} => attached' = {}
    BY <1>2, <1>3, <1>7, <2>1 DEF Busy
  <2>3. \A f \in Endpoints : join'[f] = 0
    BY <1>1, <1>8 DEF LifeInv, Purpose, SomeJoins
  <2> QED BY <1>1, <1>8, <2>2, <2>3 DEF LifeInv, Purpose
<1> QED BY <1>6, <1>9, <1>10, <1>11 DEF LifeInv

LEMMA ReleaseKeeps ==
    ASSUME LifeInv, NEW e \in Endpoints, ReleaseLast(e) \/ Free(e) PROVE LifeInv'
<1>1. /\ call[e] \in {"last", "free"} /\ UNCHANGED <<refs, attached, enabled, running, worker,
                                                     thread, join>>
  BY DEF ReleaseLast, Free
<1>2. attached = {}
  BY <1>1 DEF LifeInv, Purpose
<1>3. /\ \A f \in Endpoints : call[f] \notin Attached
      /\ enabled = {} /\ ~SomeJoins
  BY <1>2 DEF LifeInv, Lists, Attached, SomeJoins, Joining, Purpose
<1>4. ~running
  BY <1>3 DEF LifeInv, Purpose
<1>5. \A w \in Workers : thread[w] \notin Active
  BY <1>4 DEF LifeInv, Threads
<1>6. flaws' = {}
  <2>1. \A w \in Workers : thread[w] \in {"none", "ended", "joined"}
    BY <1>5 DEF LifeInv, LifeTypes, ThreadStates
  <2> QED BY <2>1 DEF ReleaseLast, Free, LifeInv
<1>7. PICK s \in {"free", "closed"} : call' = [call EXCEPT ![e] = s]
  BY <1>4 DEF ReleaseLast, Free
<1>8. /\ call' \in [Endpoints -> CallStates] /\ call'[e] = s
      /\ \A f \in Endpoints \ {e} : call'[f] = call[f]
  BY <1>7, CallMoves DEF CallStates
<1>9. Lists'
  BY <1>1, <1>3, <1>7, <1>8 DEF LifeInv, Lists, Holders, Attached
<1>10. ~SomeJoins' /\ \A f \in Endpoints : call'[f] \notin Joining
  BY <1>3, <1>7, <1>8 DEF SomeJoins, Joining
<1>11. \A f \in Endpoints : call'[f] \in Busy => f = e
  BY <1>1, <1>8 DEF LifeInv, OneBusy, Busy
<1>12. stop' \in BOOLEAN
  BY DEF ReleaseLast, Free, LifeInv, LifeTypes
<1>13. LifeTypes' /\ OneBusy'
  BY <1>1, <1>8, <1>11, <1>12 DEF LifeInv, LifeTypes, OneBusy
<1>14. Threads'
  BY <1>1, <1>3, <1>4, <1>5, <1>10 DEF LifeInv, Threads, Active
<1>15. Purpose'
  <2>1. \A f \in Endpoints : join'[f] = 0
    BY <1>1, <1>3 DEF LifeInv, Purpose, SomeJoins
  <2> QED BY <1>1, <1>2, <1>3, <1>4, <1>10, <2>1 DEF Purpose
<1> QED BY <1>6, <1>9, <1>13, <1>14, <1>15 DEF LifeInv

LEMMA ExitKeeps ==
    ASSUME LifeInv, NEW w \in Workers, Exit(w) PROVE LifeInv'
<1>1. /\ thread[w] = "exit" /\ running' = FALSE /\ thread' = [thread EXCEPT ![w] = "ended"]
      /\ UNCHANGED <<call, refs, attached, enabled, stop, worker, join, flaws>>
  BY DEF Exit, Ended, Goto
<1>2. w = worker /\ running /\ stop
  BY <1>1 DEF LifeInv, Threads, Active
<1>3. enabled = {} /\ SomeJoins /\ worker # 0
  BY <1>2 DEF LifeInv, Purpose, Threads
<1>4. /\ thread' \in [Workers -> ThreadStates] /\ thread'[w] = "ended"
      /\ \A v \in Workers \ {w} : thread'[v] = thread[v]
  BY <1>1 DEF LifeInv, LifeTypes, ThreadStates
<1>5. SomeJoins'
  BY <1>1, <1>3 DEF SomeJoins
<1>6. LifeTypes' /\ Lists' /\ OneBusy' /\ flaws' = {}
  BY <1>1, <1>4 DEF LifeInv, LifeTypes, Lists, Holders, OneBusy
<1>7. Threads'
  BY <1>1, <1>2, <1>4, <1>5 DEF LifeInv, Threads, Active
<1>8. Purpose'
  BY <1>1, <1>2, <1>3, <1>4, <1>5 DEF LifeInv, Purpose
<1> QED BY <1>6, <1>7, <1>8 DEF LifeInv

LEMMA LifeInit == Init => LifeInv
<1> SUFFICES ASSUME Init PROVE LifeInv
  OBVIOUS
<1>1. /\ \A e \in Endpoints : call[e] = "closed" /\ join[e] = 0
      /\ \A w \in Workers : thread[w] = "none"
  BY DEF Init
<1>2. LifeTypes /\ flaws = {}
  <2>1. 0 \in 0 .. MaxWorkers
    BY Sizes
  <2>2. /\ call = [e \in Endpoints |-> "closed"] /\ thread = [w \in Workers |-> "none"]
        /\ join = [e \in Endpoints |-> 0] /\ worker = 0 /\ running = FALSE /\ stop = FALSE
        /\ flaws = {}
    BY DEF Init
  <2> QED BY <2>1, <2>2 DEF LifeTypes, CallStates, ThreadStates
<1>3. Lists
  <2>1. refs = Cardinality({}) /\ attached = {}
    BY FS_EmptySet DEF Init
  <2>2. Holders = {}
    BY <1>1 DEF Holders, Attached
  <2> QED BY <1>1, <2>1, <2>2 DEF Init, Lists, Attached
<1>4. OneBusy /\ Threads /\ Purpose
  BY <1>1 DEF Init, OneBusy, Threads, Purpose, Busy, Joining, Active
<1> QED BY <1>2, <1>3, <1>4 DEF LifeInv

(* The worker's steps in the words of the lemmas above *)
LEMMA WorkMoves ==
    ASSUME LifeInv, NEW w \in Workers, Work(w), ~Exit(w)
    PROVE  /\ UNCHANGED lifeVars /\ thread[w] \in Active
           /\ \E l \in Active : /\ thread' = [thread EXCEPT ![w] = l] /\ (l = "exit" => stop)
<1>0. thread \in [Workers -> ThreadStates]
  BY DEF LifeInv, LifeTypes
<1>1. thread = [thread EXCEPT ![w] = thread[w]]
  BY <1>0
<1>2. CASE Top(w)
  BY <1>2 DEF Top, Goto, Active, lifeVars, data
<1>3. CASE Connect(w) \/ ConnectFails(w)
  BY <1>3 DEF Connect, ConnectFails, Retry, Goto, Active, lifeVars
<1>4. CASE Wake(w)
  BY <1>4 DEF Wake, Goto, Active, lifeVars
<1>5. CASE NextPeriod(w)
  BY <1>1, <1>5 DEF NextPeriod, Goto, Active, lifeVars
<1>6. CASE CopySamples(w) \/ CheckCopy(w)
  BY <1>6 DEF CopySamples, CheckCopy, Goto, Active, lifeVars
<1>7. ASSUME NEW e \in Rx, Receive(w, e)
      PROVE  /\ UNCHANGED lifeVars /\ thread[w] \in Active
             /\ \E l \in Active : /\ thread' = [thread EXCEPT ![w] = l] /\ (l = "exit" => stop)
  BY <1>1, <1>7 DEF Receive, Goto, Active, lifeVars
<1>8. ASSUME NEW e \in Tx, Transmit(w, e)
      PROVE  /\ UNCHANGED lifeVars /\ thread[w] \in Active
             /\ \E l \in Active : /\ thread' = [thread EXCEPT ![w] = l] /\ (l = "exit" => stop)
  BY <1>1, <1>8 DEF Transmit, life, Active, lifeVars
<1> QED BY <1>2, <1>3, <1>4, <1>5, <1>6, <1>7, <1>8 DEF Work

LEMMA LifeStep ==
    ASSUME SamePipeline PROVE LifeInv /\ [Next]_vars => LifeInv'
<1> SUFFICES ASSUME LifeInv, [Next]_vars PROVE LifeInv'
  OBVIOUS
<1>1. CASE UNCHANGED vars
  BY <1>1, LifeSame DEF vars, lifeVars
<1>2. ASSUME NEW e \in Endpoints, Calls(e) PROVE LifeInv'
  BY <1>2, OpenKeeps, StartKeeps, StopKeeps, JoinCallKeeps, JoinReturnKeeps, DetachKeeps,
     ReleaseKeeps DEF Calls
<1>3. ASSUME NEW w \in Workers, Work(w) PROVE LifeInv'
  BY <1>3, ExitKeeps, WorkMoves, WorkKeeps
<1>4. ASSUME NEW e, Read(e) \/ Write(e) PROVE LifeInv'
  BY <1>4, LifeSame DEF Read, Write, life, lifeVars
<1>5. CASE Provide
  BY <1>5, LifeSame DEF Provide, Fill, Publish, ResetBegin, ResetEnd, life, lifeVars
<1> QED BY <1>1, <1>2, <1>3, <1>4, <1>5 DEF Next

-----------------------------------------------------------------------------
(* Remainders.                                                              *)

LEMMA DivisionFact ==
    ASSUME NEW m \in Nat \ {0}, NEW a \in Int
    PROVE  /\ a = m * (a \div m) + (a % m)
           /\ (a \div m) \in Int
           /\ (a % m) \in 0..(m - 1)
OBVIOUS

LEMMA SmallMultiple ==
    ASSUME NEW m \in Nat \ {0}, NEW q \in Int, -m < m * q, m * q < m
    PROVE  q = 0
<1>1. ASSUME q >= 1 PROVE FALSE
  <2>1. m * q >= m * 1
    BY <1>1
  <2> QED BY <2>1
<1>2. ASSUME q <= -1 PROVE FALSE
  <2>1. m * q <= m * (-1)
    BY <1>2
  <2> QED BY <2>1
<1> QED BY <1>1, <1>2

(* The remainder is the only one of its size. *)
LEMMA RemainderIs ==
    ASSUME NEW m \in Nat \ {0}, NEW a \in Int, NEW k \in Int, NEW c \in 0 .. m - 1,
           a = m * k + c
    PROVE  a % m = c
<1>1. PICK d \in Int, b \in 0 .. m - 1 : a = m * d + b /\ b = a % m
  BY DivisionFact
<1>2. m * (d - k) = m * d - m * k /\ m * d \in Int /\ m * k \in Int /\ d - k \in Int
  OBVIOUS
<1>3. m * (d - k) = c - b
  <2>1. \A x, y, z \in Int : x + b = z /\ z = y + c => x - y = c - b
    BY <1>1
  <2>2. m * d - m * k = c - b
    BY <1>1, <1>2, <2>1
  <2> QED BY <1>2, <2>2
<1>4. -m < c - b /\ c - b < m
  BY <1>1
<1>5. d - k = 0
  BY <1>2, <1>3, <1>4, SmallMultiple
<1>6. c - b = 0
  BY <1>3, <1>5
<1>7. c \in Int /\ b \in Int
  BY <1>1
<1>8. c = b
  BY ONLY <1>6, <1>7
<1> QED BY ONLY <1>1, <1>8

(* Numbers with one remainder are equal, or apart by at least a round. *)
LEMMA SameRemainder ==
    ASSUME NEW m \in Nat \ {0}, NEW a \in Int, NEW b \in Int, a % m = b % m,
           -m < a - b, a - b < m
    PROVE  a = b
<1>1. PICK d \in Int : a = m * d + (a % m)
  BY DivisionFact
<1>2. PICK k \in Int : b = m * k + (b % m)
  BY DivisionFact
<1>3. (a % m) \in Int /\ m * d \in Int /\ m * k \in Int /\ d - k \in Int
      /\ m * (d - k) = m * d - m * k
  BY DivisionFact
<1>4. a - b = m * (d - k)
  BY <1>1, <1>2, <1>3
<1>5. d - k = 0
  BY <1>3, <1>4, SmallMultiple
<1> QED BY <1>4, <1>5

(* Place i of a queue, counted from the one read next *)
Place(r, i) == IF r + i < QueuePeriods THEN r + i ELSE r + i - QueuePeriods

LEMMA SlotIs ==
    ASSUME NEW r \in Places, NEW i \in 0 .. QueuePeriods
    PROVE  (r + i) % QueuePeriods = Place(r, i) /\ Place(r, i) \in Places
<1>1. QueuePeriods \in Nat \ {0}
  BY Sizes
<1>2. Place(r, i) \in Places
  <2>1. r \in 0 .. QueuePeriods - 1 /\ i \in 0 .. QueuePeriods
    BY DEF Places
  <2>2. Place(r, i) \in 0 .. QueuePeriods - 1
    BY <1>1, <2>1 DEF Place
  <2> QED BY <2>2 DEF Places
<1>3. CASE r + i < QueuePeriods
  <2>1. r + i = QueuePeriods * 0 + Place(r, i) /\ r + i \in Int
    BY <1>1, <1>3 DEF Place, Places
  <2>2. Place(r, i) \in 0 .. QueuePeriods - 1
    BY <1>2 DEF Places
  <2> QED BY <1>1, <1>2, <2>1, <2>2, RemainderIs
<1>4. CASE ~(r + i < QueuePeriods)
  <2>1. r + i = QueuePeriods * 1 + Place(r, i) /\ r + i \in Int
    BY <1>1, <1>4 DEF Place, Places
  <2>2. Place(r, i) \in 0 .. QueuePeriods - 1
    BY <1>2 DEF Places
  <2> QED BY <1>1, <1>2, <2>1, <2>2, RemainderIs
<1> QED BY <1>2, <1>3, <1>4

-----------------------------------------------------------------------------
(* The types of the data.                                                   *)

LEMMA BlankType == Blank \in SlotType /\ Blank.kept = FALSE /\ Blank.gen = 0 /\ Blank.n = -1
BY DEF Blank, SlotType

LEMMA TornType ==
    ASSUME NEW x \in SlotType
    PROVE  /\ Torn(x) \in SlotType /\ Torn(x).kept = FALSE
BY DEF Torn, SlotType

LEMMA EmptyType == Empty \in QueueType /\ Empty.used = 0
<1>1. 0 \in Places /\ 0 \in 0 .. QueuePeriods
  BY Sizes DEF Places
<1>2. [i \in Places |-> Blank] \in [Places -> SlotType]
  BY BlankType
<1> QED BY <1>1, <1>2 DEF Empty, QueueType, Places

CxtType == [up : BOOLEAN, serial : Nat, next : Nat, cur : Nat]

LEMMA NotConnType == NotConn \in CxtType /\ ~NotConn.up
BY DEF NotConn, CxtType

LEMMA EmptiedType == ASSUME DataTypes PROVE Emptied \in [Endpoints -> QueueType]
BY EmptyType DEF DataTypes, Emptied

LEMMA DropType ==
    ASSUME NEW q \in QueueType, q.used > 0
    PROVE  /\ FifoDrop(q, 1) \in QueueType /\ FifoDrop(q, 1).used = q.used - 1
           /\ FifoDrop(q, 1).slots = q.slots /\ FifoDrop(q, 1).read = Place(q.read, 1)
           /\ Place(q.read, 1) = (q.read + 1) % QueuePeriods
<1>1. q.read \in Places /\ q.used \in 0 .. QueuePeriods /\ q.slots \in [Places -> SlotType]
  BY DEF QueueType
<1>2. 1 \in 0 .. QueuePeriods
  BY Sizes
<1>3. Slot(q, 1) = Place(q.read, 1) /\ Place(q.read, 1) \in Places
  BY <1>1, <1>2, SlotIs DEF Slot
<1>4. q.used - 1 \in 0 .. QueuePeriods
  BY <1>1, Sizes
<1> QED BY <1>1, <1>3, <1>4 DEF FifoDrop, QueueType, Slot

(* One queue, or none, changes. *)
LEMMA QueueMoves ==
    ASSUME DataTypes, NEW e \in Endpoints, NEW q \in QueueType, queue' = [queue EXCEPT ![e] = q]
    PROVE  /\ queue' \in [Endpoints -> QueueType] /\ queue'[e] = q
           /\ \A f \in Endpoints \ {e} : queue'[f] = queue[f]
BY DEF DataTypes

(* Nobody enters or leaves the loop over the periods, or moves in it, or   *)
(* begins to wait.                                                         *)
SameLoop == \A w \in Workers :
    /\ thread'[w] \in Looping \/ thread[w] \in Looping => thread'[w] = thread[w]
    /\ thread'[w] = "wait" => thread[w] = "wait"

(* Steps that leave the data alone *)
StillCall(e) ==
    Start(e) \/ Stop(e) \/ Close(e) \/ JoinCall(e) \/ JoinReturn(e) \/ Release(e)
    \/ ReleaseLast(e)

LEMMA StillCalls ==
    ASSUME LifeInv, NEW e \in Endpoints, StillCall(e)
    PROVE  UNCHANGED <<data, prov>> /\ SameLoop
<1>0. thread \in [Workers -> ThreadStates]
  BY DEF LifeInv, LifeTypes
<1>1. CASE Start(e)
  <2>1. UNCHANGED thread \/ \E w \in Workers : /\ thread[w] = "none"
                                              /\ thread' = [thread EXCEPT ![w] = "top"]
    BY <1>1 DEF Start
  <2> QED BY <1>0, <1>1, <2>1 DEF Start, SameLoop, Looping
<1>2. CASE Stop(e) \/ Close(e) \/ JoinCall(e) \/ Release(e) \/ ReleaseLast(e)
  BY <1>2 DEF Stop, Close, JoinCall, Release, ReleaseLast, SameLoop
<1>3. CASE JoinReturn(e)
  <2>1. thread[join[e]] = "ended" /\ thread' = [thread EXCEPT ![join[e]] = "joined"]
    BY <1>3 DEF JoinReturn
  <2> QED BY <1>0, <1>3, <2>1 DEF JoinReturn, SameLoop, Looping
<1> QED BY <1>1, <1>2, <1>3 DEF StillCall

LEMMA DataSame ==
    ASSUME DataInv, UNCHANGED <<data, prov>>, SameLoop PROVE DataInv'
<1>1. \A w \in Workers : thread'[w] \in {"copy", "check"} => thread'[w] = thread[w]
  BY DEF SameLoop, Looping
<1>2. UNCHANGED <<cxt, todo, queue, copy, got, ring, provider>>
  BY DEF data, prov
<1>3. DataTypes'
  BY <1>2 DEF DataInv, DataTypes
<1>4. Copying'
  BY <1>1, <1>2 DEF DataInv, Copying, InCopy
<1> QED BY <1>3, <1>4 DEF DataInv

(* One worker at most is in the loop. *)
LEMMA OnlyWorker ==
    ASSUME LifeInv, NEW w \in Workers, thread[w] \in Active, NEW l \in ThreadStates,
           thread' = [thread EXCEPT ![w] = l]
    PROVE  /\ thread'[w] = l /\ \A v \in Workers \ {w} : thread'[v] \notin Active
           /\ \A v \in Workers \ {w} : thread[v] \notin Active
BY DEF LifeInv, LifeTypes, Threads

LEMMA NotCopying ==
    ASSUME \A w \in Workers : thread'[w] \notin {"copy", "check"} PROVE Copying'
BY DEF Copying, InCopy

Connects(w) == Connect(w) \/ ConnectFails(w)

LEMMA ConnectData ==
    ASSUME LifeInv, DataInv, NEW w \in Workers, Connects(w) \/ Wake(w) \/ Exit(w) \/ Top(w)
    PROVE  /\ DataInv' /\ UNCHANGED <<todo, copy, got, ring, provider>>
           /\ thread[w] \in Active \ Looping /\ \A v \in Workers \ {w} : thread'[v] \notin Active
           /\ thread'[w] \notin {"copy", "check"} /\ thread' = [thread EXCEPT ![w] = thread'[w]]
<1>0. DataTypes /\ provider.count \in Nat /\ provider.serial \in Nat /\ cxt \in CxtType
  BY DEF DataInv, DataTypes, CxtType
<1>1. PICK l \in ThreadStates \ {"copy", "check"} : thread' = [thread EXCEPT ![w] = l]
  BY DEF Connects, Connect, ConnectFails, Wake, Exit, Top, Retry, Goto, ThreadStates, Active
<1>2. thread[w] \in Active \ Looping
  BY DEF Connects, Connect, ConnectFails, Wake, Exit, Top, Active, Looping
<1>3. thread'[w] = l /\ \A v \in Workers \ {w} : thread'[v] \notin Active
  BY <1>1, <1>2, OnlyWorker
<1>4. \A v \in Workers : thread'[v] \notin {"copy", "check"}
  BY <1>3 DEF Active
<1>5. Copying'
  BY <1>4, NotCopying
<1>6. UNCHANGED <<todo, copy, got, ring, provider>>
  BY DEF Connects, Connect, ConnectFails, Wake, Exit, Top, data, prov
<1>7. queue' \in [Endpoints -> QueueType]
  <2>1. queue' = queue \/ queue' = Emptied
    BY DEF Connects, Connect, ConnectFails, Wake, Exit, Top, data, Disconnect
  <2> QED BY <1>0, <2>1, EmptiedType DEF DataTypes
<1>8. cxt' \in CxtType
  <2>1. CASE Connects(w)
    <3>1. [up |-> TRUE, serial |-> provider.serial, next |-> provider.count, cur |-> 0] \in CxtType
      BY <1>0 DEF CxtType
    <3> QED BY <1>0, <2>1, <3>1, NotConnType DEF Connects, Connect, ConnectFails, Disconnect
  <2>2. CASE Wake(w)
    <3>1. Skipped \in Nat
      <4>1. cxt.next \in Nat
        BY <1>0 DEF CxtType
      <4> QED BY <1>0, <4>1, Sizes DEF Skipped
    <3>2. [cxt EXCEPT !.next = Skipped, !.cur = provider.count] \in CxtType
      BY <1>0, <3>1, Zenon DEF CxtType
    <3> QED BY <1>0, <2>2, <3>2, NotConnType DEF Wake, Disconnect
  <2>3. CASE Exit(w) \/ Top(w)
    BY <1>0, <2>3, NotConnType DEF Exit, Top, Disconnect, data
  <2> QED BY <2>1, <2>2, <2>3
<1>9. DataTypes'
  BY <1>0, <1>6, <1>7, <1>8 DEF DataTypes, CxtType
<1> QED BY <1>1, <1>2, <1>3, <1>4, <1>5, <1>6, <1>9 DEF DataInv

LEMMA OpenData ==
    ASSUME LifeInv, DataInv, NEW e \in Endpoints, Open(e) \/ Detach(e) \/ Free(e)
    PROVE  DataInv' /\ LockFree /\ UNCHANGED thread
<1>0. DataTypes /\ cxt \in CxtType
  BY DEF DataInv, DataTypes, CxtType
<1>1. LockFree /\ UNCHANGED <<thread, todo, copy, ring, provider>>
  <2>1. CASE Open(e) \/ Detach(e)
    BY <2>1 DEF Open, Detach, prov
  <2>2. CASE Free(e)
    <3>1. attached = {}
      BY <2>2 DEF Free, LifeInv, Purpose
    <3>2. ~running
      BY <3>1 DEF LifeInv, Purpose, Lists, Attached, SomeJoins, Joining
    <3>3. LockFree
      BY <3>2 DEF LifeInv, Threads, LockFree, Active, Looping
    <3> QED BY <2>2, <3>3 DEF Free, prov
  <2> QED BY <2>1, <2>2
<1>2. Copying'
  BY <1>1, NotCopying DEF LockFree, Looping
<1>3. queue' \in [Endpoints -> QueueType]
  BY <1>0, EmptyType DEF Open, Detach, Free, DataTypes
<1>4. cxt' \in CxtType
  BY <1>0, NotConnType DEF Open, Detach, Free
<1>5. got' \in [Rx -> SlotType]
  BY <1>0, BlankType DEF Open, Detach, Free, DataTypes
<1>6. DataTypes'
  BY <1>0, <1>1, <1>3, <1>4, <1>5 DEF DataTypes, CxtType
<1> QED BY <1>1, <1>2, <1>6 DEF DataInv

LEMMA NextPeriodData ==
    ASSUME LifeInv, DataInv, NEW w \in Workers, NextPeriod(w)
    PROVE  DataInv'
<1>0. DataTypes /\ cxt \in CxtType /\ thread[w] = "periods" /\ cxt.next \in Nat
  BY DEF DataInv, DataTypes, CxtType, NextPeriod
<1>1. PICK l \in {"periods", "top"} : thread' = [thread EXCEPT ![w] = l]
  BY <1>0 DEF NextPeriod, Goto, LifeInv, LifeTypes
<1>2. thread'[w] = l /\ \A v \in Workers \ {w} : thread'[v] \notin Active
  BY <1>0, <1>1, OnlyWorker DEF Active, ThreadStates
<1>3. Copying'
  BY <1>2, NotCopying DEF Active
<1>4. cxt' \in CxtType
  <2>1. [cxt EXCEPT !.next = @ + 1] \in CxtType
    BY <1>0 DEF CxtType
  <2> QED BY <1>0, <2>1 DEF NextPeriod
<1>5. todo' \subseteq Endpoints
  BY <1>0 DEF NextPeriod, DataTypes, LifeInv, Lists
<1>6. DataTypes'
  BY <1>0, <1>4, <1>5 DEF NextPeriod, DataTypes, CxtType, prov
<1> QED BY <1>3, <1>6 DEF DataInv

LEMMA ReceiveData ==
    ASSUME LifeInv, DataInv, NEW w \in Workers, NEW e \in Rx, Receive(w, e)
    PROVE  DataInv'
<1>0. /\ DataTypes /\ thread[w] = "periods" /\ e \in todo /\ e \in Endpoints
      /\ queue[e] \in QueueType /\ UNCHANGED <<cxt, ring, provider, got>>
  BY Sizes DEF DataInv, DataTypes, Receive, prov
<1>1. CASE ~InRing
  <2>1. UNCHANGED <<thread, copy, queue>> /\ todo' = todo \ {e}
    BY <1>1 DEF Receive
  <2>2. \A v \in Workers : thread'[v] \notin {"copy", "check"}
    BY <1>0, <2>1 DEF LifeInv, Threads, Active
  <2>3. DataTypes'
    BY <1>0, <2>1 DEF DataTypes
  <2> QED BY <2>2, <2>3, NotCopying DEF DataInv
<1>2. CASE InRing
  <2> DEFINE q == queue[e]
  <2>1. /\ thread' = [thread EXCEPT ![w] = "copy"] /\ todo' = todo
        /\ copy' = [read |-> q.read, used |-> q.used, e |-> e]
        /\ queue' = [queue EXCEPT ![e] = Room(q)]
    BY <1>2 DEF Receive, Goto
  <2>2. thread'[w] = "copy" /\ \A v \in Workers \ {w} : thread'[v] \notin Active
    BY <1>0, <2>1, OnlyWorker DEF Active, ThreadStates
  <2>3. q.read \in Places /\ q.used \in 0 .. QueuePeriods
    BY <1>0 DEF QueueType
  <2>4. /\ copy' \in CopyType /\ copy'.e = e /\ copy'.read = q.read /\ copy'.used = q.used
    BY <2>1, <2>3 DEF CopyType
  <2>5. /\ Room(q) \in QueueType
        /\ Room(q).used = IF q.used = QueuePeriods THEN QueuePeriods - 1 ELSE q.used
        /\ Room(q).read = IF q.used = QueuePeriods THEN (q.read + 1) % QueuePeriods ELSE q.read
    <3>1. q.used = QueuePeriods => q.used > 0
      BY Sizes
    <3> QED BY <1>0, <3>1, DropType DEF Room
  <2> HIDE DEF q
  <2>6. /\ queue' \in [Endpoints -> QueueType] /\ queue'[e] = Room(q)
    BY <1>0, <2>1, <2>5, QueueMoves
  <2>7. DataTypes'
    BY <1>0, <2>1, <2>6 DEF DataTypes
  <2>8. Copying'
    <3>1. /\ copy' \in CopyType /\ (copy.e \in todo)'
      BY <1>0, <2>1, <2>4
    <3>2. \A v \in Workers : thread'[v] # "check"
      BY <2>2 DEF Active
    <3> QED BY <2>4, <2>5, <2>6, <3>1, <3>2 DEF Copying
  <2> QED BY <2>7, <2>8 DEF DataInv
<1> QED BY <1>1, <1>2

LEMMA CopyData ==
    ASSUME LifeInv, DataInv, NEW w \in Workers, CopySamples(w)
    PROVE  /\ DataInv' /\ thread'[w] = "check" /\ copy.e \in Rx
           /\ \A v \in Workers \ {w} : thread'[v] \notin Active
           /\ LET q == queue[copy.e] IN
              /\ q.used \in 0 .. QueuePeriods - 1 /\ q \in QueueType
              /\ queue'[copy.e].read = q.read /\ queue'[copy.e].used = q.used + 1
              /\ queue'[copy.e].slots =
                    [q.slots EXCEPT ![Place(q.read, q.used)] = ring[(cxt.next - 1) % RingPeriods]]
           /\ \A f \in Endpoints \ {copy.e} : queue'[f] = queue[f]
<1>0. /\ DataTypes /\ thread[w] = "copy" /\ UNCHANGED <<cxt, todo, copy, ring, provider, got>>
      /\ thread' = [thread EXCEPT ![w] = "check"]
  BY DEF DataInv, CopySamples, prov, Goto
<1>1. thread'[w] = "check" /\ \A v \in Workers \ {w} : thread'[v] \notin Active
  BY <1>0, OnlyWorker DEF Active, ThreadStates
<1> DEFINE e == copy.e
           q == queue[e]
           x == ring[(cxt.next - 1) % RingPeriods]
           r == [slots |-> [q.slots EXCEPT ![Slot(q, q.used)] = x], read |-> q.read,
                 used |-> q.used + 1]
           m == IF copy.used = QueuePeriods THEN QueuePeriods - 1 ELSE copy.used
<1>2. /\ copy \in CopyType /\ e \in todo /\ q.used = m
      /\ q.read = IF copy.used = QueuePeriods
                  THEN (copy.read + 1) % QueuePeriods ELSE copy.read
  BY <1>0 DEF DataInv, Copying, InCopy
<1>3. e \in Rx /\ e \in Endpoints /\ copy.used \in 0 .. QueuePeriods /\ q \in QueueType
  BY <1>0, <1>2, Sizes DEF CopyType, DataTypes
<1>4. q.used \in 0 .. QueuePeriods - 1 /\ q.used + 1 \in 0 .. QueuePeriods
  BY <1>2, <1>3, Sizes
<1>5. x \in SlotType
  <2>1. cxt.next - 1 \in Int
    BY <1>0 DEF DataTypes
  <2>2. (cxt.next - 1) % RingPeriods \in 0 .. RingPeriods - 1
    BY <2>1, DivisionFact, Sizes
  <2> QED BY <1>0, <2>2 DEF DataTypes
<1>6. Slot(q, q.used) = Place(q.read, q.used) /\ Place(q.read, q.used) \in Places
  <2>1. q.read \in Places /\ q.used \in 0 .. QueuePeriods
    BY <1>3 DEF QueueType
  <2> QED BY <2>1, SlotIs DEF Slot
<1>7. r \in QueueType /\ queue' = [queue EXCEPT ![e] = r]
  <2>1. queue' = [queue EXCEPT ![e] = r]
    BY DEF CopySamples
  <2>2. [q.slots EXCEPT ![Slot(q, q.used)] = x] \in [Places -> SlotType]
    BY <1>3, <1>5, <1>6 DEF QueueType
  <2>3. q.read \in Places
    BY <1>3 DEF QueueType
  <2> HIDE DEF q, x
  <2> QED BY <1>4, <2>1, <2>2, <2>3 DEF QueueType
<1>8. r.used = q.used + 1 /\ r.read = q.read
      /\ r.slots = [q.slots EXCEPT ![Place(q.read, q.used)] = x]
  BY <1>6
<1> HIDE DEF r, q, x
<1>9. /\ queue' \in [Endpoints -> QueueType] /\ queue'[e] = r
      /\ \A f \in Endpoints \ {e} : queue'[f] = queue[f]
  BY <1>0, <1>3, <1>7, QueueMoves
<1>10. DataTypes'
  BY <1>0, <1>9 DEF DataTypes
<1>11. Copying'
  <2>1. \A v \in Workers : thread'[v] # "copy"
    BY <1>1 DEF Active
  <2> QED BY <1>0, <1>2, <1>8, <1>9, <2>1 DEF Copying
<1> QED BY <1>1, <1>3, <1>4, <1>8, <1>9, <1>10, <1>11 DEF DataInv, q, x

(* After the copy: the period stays, or the copy is undone. *)
LEMMA CheckData ==
    ASSUME LifeInv, DataInv, NEW w \in Workers, CheckCopy(w)
    PROVE  /\ DataInv' /\ thread'[w] = "periods" /\ copy \in CopyType /\ copy.e \in todo
           /\ \A v \in Workers \ {w} : thread'[v] \notin Active
           /\ LET q == queue[copy.e] IN
              /\ q.used \in 1 .. QueuePeriods /\ q \in QueueType
              /\ Slot(q, q.used - 1) = Place(q.read, q.used - 1)
              /\ q.read = IF copy.used = QueuePeriods THEN Place(copy.read, 1) ELSE copy.read
              /\ q.used = IF copy.used = QueuePeriods THEN QueuePeriods ELSE copy.used + 1
              /\ queue'[copy.e] = IF InRing THEN q ELSE Undone(q)
           /\ \A f \in Endpoints \ {copy.e} : queue'[f] = queue[f]
<1>0. /\ DataTypes /\ thread[w] = "check" /\ UNCHANGED <<cxt, ring, provider, got>>
      /\ todo' = todo \ {copy.e} /\ thread' = [thread EXCEPT ![w] = "periods"]
  BY DEF DataInv, CheckCopy, prov, Goto
<1>1. thread'[w] = "periods" /\ \A v \in Workers \ {w} : thread'[v] \notin Active
  BY <1>0, OnlyWorker DEF Active, ThreadStates
<1> DEFINE e == copy.e
           q == queue[e]
           m == IF copy.used = QueuePeriods THEN QueuePeriods - 1 ELSE copy.used
           r == IF InRing THEN q ELSE Undone(q)
<1>2. /\ copy \in CopyType /\ e \in todo /\ q.used = m + 1
      /\ q.read = IF copy.used = QueuePeriods
                  THEN (copy.read + 1) % QueuePeriods ELSE copy.read
  BY <1>0 DEF DataInv, Copying, InCopy
<1>3. /\ e \in Endpoints /\ copy.used \in 0 .. QueuePeriods /\ copy.read \in Places
      /\ q \in QueueType
  BY <1>0, <1>2, Sizes DEF CopyType, DataTypes
<1>4. /\ q.used \in 1 .. QueuePeriods /\ q.used - 1 \in 0 .. QueuePeriods
      /\ q.used = IF copy.used = QueuePeriods THEN QueuePeriods ELSE copy.used + 1
  BY <1>2, <1>3, Sizes
<1>5. Slot(q, q.used - 1) = Place(q.read, q.used - 1) /\ Place(q.read, q.used - 1) \in Places
  <2>1. q.read \in Places
    BY <1>3 DEF QueueType
  <2> QED BY <1>4, <2>1, SlotIs DEF Slot
<1>6. q.read = IF copy.used = QueuePeriods THEN Place(copy.read, 1) ELSE copy.read
  <2>1. 1 \in 0 .. QueuePeriods
    BY Sizes
  <2>2. (copy.read + 1) % QueuePeriods = Place(copy.read, 1)
    BY <1>3, <2>1, SlotIs
  <2> QED BY <1>2, <2>2
<1>7. Undone(q) \in QueueType
  <2> DEFINE k == Slot(q, q.used - 1)
             y == [q.slots[k] EXCEPT !.kept = FALSE]
  <2>1. q.slots \in [Places -> SlotType] /\ k \in Places
    BY <1>3, <1>5 DEF QueueType
  <2>2. y \in SlotType
    BY <2>1 DEF SlotType
  <2>3. [q.slots EXCEPT ![k] = y] \in [Places -> SlotType]
    BY <2>1, <2>2
  <2>4. Undone(q) = [slots |-> [q.slots EXCEPT ![k] = y], read |-> copy.read, used |-> copy.used]
    BY DEF Undone
  <2> HIDE DEF k, y, q
  <2> QED BY <1>3, <2>3, <2>4 DEF QueueType
<1>8. r \in QueueType
  BY <1>3, <1>7
<1>9. queue' = [queue EXCEPT ![e] = r]
  <2>1. CASE InRing
    <3>1. queue' = queue /\ queue = [queue EXCEPT ![e] = queue[e]]
      BY <1>0, <2>1 DEF CheckCopy, DataTypes
    <3> QED BY <2>1, <3>1
  <2>2. CASE ~InRing
    BY <2>2 DEF CheckCopy
  <2> QED BY <2>1, <2>2
<1> HIDE DEF r, q
<1>10. /\ queue' \in [Endpoints -> QueueType] /\ queue'[e] = r
       /\ \A f \in Endpoints \ {e} : queue'[f] = queue[f]
  BY <1>0, <1>3, <1>8, <1>9, QueueMoves
<1>11. DataTypes'
  BY <1>0, <1>10 DEF DataTypes
<1>12. Copying'
  BY <1>1, NotCopying DEF Active
<1> QED BY <1>1, <1>2, <1>3, <1>4, <1>5, <1>6, <1>10, <1>11, <1>12 DEF DataInv, q, r

LEMMA TransmitData ==
    ASSUME LifeInv, DataInv, NEW w \in Workers, NEW e \in Tx, Transmit(w, e)
    PROVE  DataInv' /\ (\A f \in Rx : queue'[f] = queue[f]) /\ thread[w] = "periods"
<1>0. /\ DataTypes /\ thread[w] = "periods" /\ e \in Endpoints /\ queue[e] \in QueueType
      /\ UNCHANGED <<thread, cxt, copy, ring, provider, got>> /\ todo' = todo \ {e}
  BY Sizes DEF DataInv, DataTypes, Transmit, prov, life
<1> DEFINE u == IF queue[e].used > 0 THEN queue[e].used - 1 ELSE 0
<1>1. queue' = [queue EXCEPT ![e] = [queue[e] EXCEPT !.used = u]]
  BY DEF Transmit
<1>2. u \in 0 .. QueuePeriods
  BY <1>0, Sizes DEF QueueType
<1>3. [queue[e] EXCEPT !.used = u] \in QueueType
  BY <1>0, <1>2 DEF QueueType
<1>4. /\ queue' \in [Endpoints -> QueueType]
      /\ \A f \in Endpoints \ {e} : queue'[f] = queue[f]
  BY <1>0, <1>1, <1>3, QueueMoves
<1>5. DataTypes'
  BY <1>0, <1>4 DEF DataTypes
<1>6. \A v \in Workers : thread'[v] \notin {"copy", "check"}
  BY <1>0 DEF LifeInv, Threads, Active
<1>7. Copying'
  BY <1>6, NotCopying
<1>8. \A f \in Rx : f \in Endpoints \ {e}
  BY Sizes
<1> QED BY <1>0, <1>4, <1>5, <1>7, <1>8 DEF DataInv

(* process() of an element, which waits for a copy to end *)
LEMMA CopyElsewhere ==
    ASSUME DataInv, NEW e \in Endpoints, EndpointFree(e), UNCHANGED <<thread, copy, todo>>,
           \A f \in Endpoints \ {e} : queue'[f] = queue[f]
    PROVE  Copying'
<1>1. InCopy' => InCopy /\ copy.e # e
  BY DEF InCopy, EndpointFree
<1>2. InCopy => copy.e \in Endpoints
  BY Sizes DEF DataInv, DataTypes, Copying
<1>3. InCopy' => queue'[copy'.e] = queue[copy.e]
  BY <1>1, <1>2
<1> QED BY <1>1, <1>3 DEF DataInv, Copying

LEMMA ReadData ==
    ASSUME LifeInv, DataInv, NEW e \in Rx, Read(e)
    PROVE  /\ DataInv'
           /\ LET q == queue[e] IN
              /\ q \in QueueType /\ q.used > 0
              /\ queue'[e].slots = [q.slots EXCEPT ![q.read] = Blank]
              /\ queue'[e].read = Place(q.read, 1) /\ queue'[e].used = q.used - 1
           /\ \A f \in Endpoints \ {e} : queue'[f] = queue[f]
           /\ got' = [got EXCEPT ![e] = IF queue[e].slots[queue[e].read].kept
                                        THEN queue[e].slots[queue[e].read] ELSE got[e]]
<1> DEFINE q == queue[e]
           x == q.slots[q.read]
           p == [q EXCEPT !.slots = [q.slots EXCEPT ![q.read] = Blank]]
<1>0. /\ DataTypes /\ e \in Endpoints /\ q \in QueueType /\ q.used > 0
      /\ UNCHANGED <<thread, cxt, todo, copy, ring, provider>> /\ EndpointFree(e)
      /\ got' = [got EXCEPT ![e] = IF x.kept THEN x ELSE got[e]]
      /\ queue' = [queue EXCEPT ![e] = FifoDrop(p, 1)]
  BY Sizes DEF DataInv, DataTypes, Read, prov, life
<1>1. q.slots \in [Places -> SlotType] /\ q.read \in Places
  BY <1>0 DEF QueueType
<1>2. [q.slots EXCEPT ![q.read] = Blank] \in [Places -> SlotType] /\ x \in SlotType
  BY <1>1, BlankType
<1>3. /\ p \in QueueType /\ p.used = q.used /\ p.read = q.read
      /\ p.slots = [q.slots EXCEPT ![q.read] = Blank]
  <2> HIDE DEF q
  <2> QED BY <1>0, <1>2 DEF QueueType
<1> HIDE DEF p, q
<1>4. /\ FifoDrop(p, 1) \in QueueType /\ FifoDrop(p, 1).used = q.used - 1
      /\ FifoDrop(p, 1).slots = [q.slots EXCEPT ![q.read] = Blank]
      /\ FifoDrop(p, 1).read = Place(q.read, 1)
  BY <1>0, <1>3, DropType
<1>5. /\ queue' \in [Endpoints -> QueueType] /\ queue'[e] = FifoDrop(p, 1)
      /\ \A f \in Endpoints \ {e} : queue'[f] = queue[f]
  BY <1>0, <1>4, QueueMoves
<1>6. Copying'
  BY <1>0, <1>5, CopyElsewhere
<1>7. got' \in [Rx -> SlotType]
  BY <1>0, <1>2 DEF DataTypes
<1>8. DataTypes'
  BY <1>0, <1>5, <1>7 DEF DataTypes
<1> QED BY <1>0, <1>4, <1>5, <1>6, <1>8 DEF DataInv, q

LEMMA WriteData ==
    ASSUME LifeInv, DataInv, NEW e \in Tx, Write(e)
    PROVE  DataInv' /\ (\A f \in Rx : queue'[f] = queue[f])
<1>0. /\ DataTypes /\ e \in Endpoints /\ queue[e] \in QueueType /\ EndpointFree(e)
      /\ UNCHANGED <<thread, cxt, copy, todo, ring, provider, got>>
  BY Sizes DEF DataInv, DataTypes, Write, prov, life
<1> DEFINE u == IF queue[e].used = QueuePeriods THEN queue[e].used ELSE queue[e].used + 1
<1>1. queue' = [queue EXCEPT ![e] = [queue[e] EXCEPT !.used = u]]
  BY DEF Write
<1>2. u \in 0 .. QueuePeriods
  BY <1>0, Sizes DEF QueueType
<1>3. [queue[e] EXCEPT !.used = u] \in QueueType
  BY <1>0, <1>2 DEF QueueType
<1>4. /\ queue' \in [Endpoints -> QueueType]
      /\ \A f \in Endpoints \ {e} : queue'[f] = queue[f]
  BY <1>0, <1>1, <1>3, QueueMoves
<1>5. DataTypes'
  BY <1>0, <1>4 DEF DataTypes
<1>6. Copying'
  BY <1>0, <1>4, CopyElsewhere
<1>8. \A f \in Rx : f \in Endpoints \ {e}
  BY Sizes
<1> QED BY <1>4, <1>5, <1>6, <1>8 DEF DataInv

LEMMA ProviderData ==
    ASSUME DataInv, Provide
    PROVE  DataInv' /\ UNCHANGED <<thread, cxt, todo, queue, copy, got>>
<1>0. DataTypes /\ UNCHANGED <<thread, cxt, todo, queue, copy, got>>
  BY DEF DataInv, Provide, Fill, Publish, ResetBegin, ResetEnd, data, life
<1> DEFINE P == [serial : Nat, count : Nat, filling : BOOLEAN]
           k == provider.count % RingPeriods
<1>1. provider \in P /\ provider.count \in Nat /\ provider.serial \in Nat
  BY <1>0 DEF DataTypes
<1>2. k \in 0 .. RingPeriods - 1 /\ ring \in [0 .. RingPeriods - 1 -> SlotType]
  <2>1. provider.count \in Int /\ RingPeriods \in Nat \ {0}
    BY <1>1, Sizes
  <2>2. k \in 0 .. RingPeriods - 1
    BY <2>1, DivisionFact
  <2> QED BY <1>0, <2>2 DEF DataTypes
<1>3. provider' \in P
  <2>1. CASE Fill
    BY <1>1, <2>1 DEF Fill
  <2>2. CASE Publish
    <3>1. provider.count + 1 \in Nat
      BY <1>1
    <3>2. [provider EXCEPT !.filling = FALSE, !.count = @ + 1] \in P
      BY <1>1, <3>1, Zenon
    <3> QED BY <2>2, <3>2 DEF Publish
  <2>3. CASE ResetBegin
    BY <1>1, <2>3 DEF ResetBegin
  <2>4. CASE ResetEnd
    <3>1. provider.serial + 1 \in Nat /\ 0 \in Nat
      BY <1>1
    <3>2. [provider EXCEPT !.serial = @ + 1, !.count = 0] \in P
      BY <1>1, <3>1, Zenon
    <3> QED BY <2>4, <3>2 DEF ResetEnd
  <2> QED BY <2>1, <2>2, <2>3, <2>4 DEF Provide
<1>4. ring' \in [0 .. RingPeriods - 1 -> SlotType]
  <2>1. \A x \in SlotType : Torn(x) \in SlotType
    BY TornType
  <2>2. Period(provider.serial \div 2, provider.count) \in SlotType
    <3>1. provider.serial \div 2 \in Int
      BY <1>1
    <3> QED BY <1>1, <3>1 DEF Period, SlotType
  <2>3. CASE Fill
    BY <1>2, <2>1, <2>3 DEF Fill
  <2>4. CASE Publish
    BY <1>2, <2>2, <2>4 DEF Publish
  <2>5. CASE ResetBegin
    BY <1>2, <2>5 DEF ResetBegin
  <2>6. CASE ResetEnd
    BY <1>2, <2>1, <2>6 DEF ResetEnd
  <2> QED BY <2>3, <2>4, <2>5, <2>6 DEF Provide
<1>5. DataTypes'
  BY <1>0, <1>3, <1>4 DEF DataTypes
<1>6. Copying'
  <2>1. InCopy' = InCopy
    BY <1>0 DEF InCopy
  <2> QED BY <1>0, <2>1 DEF DataInv, Copying
<1> QED BY <1>0, <1>5, <1>6 DEF DataInv

LEMMA DataInit == Init => DataInv
<1> SUFFICES ASSUME Init PROVE DataInv
  OBVIOUS
<1>1. DataTypes
  <2>1. queue \in [Endpoints -> QueueType] /\ got \in [Rx -> SlotType]
    BY EmptyType, BlankType DEF Init
  <2>2. ring \in [0 .. RingPeriods - 1 -> SlotType]
    BY BlankType DEF Init
  <2>3. /\ cxt \in CxtType /\ todo = {}
        /\ provider = [serial |-> 0, count |-> 0, filling |-> FALSE]
    BY NotConnType DEF Init
  <2>4. provider \in [serial : Nat, count : Nat, filling : BOOLEAN]
    BY <2>3
  <2> QED BY <2>1, <2>2, <2>3, <2>4 DEF DataTypes, CxtType
<1>2. Copying
  BY DEF Init, Copying, InCopy
<1> QED BY <1>1, <1>2 DEF DataInv

LEMMA DataStep == LifeInv /\ DataInv /\ [Next]_vars => DataInv'
<1> SUFFICES ASSUME LifeInv, DataInv, [Next]_vars PROVE DataInv'
  OBVIOUS
<1>1. CASE UNCHANGED vars
  <2>1. UNCHANGED <<data, prov>> /\ SameLoop
    BY <1>1 DEF vars, data, prov, SameLoop
  <2> QED BY <2>1, DataSame
<1>2. ASSUME NEW e \in Endpoints, Calls(e) PROVE DataInv'
  <2>1. StillCall(e) \/ Open(e) \/ Detach(e) \/ Free(e)
    BY <1>2 DEF Calls, StillCall
  <2> QED BY <2>1, StillCalls, DataSame, OpenData
<1>3. ASSUME NEW w \in Workers, Work(w) PROVE DataInv'
  BY <1>3, ConnectData, NextPeriodData, CopyData, CheckData, ReceiveData, TransmitData
  DEF Work, Connects
<1>4. ASSUME NEW e \in Rx, Read(e) PROVE DataInv'
  BY <1>4, ReadData
<1>5. ASSUME NEW e \in Tx, Write(e) PROVE DataInv'
  BY <1>5, WriteData
<1>6. CASE Provide
  BY <1>6, ProviderData
<1> QED BY <1>1, <1>2, <1>3, <1>4, <1>5, <1>6 DEF Next

(***************************************************************************)
(* The elements of one pipeline that share a context agree on its worker:  *)
(* no thread is joined twice or outlives the context, no element plays     *)
(* without a worker, and the lists, the counters and the queues keep their *)
(* bounds (dep_endpoint_start, dep_endpoint_stop, dep_context_release).    *)
(***************************************************************************)
THEOREM WorkerIsShared == ASSUME SamePipeline PROVE Spec => []WorkerShared
<1>1. Init => LifeInv /\ DataInv
  BY LifeInit, DataInit
<1>2. LifeInv /\ DataInv /\ [Next]_vars => (LifeInv /\ DataInv)'
  BY LifeStep, DataStep
<1>3. LifeInv /\ DataInv => WorkerShared
  <2> SUFFICES ASSUME LifeInv, DataInv PROVE WorkerShared
    OBVIOUS
  <2>1. \A e \in Endpoints : queue[e].used \in 0 .. QueuePeriods
    <3>1. \A q \in QueueType : q.used \in 0 .. QueuePeriods
      BY DEF QueueType
    <3> QED BY <3>1 DEF DataInv, DataTypes
  <2>2. refs \in 0 .. Cardinality(Endpoints)
    BY AttachedCount DEF LifeInv
  <2>3. enabled \subseteq attached /\ attached \subseteq Endpoints /\ worker \in 0 .. MaxWorkers
    BY DEF LifeInv, LifeTypes, Lists, Attached
  <2>4. NoOrphan /\ WorkerJoinedOnce
    BY DEF LifeInv, Purpose, NoOrphan, WorkerJoinedOnce
  <2> QED BY <2>1, <2>2, <2>3, <2>4 DEF WorkerShared, TypeOK
<1> QED BY <1>1, <1>2, <1>3, PTL DEF Spec

-----------------------------------------------------------------------------
(* The order of the periods of one queue.                                   *)

(* Item i of a queue, counted from the one read next *)
Item(q, i) == q.slots[Place(q.read, i)]

(* The kept periods of a queue ascend from the one that was read last;    *)
(* they are old ones, but for the last when it is being copied.            *)
InTurn(q, g, old, new, fresh) ==
    /\ g \in old
    /\ \A i \in 0 .. q.used - 1 : Item(q, i).kept =>
          /\ Item(q, i) \in IF fresh /\ i = q.used - 1 THEN new ELSE old
          /\ Before(g, Item(q, i))
          /\ \A j \in 0 .. i - 1 : Item(q, j).kept => Before(Item(q, j), Item(q, i))

LEMMA PlaceType ==
    ASSUME NEW r \in Places, NEW i \in 0 .. QueuePeriods PROVE Place(r, i) \in Places
BY SlotIs

LEMMA PlaceNext ==
    ASSUME NEW r \in Places, NEW i \in 0 .. QueuePeriods - 1
    PROVE  Place(Place(r, 1), i) = Place(r, i + 1) /\ Place(r, 0) = r
<1>1. QueuePeriods \in Nat \ {0} /\ r \in 0 .. QueuePeriods - 1
  BY Sizes DEF Places
<1>2. CASE r + 1 < QueuePeriods
  <2>1. Place(r, 1) = r + 1
    BY <1>2 DEF Place
  <2> QED BY <1>1, <2>1 DEF Place
<1>3. CASE ~(r + 1 < QueuePeriods)
  <2>1. r = QueuePeriods - 1 /\ Place(r, 1) = 0
    BY <1>1, <1>3 DEF Place
  <2> QED BY <1>1, <2>1 DEF Place
<1> QED BY <1>2, <1>3

LEMMA PlaceOnce ==
    ASSUME NEW r \in Places, NEW i \in 0 .. QueuePeriods - 1, NEW j \in 0 .. QueuePeriods - 1,
           Place(r, i) = Place(r, j)
    PROVE  i = j
<1>1. QueuePeriods \in Nat \ {0} /\ r \in 0 .. QueuePeriods - 1
  BY Sizes DEF Places
<1> QED BY <1>1 DEF Place

LEMMA TurnEmpty ==
    ASSUME NEW q, NEW g, NEW old, NEW new, NEW f \in BOOLEAN, q.used = 0, g \in old
    PROVE  InTurn(q, g, old, new, f)
<1>1. 0 .. q.used - 1 = {}
  OBVIOUS
<1> QED BY <1>1 DEF InTurn

LEMMA TurnMore ==
    ASSUME NEW q, NEW g, NEW old, NEW new, NEW f \in BOOLEAN, NEW old2, NEW new2,
           InTurn(q, g, old, new, f), old \subseteq old2, f => new \subseteq new2
    PROVE  InTurn(q, g, old2, new2, f)
BY DEF InTurn

(* The item that was new is an old one now. *)
LEMMA TurnKeep ==
    ASSUME NEW q, NEW g, NEW old, NEW new, NEW old2, NEW new2, InTurn(q, g, old, new, TRUE),
           old \subseteq old2, new \subseteq old2
    PROVE  InTurn(q, g, old2, new2, FALSE)
BY DEF InTurn

(* The oldest item leaves; it may have been read. *)
LEMMA TurnDrop ==
    ASSUME NEW q \in QueueType, NEW p \in QueueType, NEW g, NEW h, NEW old, NEW new,
           InTurn(q, g, old, new, FALSE), q.used > 0, p.used = q.used - 1,
           p.read = Place(q.read, 1),
           \A i \in 1 .. q.used - 1 : p.slots[Place(q.read, i)] = q.slots[Place(q.read, i)],
           h = IF Item(q, 0).kept THEN Item(q, 0) ELSE g
    PROVE  InTurn(p, g, old, new, FALSE) /\ InTurn(p, h, old, new, FALSE)
<1>1. /\ q.used \in 0 .. QueuePeriods /\ q.read \in Places /\ q.used - 1 \in Nat
      /\ QueuePeriods \in Nat \ {0} /\ q.used \in Nat
  BY Sizes DEF QueueType
<1>2. \A i \in 0 .. p.used - 1 : i + 1 \in 0 .. q.used - 1 /\ Item(p, i) = Item(q, i + 1)
  <2> TAKE i \in 0 .. p.used - 1
  <2>1. i + 1 \in 1 .. q.used - 1 /\ i \in 0 .. QueuePeriods - 1 /\ i + 1 \in 0 .. q.used - 1
    BY <1>1
  <2>2. Place(p.read, i) = Place(q.read, i + 1)
    BY <1>1, <2>1, PlaceNext
  <2> QED BY <2>1, <2>2 DEF Item
<1>3. \A i \in 0 .. p.used - 1 : \A j \in 0 .. i - 1 :
          j \in 0 .. p.used - 1 /\ j + 1 \in 0 .. (i + 1) - 1
  BY <1>1
<1>4. \A i \in 0 .. p.used - 1 : 0 \in 0 .. (i + 1) - 1 /\ 0 \in 0 .. q.used - 1
  BY <1>1
<1>5. g \in old /\ h \in old
  <2>1. 0 \in 0 .. q.used - 1
    BY <1>1
  <2> QED BY <2>1 DEF InTurn
<1>6. \A i \in 0 .. p.used - 1 : Item(p, i).kept =>
         /\ Item(p, i) \in old /\ Before(g, Item(p, i)) /\ Before(h, Item(p, i))
         /\ \A j \in 0 .. i - 1 : Item(p, j).kept => Before(Item(p, j), Item(p, i))
  <2> SUFFICES ASSUME NEW i \in 0 .. p.used - 1, Item(p, i).kept
               PROVE  /\ Item(p, i) \in old /\ Before(g, Item(p, i)) /\ Before(h, Item(p, i))
                      /\ \A j \in 0 .. i - 1 : Item(p, j).kept => Before(Item(p, j), Item(p, i))
    OBVIOUS
  <2>1. i + 1 \in 0 .. q.used - 1 /\ Item(p, i) = Item(q, i + 1)
    BY <1>2
  <2>2. /\ Item(p, i) \in old /\ Before(g, Item(p, i))
        /\ \A j \in 0 .. (i + 1) - 1 : Item(q, j).kept => Before(Item(q, j), Item(p, i))
    BY <2>1 DEF InTurn
  <2>3. Before(h, Item(p, i))
    BY <1>4, <2>2
  <2>4. \A j \in 0 .. i - 1 : Item(p, j).kept => Before(Item(p, j), Item(p, i))
    BY <1>2, <1>3, <2>2
  <2> QED BY <2>2, <2>3, <2>4
<1> QED BY <1>5, <1>6 DEF InTurn

(* One more is copied in, behind all that are there. *)
LEMMA TurnCopy ==
    ASSUME NEW q \in QueueType, NEW p \in QueueType, NEW g, NEW x, NEW old, NEW new, NEW past,
           InTurn(q, g, old, new, FALSE), InTurn(q, g, past, new, FALSE),
           q.used \in 0 .. QueuePeriods - 1, p.used = q.used + 1, p.read = q.read,
           p.slots = [q.slots EXCEPT ![Place(q.read, q.used)] = x],
           x.kept => x \in new /\ \A y \in past : Before(y, x)
    PROVE  InTurn(p, g, old, new, TRUE)
<1>1. /\ q.used \in 0 .. QueuePeriods - 1 /\ q.read \in Places /\ q.slots \in [Places -> SlotType]
      /\ QueuePeriods \in Nat \ {0} /\ q.used \in Nat
  BY Sizes DEF QueueType
<1>2. \A i \in 0 .. q.used - 1 : Item(p, i) = Item(q, i)
  <2> TAKE i \in 0 .. q.used - 1
  <2>1. i \in 0 .. QueuePeriods - 1 /\ i # q.used /\ i \in 0 .. QueuePeriods
        /\ q.used \in 0 .. QueuePeriods
    BY <1>1
  <2>2. Place(q.read, i) # Place(q.read, q.used) /\ Place(q.read, i) \in Places
    BY <1>1, <2>1, PlaceOnce, PlaceType
  <2> QED BY <1>1, <2>2 DEF Item
<1>3. Item(p, q.used) = x
  <2>1. q.used \in 0 .. QueuePeriods
    BY <1>1
  <2>2. Place(q.read, q.used) \in Places
    BY <1>1, <2>1, PlaceType
  <2> QED BY <1>1, <2>2 DEF Item
<1>4. g \in old /\ g \in past
  BY DEF InTurn
<1>5. \A i \in 0 .. p.used - 1 : Item(p, i).kept =>
         /\ Item(p, i) \in IF TRUE /\ i = p.used - 1 THEN new ELSE old
         /\ Before(g, Item(p, i))
         /\ \A j \in 0 .. i - 1 : Item(p, j).kept => Before(Item(p, j), Item(p, i))
  <2> SUFFICES ASSUME NEW i \in 0 .. p.used - 1, Item(p, i).kept
               PROVE  /\ Item(p, i) \in IF TRUE /\ i = p.used - 1 THEN new ELSE old
                      /\ Before(g, Item(p, i))
                      /\ \A j \in 0 .. i - 1 : Item(p, j).kept => Before(Item(p, j), Item(p, i))
    OBVIOUS
  <2>1. CASE i = q.used
    <3>1. /\ Item(p, i) = x /\ x \in new /\ \A y \in past : Before(y, x)
      BY <1>3, <2>1
    <3>2. \A j \in 0 .. i - 1 : Item(q, j).kept => Item(q, j) \in past
      BY <2>1 DEF InTurn
    <3>3. i = p.used - 1
      BY <1>1, <2>1
    <3> QED BY <1>2, <1>4, <2>1, <3>1, <3>2, <3>3
  <2>2. CASE i # q.used
    <3>1. i \in 0 .. q.used - 1 /\ i # p.used - 1 /\ \A j \in 0 .. i - 1 : j \in 0 .. q.used - 1
      BY <1>1, <2>2
    <3>2. Item(p, i) = Item(q, i) /\ \A j \in 0 .. i - 1 : Item(p, j) = Item(q, j)
      BY <1>2, <3>1
    <3> QED BY <3>1, <3>2 DEF InTurn
  <2> QED BY <2>1, <2>2
<1> QED BY <1>4, <1>5 DEF InTurn

(* A copy is undone: behind the others, or where the oldest item was. *)
LEMMA TurnUndo ==
    ASSUME NEW q \in QueueType, NEW p \in QueueType, NEW g, NEW x, NEW old, NEW new,
           InTurn(q, g, old, new, TRUE), q.used > 0,
           p.slots = [q.slots EXCEPT ![Place(q.read, q.used - 1)] = x], ~x.kept,
           \/ p.read = q.read /\ p.used = q.used - 1
           \/ q.read = Place(p.read, 1) /\ p.used = QueuePeriods /\ q.used = QueuePeriods
    PROVE  InTurn(p, g, old, new, FALSE)
<1>1. /\ q.used \in 0 .. QueuePeriods /\ q.read \in Places /\ q.slots \in [Places -> SlotType]
      /\ QueuePeriods \in Nat \ {0} /\ q.used \in Nat /\ p.read \in Places
      /\ q.used - 1 \in 0 .. QueuePeriods - 1
  BY Sizes DEF QueueType
<1>2. g \in old
  BY DEF InTurn
<1>3. \A i \in 0 .. q.used - 2 : p.slots[Place(q.read, i)] = Item(q, i)
  <2> TAKE i \in 0 .. q.used - 2
  <2>1. i \in 0 .. QueuePeriods - 1 /\ i # q.used - 1 /\ i \in 0 .. QueuePeriods
    BY <1>1
  <2>2. Place(q.read, i) # Place(q.read, q.used - 1) /\ Place(q.read, i) \in Places
    BY <1>1, <2>1, PlaceOnce, PlaceType
  <2> QED BY <1>1, <2>2 DEF Item
<1>4. CASE p.read = q.read /\ p.used = q.used - 1
  <2>1. \A i \in 0 .. p.used - 1 : /\ i \in 0 .. q.used - 2 /\ i \in 0 .. q.used - 1 /\ i # q.used - 1
                                   /\ \A j \in 0 .. i - 1 : j \in 0 .. q.used - 2
    BY <1>1, <1>4
  <2>2. \A i \in 0 .. p.used - 1 : /\ Item(p, i) = Item(q, i)
                                   /\ \A j \in 0 .. i - 1 : Item(p, j) = Item(q, j)
    BY <1>3, <1>4, <2>1 DEF Item
  <2>3. \A i \in 0 .. p.used - 1 : Item(p, i).kept =>
           /\ Item(p, i) \in old /\ Before(g, Item(p, i))
           /\ \A j \in 0 .. i - 1 : Item(p, j).kept => Before(Item(p, j), Item(p, i))
    BY <2>1, <2>2 DEF InTurn
  <2> QED BY <1>2, <2>3 DEF InTurn
<1>5. CASE q.read = Place(p.read, 1) /\ p.used = QueuePeriods /\ q.used = QueuePeriods
  <2>1. Place(q.read, q.used - 1) = p.read
    <3>1. p.read \in 0 .. QueuePeriods - 1
      BY <1>1 DEF Places
    <3>2. Place(p.read, 1) = IF p.read + 1 < QueuePeriods THEN p.read + 1
                             ELSE p.read + 1 - QueuePeriods
      BY DEF Place
    <3>3. Place(q.read, q.used - 1) = IF q.read + (q.used - 1) < QueuePeriods THEN q.read + (q.used - 1)
                                      ELSE q.read + (q.used - 1) - QueuePeriods
      BY DEF Place
    <3> QED BY <1>1, <1>5, <3>1, <3>2, <3>3
  <2>2. ~Item(p, 0).kept
    <3>1. Place(p.read, 0) = p.read
      BY <1>1, PlaceNext
    <3> QED BY <1>1, <2>1, <3>1 DEF Item
  <2>3. \A i \in 1 .. p.used - 1 : /\ i - 1 \in 0 .. q.used - 2 /\ i - 1 \in 0 .. q.used - 1
                                   /\ i - 1 # q.used - 1 /\ Item(p, i) = Item(q, i - 1)
    <3> TAKE i \in 1 .. p.used - 1
    <3>1. /\ i - 1 \in 0 .. q.used - 2 /\ i - 1 \in 0 .. q.used - 1 /\ i - 1 # q.used - 1
          /\ i - 1 \in 0 .. QueuePeriods - 1 /\ (i - 1) + 1 = i
      BY <1>1, <1>5
    <3>2. Place(q.read, i - 1) = Place(p.read, i)
      <4>1. Place(Place(p.read, 1), i - 1) = Place(p.read, (i - 1) + 1)
        BY <1>1, <3>1, PlaceNext
      <4> QED BY <1>5, <3>1, <4>1
    <3> QED BY <1>3, <3>1, <3>2 DEF Item
  <2>4. \A i \in 0 .. p.used - 1 : i = 0 \/ i \in 1 .. p.used - 1
    BY <1>1, <1>5
  <2>5. \A i \in 1 .. p.used - 1 : \A j \in 0 .. i - 1 :
           j = 0 \/ (j \in 1 .. p.used - 1 /\ j - 1 \in 0 .. (i - 1) - 1)
    BY <1>1, <1>5
  <2>6. \A i \in 0 .. p.used - 1 : Item(p, i).kept =>
           /\ Item(p, i) \in old /\ Before(g, Item(p, i))
           /\ \A j \in 0 .. i - 1 : Item(p, j).kept => Before(Item(p, j), Item(p, i))
    <3> SUFFICES ASSUME NEW i \in 0 .. p.used - 1, Item(p, i).kept
                 PROVE  /\ Item(p, i) \in old /\ Before(g, Item(p, i))
                        /\ \A j \in 0 .. i - 1 : Item(p, j).kept => Before(Item(p, j), Item(p, i))
      OBVIOUS
    <3>1. i \in 1 .. p.used - 1
      BY <2>2, <2>4
    <3>2. /\ i - 1 \in 0 .. q.used - 1 /\ i - 1 # q.used - 1 /\ Item(p, i) = Item(q, i - 1)
      BY <2>3, <3>1
    <3>3. /\ Item(p, i) \in old /\ Before(g, Item(p, i))
          /\ \A j \in 0 .. (i - 1) - 1 : Item(q, j).kept => Before(Item(q, j), Item(p, i))
      BY <3>2 DEF InTurn
    <3> QED BY <2>2, <2>3, <2>5, <3>1, <3>3
  <2> QED BY <1>2, <2>6 DEF InTurn
<1> QED BY <1>4, <1>5

-----------------------------------------------------------------------------
(* The order of the periods.                                                *)

Gen == provider.serial \div 2

(* The whole slots of the provider's ring are its last periods. *)
RingRight ==
    \A i \in 0 .. RingPeriods - 1 : ring[i].kept =>
        /\ ring[i].gen = Gen /\ ring[i].n \in Nat /\ ring[i].n % RingPeriods = i
        /\ ring[i].n < provider.count /\ provider.count - RingPeriods <= ring[i].n
        /\ provider.filling => ring[i].n # provider.count - RingPeriods

IsPublished(x) == x.gen < Gen \/ (x.gen = Gen /\ x.n < provider.count)

(* Below this period the endpoint has been served. *)
Served(e) == IF e \in todo THEN cxt.next - 1 ELSE cxt.next

(* What may have been taken over for an endpoint up to now *)
Past(e) == {x \in SlotType : IsPublished(x) /\ (cxt.up /\ x.gen = Gen => x.n < Served(e))}

(* What a copy may bring before it is checked: of the slot of the period   *)
(* only the place in the ring is known.                                    *)
Copied == {x \in SlotType :
              /\ IsPublished(x)
              /\ x.gen = Gen => x.n % RingPeriods = (cxt.next - 1) % RingPeriods}

Older == {x \in SlotType : x.gen < Gen}

Checking(e) == \E w \in Workers : thread[w] = "check" /\ copy.e = e

(* The worker serves endpoints only in its loop, and is connected there. *)
LoopInv ==
    /\ todo # {} => ~LockFree /\ cxt.next >= 1
    /\ \A w \in Workers : thread[w] \in Looping \cup {"wait"} => cxt.up

(* When a copy was begun its period was in the ring, or the provider has   *)
(* been reset since.                                                       *)
Begun ==
    (\E w \in Workers : thread[w] = "copy") =>
        \/ provider.count >= cxt.next
        \/ InTurn(queue[copy.e], got[copy.e], Older, Older, FALSE)

Turns == \A e \in Rx : InTurn(queue[e], got[e], Past(e), Copied, Checking(e))

OrderInv == RingRight /\ LoopInv /\ Begun /\ Turns

LEMMA Numbers ==
    ASSUME DataInv
    PROVE  /\ provider.serial \in Nat /\ provider.count \in Nat /\ Gen \in Nat
           /\ cxt.next \in Nat /\ cxt.up \in BOOLEAN
           /\ \A e : Served(e) \in Int
<1>1. provider.serial \in Nat /\ provider.count \in Nat /\ cxt.next \in Nat /\ cxt.up \in BOOLEAN
  BY DEF DataInv, DataTypes
<1>2. \A k \in Nat : k \div 2 \in Nat
  OBVIOUS
<1>3. Gen \in Nat
  BY <1>1, <1>2 DEF Gen
<1>4. \A e : Served(e) \in Int
  BY <1>1 DEF Served
<1> QED BY <1>1, <1>3, <1>4

LEMMA SlotNumbers == \A x \in SlotType : x.gen \in Int /\ x.n \in Int /\ x.kept \in BOOLEAN
BY DEF SlotType

LEMMA CheckingType == \A e : Checking(e) \in BOOLEAN /\ Checking(e)' \in BOOLEAN
BY DEF Checking

(* No data changes that a receiving endpoint sees. *)
LEMMA FrameOrder ==
    ASSUME DataInv, OrderInv, SameLoop, UNCHANGED <<cxt, copy, got, ring, provider>>,
           \A e \in Rx : queue'[e] = queue[e] /\ (e \in todo' <=> e \in todo),
           todo' # {} => todo # {}
    PROVE  OrderInv'
<1>1. Gen' = Gen /\ RingRight' /\ Copied' = Copied /\ Older' = Older
  <2>1. Gen' = Gen
    BY DEF Gen
  <2> QED BY <2>1 DEF OrderInv, RingRight, Copied, IsPublished, Older
<1>2. \A e \in Rx : Past(e)' = Past(e)
  BY <1>1 DEF Past, IsPublished, Served
<1>3. \A e : Checking(e)' = Checking(e)
  BY DEF Checking, SameLoop, Looping
<1>4. LoopInv'
  <2>1. LockFree' = LockFree
    BY DEF LockFree, SameLoop
  <2> QED BY <2>1 DEF OrderInv, LoopInv, SameLoop
<1>5. Begun'
  <2> SUFFICES ASSUME NEW w \in Workers, thread'[w] = "copy"
               PROVE  \/ (provider.count >= cxt.next)'
                      \/ InTurn(queue'[copy'.e], got'[copy'.e], Older', Older', FALSE)
    BY DEF Begun
  <2>1. thread[w] = "copy"
    BY DEF SameLoop, Looping
  <2>2. copy.e \in Rx
    BY <2>1 DEF DataInv, Copying, InCopy, CopyType
  <2>3. provider.count >= cxt.next \/ InTurn(queue[copy.e], got[copy.e], Older, Older, FALSE)
    BY <2>1 DEF OrderInv, Begun
  <2> QED BY <1>1, <2>2, <2>3
<1>6. Turns'
  <2> SUFFICES ASSUME NEW e \in Rx
               PROVE  InTurn(queue'[e], got'[e], Past(e)', Copied', Checking(e)')
    BY DEF Turns
  <2>1. InTurn(queue[e], got[e], Past(e), Copied, Checking(e))
    BY DEF OrderInv, Turns
  <2> QED BY <1>1, <1>2, <1>3, <2>1
<1> QED BY <1>1, <1>4, <1>5, <1>6 DEF OrderInv


(* A full round changes no remainder. *)
LEMMA RoundAgain ==
    ASSUME NEW m \in Nat \ {0}, NEW a \in Int PROVE (a + m) % m = a % m
<1>1. a = m * (a \div m) + (a % m) /\ (a \div m) \in Int /\ (a % m) \in 0..(m - 1)
  BY DivisionFact
<1>2. \A d \in Int : m * (d + 1) = m * d + m /\ m * d \in Int
  OBVIOUS
<1>3. a + m = m * ((a \div m) + 1) + (a % m) /\ (a \div m) + 1 \in Int
  BY <1>1, <1>2
<1>4. m \in Nat \ {0} /\ a + m \in Int
  OBVIOUS
<1> DEFINE b == a + m
           d == (a \div m) + 1
           c == a % m
<1>5. b \in Int /\ d \in Int /\ c \in 0 .. m - 1 /\ b = m * d + c
  BY <1>1, <1>3, <1>4
<1> HIDE DEF b, d, c
<1>6. b % m = c
  BY <1>4, <1>5, RemainderIs
<1> QED BY <1>6 DEF b, c

(* What changes with the provider only makes more periods old ones. *)
LEMMA ProviderFrame ==
    ASSUME LifeInv, DataInv, OrderInv, provider'.count \in Nat, UNCHANGED <<thread, cxt, todo, queue, copy, got>>,
           RingRight',
           \A e \in Rx : Past(e) \subseteq Past(e)', Copied \subseteq Copied',
           Older \subseteq Older',
           \/ provider'.count >= provider.count
           \/ \A e \in Rx : Past(e) \subseteq Older'
    PROVE  OrderInv'
<1>1. LoopInv'
  BY DEF OrderInv, LoopInv, LockFree
<1>2. \A e : Checking(e)' = Checking(e)
  BY DEF Checking
<1>3. Turns'
  <2> SUFFICES ASSUME NEW e \in Rx
               PROVE  InTurn(queue'[e], got'[e], Past(e)', Copied', Checking(e)')
    BY DEF Turns
  <2>1. InTurn(queue[e], got[e], Past(e), Copied, Checking(e))
    BY DEF OrderInv, Turns
  <2>2. Checking(e) \in BOOLEAN
    BY CheckingType
  <2>3. InTurn(queue[e], got[e], Past(e)', Copied', Checking(e))
    BY <2>1, <2>2, TurnMore
  <2> QED BY <1>2, <2>3
<1>4. Begun'
  <2> SUFFICES ASSUME NEW w \in Workers, thread[w] = "copy"
               PROVE  \/ provider'.count >= cxt'.next
                      \/ InTurn(queue'[copy'.e], got'[copy'.e], Older', Older', FALSE)
    BY DEF Begun
  <2>1. copy.e \in Rx /\ provider.count \in Nat /\ cxt.next \in Nat
    BY DEF DataInv, DataTypes, Copying, InCopy, CopyType
  <2>2. provider.count >= cxt.next \/ InTurn(queue[copy.e], got[copy.e], Older, Older, FALSE)
    BY DEF OrderInv, Begun
  <2>3. CASE InTurn(queue[copy.e], got[copy.e], Older, Older, FALSE)
    BY <2>3, TurnMore
  <2>4. CASE provider.count >= cxt.next /\ provider'.count >= provider.count
    <3>1. \A a, b, d \in Nat : a >= b /\ d >= a => d >= b
      OBVIOUS
    <3>2. provider'.count >= cxt.next
      BY <2>1, <2>4, <3>1, Zenon
    <3> QED BY <3>2
  <2>5. CASE \A e \in Rx : Past(e) \subseteq Older'
    <3>1. ~Checking(copy.e)
      <4>1. \A v \in Workers : thread[v] # "check"
        BY DEF LifeInv, Threads, Active
      <4> QED BY <4>1 DEF Checking
    <3>2. InTurn(queue[copy.e], got[copy.e], Past(copy.e), Copied, FALSE)
      BY <2>1, <3>1, CheckingType DEF OrderInv, Turns
    <3> QED BY <2>1, <2>5, <3>2, TurnMore
  <2> QED BY <2>2, <2>3, <2>4, <2>5
<1> QED BY <1>1, <1>3, <1>4 DEF OrderInv

LEMMA ProviderOrder ==
    ASSUME LifeInv, DataInv, OrderInv, Provide
    PROVE  OrderInv'
<1>0. UNCHANGED <<thread, cxt, todo, queue, copy, got>> /\ DataInv'
  BY ProviderData
<1> DEFINE R == RingPeriods
           c == provider.count
           k == c % R
<1>1. /\ c \in Nat /\ Gen \in Nat /\ cxt.next \in Nat /\ provider.serial \in Nat
      /\ provider'.count \in Nat /\ Gen' \in Nat /\ R \in Nat \ {0}
  BY <1>0, Numbers, Sizes DEF DataInv, DataTypes, Gen
<1>2. k \in 0 .. R - 1 /\ ring \in [0 .. R - 1 -> SlotType]
  <2>1. k \in 0 .. R - 1
    BY <1>1, DivisionFact
  <2> QED BY <2>1 DEF DataInv, DataTypes
<1>3. \A i \in 0 .. R - 1 : ring[i].kept =>
        /\ ring[i].gen = Gen /\ ring[i].n \in Nat /\ ring[i].n % R = i
        /\ ring[i].n < c /\ c - R <= ring[i].n
        /\ provider.filling => ring[i].n # c - R
  BY DEF OrderInv, RingRight
<1> HIDE DEF k
<1>4. CASE Fill
  <2>1. /\ provider' = [provider EXCEPT !.filling = TRUE]
        /\ ring' = [ring EXCEPT ![k] = Torn(ring[k])]
    BY <1>4 DEF Fill, k
  <2>2. provider'.count = c /\ provider'.serial = provider.serial /\ Gen' = Gen
    BY <2>1 DEF Gen, DataInv, DataTypes
  <2>3. RingRight'
    <3> SUFFICES ASSUME NEW i \in 0 .. R - 1, ring'[i].kept
                 PROVE  /\ ring'[i].gen = Gen /\ ring'[i].n \in Nat /\ ring'[i].n % R = i
                        /\ ring'[i].n < c /\ c - R <= ring'[i].n /\ ring'[i].n # c - R
      BY <2>2 DEF RingRight
    <3>1. i # k
      BY <1>2, <2>1, TornType
    <3>2. ring'[i] = ring[i]
      BY <1>2, <2>1, <3>1
    <3>3. ring[i].n # c - R
      <4> SUFFICES ASSUME ring[i].n = c - R PROVE FALSE
        OBVIOUS
      <4>1. c - R \in Int /\ (c - R) + R = c
        BY <1>1
      <4>2. k = (c - R) % R
        BY <1>1, <4>1, RoundAgain DEF k
      <4> QED BY <1>3, <3>1, <3>2, <4>2
    <3> QED BY <1>3, <3>2, <3>3
  <2>4. (\A e : Past(e)' = Past(e)) /\ Copied' = Copied /\ Older' = Older
    BY <1>0, <2>2 DEF Past, Copied, Older, IsPublished, Served
  <2> QED BY <1>0, <1>1, <2>2, <2>3, <2>4, ProviderFrame
<1>5. CASE Publish
  <2>1. /\ provider' = [provider EXCEPT !.filling = FALSE, !.count = @ + 1] /\ provider.filling
        /\ ring' = [ring EXCEPT ![k] = Period(Gen, c)]
    BY <1>5 DEF Publish, k, Gen
  <2>2. /\ provider'.count = c + 1 /\ provider'.serial = provider.serial
        /\ provider'.filling = FALSE
    BY <2>1 DEF DataInv, DataTypes
  <2>3. Gen' = Gen
    BY <2>2 DEF Gen
  <2>4. RingRight'
    <3> SUFFICES ASSUME NEW i \in 0 .. R - 1, ring'[i].kept
                 PROVE  /\ ring'[i].gen = Gen /\ ring'[i].n \in Nat /\ ring'[i].n % R = i
                        /\ ring'[i].n < c + 1 /\ (c + 1) - R <= ring'[i].n
      BY <2>2, <2>3 DEF RingRight
    <3>1. CASE i = k
      <4>1. ring'[i] = Period(Gen, c)
        BY <1>2, <2>1, <3>1
      <4>2. ring'[i].gen = Gen /\ ring'[i].n = c
        BY <4>1 DEF Period
      <4>3. c < c + 1 /\ (c + 1) - R <= c
        BY <1>1
      <4> QED BY <1>1, <3>1, <4>2, <4>3 DEF k
    <3>2. CASE i # k
      <4>1. ring'[i] = ring[i]
        BY <1>2, <2>1, <3>2
      <4>2. /\ ring[i].gen = Gen /\ ring[i].n \in Nat /\ ring[i].n % R = i
            /\ ring[i].n < c /\ c - R <= ring[i].n /\ ring[i].n # c - R
        BY <1>3, <2>1, <4>1
      <4>3. ring[i].n < c + 1 /\ (c + 1) - R <= ring[i].n
        BY <1>1, <4>2
      <4> QED BY <4>1, <4>2, <4>3
    <3> QED BY <3>1, <3>2
  <2>5. \A x \in SlotType : IsPublished(x) => IsPublished(x)'
    BY <1>1, <2>2, <2>3, SlotNumbers DEF IsPublished
  <2>6. (\A e \in Rx : Past(e) \subseteq Past(e)') /\ Copied \subseteq Copied' /\ Older' = Older
    BY <1>0, <2>3, <2>5 DEF Past, Copied, Older, Served
  <2>7. provider'.count >= provider.count
    BY <1>1, <2>2
  <2> QED BY <1>0, <1>1, <2>4, <2>6, <2>7, ProviderFrame
<1>6. CASE ResetBegin
  <2>1. /\ provider' = [provider EXCEPT !.serial = @ + 1] /\ provider.serial % 2 = 0
        /\ ring' = ring
    BY <1>6 DEF ResetBegin
  <2>2. /\ provider'.count = c /\ provider'.serial = provider.serial + 1
        /\ provider'.filling = provider.filling
    BY <2>1 DEF DataInv, DataTypes
  <2>3. Gen' = Gen
    <3>1. \A a \in Nat : a % 2 = 0 => (a + 1) \div 2 = a \div 2
      OBVIOUS
    <3> QED BY <1>1, <2>1, <2>2, <3>1 DEF Gen
  <2>4. RingRight'
    BY <1>3, <2>1, <2>2, <2>3 DEF RingRight
  <2>5. (\A e : Past(e)' = Past(e)) /\ Copied' = Copied /\ Older' = Older
    BY <1>0, <2>2, <2>3 DEF Past, Copied, Older, IsPublished, Served
  <2> QED BY <1>0, <1>1, <2>2, <2>4, <2>5, ProviderFrame
<1>7. CASE ResetEnd
  <2>1. /\ provider' = [provider EXCEPT !.serial = @ + 1, !.count = 0] /\ provider.serial % 2 = 1
        /\ ring' = [i \in DOMAIN ring |-> Torn(ring[i])]
    BY <1>7 DEF ResetEnd
  <2>2. provider'.count = 0 /\ provider'.serial = provider.serial + 1
    BY <2>1 DEF DataInv, DataTypes
  <2>3. Gen' = Gen + 1
    <3>1. \A a \in Nat : a % 2 = 1 => (a + 1) \div 2 = (a \div 2) + 1
      OBVIOUS
    <3> QED BY <1>1, <2>1, <2>2, <3>1 DEF Gen
  <2>4. RingRight'
    BY <1>2, <2>1, TornType DEF RingRight
  <2>5. \A x \in SlotType : IsPublished(x) => x.gen < Gen' /\ IsPublished(x)' /\ x.gen # Gen'
    BY <1>1, <2>3, SlotNumbers DEF IsPublished
  <2>6. \A x \in SlotType : x.gen < Gen => x.gen < Gen'
    BY <1>1, <2>3, SlotNumbers
  <2>7. /\ \A e \in Rx : Past(e) \subseteq Past(e)' /\ Past(e) \subseteq Older'
        /\ Copied \subseteq Copied' /\ Older \subseteq Older'
    BY <2>5, <2>6 DEF Past, Copied, Older
  <2> QED BY <1>0, <1>1, <2>4, <2>7, ProviderFrame
<1> QED BY <1>4, <1>5, <1>6, <1>7 DEF Provide


(* The provider stands still. *)
LEMMA ProviderSame ==
    ASSUME UNCHANGED provider
    PROVE  /\ Gen' = Gen /\ Older' = Older /\ \A x : IsPublished(x)' = IsPublished(x)
<1>1. Gen' = Gen
  BY DEF Gen
<1> QED BY <1>1 DEF Older, IsPublished

LEMMA RingSame ==
    ASSUME OrderInv, UNCHANGED <<ring, provider>> PROVE RingRight'
BY ProviderSame DEF OrderInv, RingRight

(* Outside the loop: the worker's other steps *)
LEMMA ConnectOrder ==
    ASSUME LifeInv, DataInv, OrderInv, NEW w \in Workers,
           Connects(w) \/ Wake(w) \/ Exit(w) \/ Top(w)
    PROVE  OrderInv'
<1>0. /\ DataInv' /\ UNCHANGED <<todo, copy, got, ring, provider>>
      /\ thread[w] \in Active \ Looping /\ \A v \in Workers \ {w} : thread'[v] \notin Active
      /\ thread'[w] \notin {"copy", "check"}
  BY ConnectData
<1>1. LockFree /\ todo = {} /\ todo' = {}
  <2>1. LockFree
    BY DEF Connects, Connect, ConnectFails, Wake, Exit, Top
  <2> QED BY <1>0, <2>1 DEF OrderInv, LoopInv
<1>2. RingRight' /\ Gen' = Gen /\ \A x : IsPublished(x)' = IsPublished(x)
  BY <1>0, RingSame, ProviderSame
<1>3. Begun'
  BY <1>0 DEF Begun, Active
<1>4. \A e : ~Checking(e) /\ ~Checking(e)'
  BY <1>0, <1>1 DEF Checking, LockFree, Looping, Active
<1>5. LoopInv'
  <2>1. thread'[w] \in Looping \cup {"wait"} => cxt'.up
    <3>1. CASE Connects(w)
      <4>1. thread \in [Workers -> ThreadStates] /\ thread' = [thread EXCEPT ![w] = "top"]
        BY <3>1 DEF Connects, Connect, ConnectFails, Retry, Goto, LifeInv, LifeTypes
      <4>2. thread'[w] = "top"
        BY <4>1
      <4> QED BY <4>2 DEF Looping
    <3>2. CASE Wake(w)
      <4>1. cxt.up /\ thread \in [Workers -> ThreadStates]
        BY <3>2 DEF Wake, OrderInv, LoopInv, LifeInv, LifeTypes
      <4>2. CASE cxt' = [cxt EXCEPT !.next = Skipped, !.cur = provider.count]
        BY <4>1, <4>2 DEF DataInv, DataTypes
      <4>3. CASE thread' = [thread EXCEPT ![w] = "exit"] \/ thread' = [thread EXCEPT ![w] = "top"]
        <5>1. thread'[w] \in {"exit", "top"}
          BY <4>1, <4>3
        <5> QED BY <5>1 DEF Looping
      <4> QED BY <3>2, <4>2, <4>3 DEF Wake, Goto
    <3>3. CASE Exit(w)
      <4>1. thread \in [Workers -> ThreadStates] /\ thread' = [thread EXCEPT ![w] = "ended"]
        BY <3>3 DEF Exit, Goto, LifeInv, LifeTypes
      <4>2. thread'[w] = "ended"
        BY <4>1
      <4> QED BY <4>2 DEF Looping
    <3>4. CASE Top(w)
      <4>1. /\ thread \in [Workers -> ThreadStates] /\ cxt' = cxt
            /\ thread' = [thread EXCEPT ![w] = IF stop THEN "exit" ELSE IF cxt.up THEN "wait"
                                               ELSE "connect"]
        BY <3>4 DEF Top, Goto, LifeInv, LifeTypes, data
      <4>2. thread'[w] \in {"exit", "wait", "connect"} /\ (thread'[w] = "wait" => cxt.up)
        BY <4>1
      <4> QED BY <4>1, <4>2 DEF Looping
    <3> QED BY <3>1, <3>2, <3>3, <3>4
  <2> QED BY <1>0, <1>1, <2>1 DEF LoopInv, Active, Looping
<1>6. \A e \in Rx : Past(e) \subseteq Past(e)'
  <2> TAKE e \in Rx
  <2>1. Served(e) = cxt.next /\ Served(e)' = cxt'.next
    BY <1>1 DEF Served
  <2>2. \/ cxt'.up = FALSE
        \/ cxt'.next = provider.count
        \/ cxt'.up = cxt.up /\ cxt'.next = cxt.next
        \/ cxt'.up = cxt.up /\ cxt'.next = Skipped
    <3>1. CASE Connects(w)
      BY <3>1, NotConnType DEF Connects, Connect, ConnectFails, Disconnect
    <3>2. CASE Wake(w)
      <4>1. CASE cxt' = [cxt EXCEPT !.next = Skipped, !.cur = provider.count]
        BY <4>1 DEF DataInv, DataTypes
      <4>2. CASE cxt' = NotConn \/ cxt' = cxt
        BY <4>2, NotConnType
      <4> QED BY <3>2, <4>1, <4>2 DEF Wake, Disconnect
    <3>3. CASE Exit(w) \/ Top(w)
      BY <3>3, NotConnType DEF Exit, Top, Disconnect, data
    <3> QED BY <3>1, <3>2, <3>3
  <2>3. /\ provider.count \in Nat /\ cxt.next \in Nat /\ Skipped \in Nat /\ Skipped >= cxt.next
    <3>1. provider.count \in Nat /\ cxt.next \in Nat
      BY Numbers
    <3> QED BY <3>1, Sizes DEF Skipped
  <2>4. \A x \in SlotType : IsPublished(x) /\ x.gen = Gen => x.n < provider.count
    BY Numbers, SlotNumbers DEF IsPublished
  <2>5. \A x \in SlotType : x.n < cxt.next => x.n < Skipped
    BY <2>3, SlotNumbers
  <2> SUFFICES ASSUME NEW x \in SlotType, IsPublished(x), cxt.up /\ x.gen = Gen => x.n < cxt.next,
                      cxt'.up, x.gen = Gen
               PROVE  x.n < cxt'.next
    BY <1>2, <2>1 DEF Past
  <2> QED BY <2>2, <2>4, <2>5
<1>7. Turns'
  <2> SUFFICES ASSUME NEW e \in Rx
               PROVE  InTurn(queue'[e], got[e], Past(e)', Copied', FALSE)
    BY <1>0, <1>4, CheckingType DEF Turns
  <2>1. InTurn(queue[e], got[e], Past(e), Copied, FALSE)
    BY <1>4, CheckingType DEF OrderInv, Turns
  <2>2. got[e] \in Past(e)'
    BY <1>6, <2>1 DEF InTurn
  <2>3. queue'[e] = queue[e] \/ queue'[e] = Empty
    <3>1. queue' = queue \/ queue' = Emptied
      BY DEF Connects, Connect, ConnectFails, Wake, Exit, Top, data, Disconnect
    <3> QED BY <3>1, Sizes DEF Emptied
  <2>4. CASE queue'[e] = queue[e]
    BY <1>6, <2>1, <2>4, TurnMore
  <2>5. CASE queue'[e] = Empty
    BY <2>2, <2>5, EmptyType, TurnEmpty
  <2> QED BY <2>3, <2>4, <2>5
<1> QED BY <1>2, <1>3, <1>5, <1>7 DEF OrderInv

LEMMA OpenOrder ==
    ASSUME LifeInv, DataInv, OrderInv, NEW f \in Endpoints, Open(f) \/ Detach(f) \/ Free(f)
    PROVE  OrderInv'
<1>0. DataInv' /\ LockFree /\ UNCHANGED thread
  BY OpenData
<1>1. UNCHANGED <<todo, copy, ring, provider>> /\ todo = {}
  BY <1>0 DEF Open, Detach, Free, prov, OrderInv, LoopInv
<1>2. RingRight' /\ Gen' = Gen /\ \A x : IsPublished(x)' = IsPublished(x)
  BY <1>1, RingSame, ProviderSame
<1>3. Begun' /\ \A e : ~Checking(e) /\ ~Checking(e)'
  BY <1>0 DEF Begun, Checking, LockFree, Looping
<1>4. cxt' = cxt \/ (cxt' = NotConn /\ ~running)
  <2>1. CASE Open(f)
    <3>1. refs = 0 => attached = {}
      BY AttachedCount DEF LifeInv, Lists
    <3>2. attached = {} => ~running
      BY DEF LifeInv, Lists, Purpose, SomeJoins, Joining, Attached
    <3> QED BY <2>1, <3>1, <3>2 DEF Open
  <2>2. CASE Detach(f)
    BY <2>2 DEF Detach
  <2>3. CASE Free(f)
    <3>1. attached = {}
      BY <2>3 DEF Free, LifeInv, Purpose
    <3>2. ~running
      BY <3>1 DEF LifeInv, Lists, Purpose, SomeJoins, Joining, Attached
    <3> QED BY <2>3, <3>2 DEF Free
  <2> QED BY <2>1, <2>2, <2>3
<1>5. LoopInv'
  <2>1. ~running => \A w \in Workers : thread'[w] \notin Looping \cup {"wait"}
    BY <1>0 DEF LifeInv, Threads, Active, Looping
  <2> QED BY <1>0, <1>1, <1>4, <2>1 DEF OrderInv, LoopInv
<1>6. \A e : Past(e) \subseteq Past(e)'
  BY <1>1, <1>2, <1>4, NotConnType DEF Past, Served
<1>7. \A e : Blank \in Past(e)'
  <2>1. (IsPublished(Blank))
    BY Numbers, BlankType DEF IsPublished
  <2>2. \A e : Served(e)' = cxt'.next /\ cxt'.next \in Nat
    BY <1>0, <1>1 DEF Served, DataInv, DataTypes
  <2> QED BY <1>2, <2>1, <2>2, BlankType DEF Past
<1>8. Turns'
  <2> SUFFICES ASSUME NEW e \in Rx
               PROVE  InTurn(queue'[e], got'[e], Past(e)', Copied', FALSE)
    BY <1>3, CheckingType DEF Turns
  <2>1. InTurn(queue[e], got[e], Past(e), Copied, FALSE)
    BY <1>3, CheckingType DEF OrderInv, Turns
  <2>2. /\ queue'[e] = queue[e] \/ queue'[e] = Empty
        /\ got'[e] = got[e] \/ (got'[e] = Blank /\ queue'[e] = Empty)
    <3>1. queue \in [Endpoints -> QueueType] /\ e \in Endpoints
      BY Sizes DEF DataInv, DataTypes
    <3> QED BY <3>1 DEF Open, Detach, Free
  <2>3. got[e] \in Past(e)'
    BY <1>6, <2>1 DEF InTurn
  <2>4. CASE queue'[e] = queue[e] /\ got'[e] = got[e]
    BY <1>6, <2>1, <2>4, TurnMore
  <2>5. CASE queue'[e] = Empty
    <3>1. got'[e] \in Past(e)'
      BY <1>7, <2>2, <2>3
    <3> QED BY <2>5, <3>1, EmptyType, TurnEmpty
  <2> QED BY <2>2, <2>4, <2>5
<1> QED BY <1>2, <1>3, <1>5, <1>8 DEF OrderInv


(* An endpoint that a step of the loop has nothing to do with *)
LEMMA OtherTurn ==
    ASSUME OrderInv, NEW e \in Rx, queue'[e] = queue[e], got'[e] = got[e],
           Past(e) \subseteq Past(e)', ~Checking(e), ~Checking(e)'
    PROVE  InTurn(queue'[e], got'[e], Past(e)', Copied', Checking(e)')
<1>1. InTurn(queue[e], got[e], Past(e), Copied, FALSE)
  BY CheckingType DEF OrderInv, Turns
<1>2. InTurn(queue[e], got[e], Past(e)', Copied', FALSE)
  BY <1>1, TurnMore
<1> QED BY <1>2, CheckingType

LEMMA NextPeriodOrder ==
    ASSUME LifeInv, DataInv, OrderInv, NEW w \in Workers, NextPeriod(w)
    PROVE  OrderInv'
<1>0. /\ thread[w] = "periods" /\ todo = {} /\ UNCHANGED <<queue, copy, got, ring, provider>>
      /\ cxt.up /\ cxt.next \in Nat /\ cxt \in CxtType /\ thread \in [Workers -> ThreadStates]
  BY DEF NextPeriod, prov, OrderInv, LoopInv, Looping, DataInv, DataTypes, CxtType, LifeInv, LifeTypes
<1>1. PICK l \in {"periods", "top"} : thread' = [thread EXCEPT ![w] = l]
  BY <1>0 DEF NextPeriod, Goto
<1>2. /\ thread'[w] = l /\ \A v \in Workers \ {w} : thread'[v] \notin Active
      /\ \A v \in Workers \ {w} : thread[v] \notin Active
  BY <1>0, <1>1, OnlyWorker DEF Active, ThreadStates
<1>3. RingRight' /\ Gen' = Gen /\ \A x : IsPublished(x)' = IsPublished(x)
  BY <1>0, RingSame, ProviderSame
<1>4. Begun' /\ \A e : ~Checking(e) /\ ~Checking(e)'
  BY <1>0, <1>2 DEF Begun, Checking, Active
<1>5. \/ /\ cxt' = [cxt EXCEPT !.next = @ + 1] /\ UNCHANGED thread
      \/ UNCHANGED <<cxt, todo>>
  BY DEF NextPeriod
<1>6. LoopInv' /\ \A e \in Rx : Past(e) \subseteq Past(e)'
  <2>1. CASE cxt' = [cxt EXCEPT !.next = @ + 1] /\ UNCHANGED thread
    <3>1. cxt'.next = cxt.next + 1 /\ cxt'.up
      BY <1>0, <2>1 DEF CxtType
    <3>2. LoopInv'
      <4>1. ~LockFree'
        BY <1>0, <2>1 DEF LockFree, Looping
      <4>2. cxt'.next >= 1
        BY <1>0, <3>1
      <4> QED BY <3>1, <4>1, <4>2 DEF LoopInv
    <3>3. ASSUME NEW e \in Rx PROVE Past(e) \subseteq Past(e)'
      <4>1. Served(e) = cxt.next /\ (Served(e)' = cxt.next \/ Served(e)' = cxt.next + 1)
        BY <1>0, <3>1 DEF Served
      <4>2. \A x \in SlotType : x.n < cxt.next => x.n < Served(e)'
        BY <1>0, <4>1, SlotNumbers
      <4> QED BY <1>0, <1>3, <4>1, <4>2 DEF Past
    <3> QED BY <3>2, <3>3
  <2>2. CASE UNCHANGED <<cxt, todo>>
    <3>1. LoopInv'
      BY <1>0, <1>2, <2>2 DEF LoopInv, Looping, Active
    <3>2. \A e : Past(e)' = Past(e)
      BY <1>3, <2>2 DEF Past, Served
    <3> QED BY <3>1, <3>2
  <2> QED BY <1>5, <2>1, <2>2
<1>7. Turns'
  BY <1>0, <1>4, <1>6, OtherTurn DEF Turns
<1> QED BY <1>3, <1>4, <1>6, <1>7 DEF OrderInv

(* An endpoint has been served. *)
LEMMA PastGrows ==
    ASSUME DataInv, UNCHANGED <<cxt, provider>>, NEW e, NEW f, todo' = todo \ {f}
    PROVE  Past(e) \subseteq Past(e)'
<1>1. cxt.next \in Nat /\ cxt.next - 1 < cxt.next
  BY Numbers
<1>2. \A x \in SlotType : x.n < Served(e) => x.n < Served(e)'
  BY <1>1, SlotNumbers DEF Served
<1>3. Gen' = Gen /\ \A x : IsPublished(x)' = IsPublished(x)
  BY ProviderSame
<1> QED BY <1>2, <1>3 DEF Past

LEMMA ReceiveOrder ==
    ASSUME LifeInv, DataInv, OrderInv, NEW w \in Workers, NEW e \in Rx, Receive(w, e)
    PROVE  OrderInv'
<1>0. /\ thread[w] = "periods" /\ e \in todo /\ UNCHANGED <<cxt, ring, provider, got>>
      /\ cxt.up /\ cxt.next \in Nat /\ cxt.next >= 1 /\ thread \in [Workers -> ThreadStates]
      /\ e \in Endpoints /\ queue[e] \in QueueType
  BY Sizes DEF Receive, prov, OrderInv, LoopInv, Looping, DataInv, DataTypes, LifeInv, LifeTypes
<1>1. \A v \in Workers \ {w} : thread[v] \notin Active
  BY <1>0 DEF LifeInv, Threads, Active
<1>2. RingRight' /\ Gen' = Gen /\ \A x : IsPublished(x)' = IsPublished(x)
  BY <1>0, RingSame, ProviderSame
<1>3. \A f : ~Checking(f)
  BY <1>0, <1>1 DEF Checking, Active
<1>4. CASE ~InRing
  <2>1. UNCHANGED <<thread, copy, queue>> /\ todo' = todo \ {e}
    BY <1>4 DEF Receive
  <2>2. \A f : Past(f) \subseteq Past(f)'
    BY <1>0, <2>1, PastGrows
  <2>3. Begun' /\ \A f : ~Checking(f)'
    BY <1>0, <1>1, <2>1 DEF Begun, Checking, Active
  <2>4. LoopInv'
    <3>1. ~LockFree'
      BY <1>0, <2>1 DEF LockFree, Looping
    <3> QED BY <1>0, <3>1 DEF LoopInv
  <2>5. Turns'
    BY <1>0, <1>3, <2>1, <2>2, <2>3, OtherTurn DEF Turns
  <2> QED BY <1>2, <2>3, <2>4, <2>5 DEF OrderInv
<1>5. CASE InRing
  <2> DEFINE q == queue[e]
  <2>1. /\ thread' = [thread EXCEPT ![w] = "copy"] /\ todo' = todo
        /\ copy' = [read |-> q.read, used |-> q.used, e |-> e]
        /\ queue' = [queue EXCEPT ![e] = Room(q)]
    BY <1>5 DEF Receive, Goto
  <2>2. thread'[w] = "copy" /\ \A v \in Workers \ {w} : thread'[v] \notin Active
    BY <1>0, <1>1, <2>1
  <2>3. \A f : Past(f)' = Past(f)
    BY <1>0, <1>2, <2>1 DEF Past, Served
  <2>4. \A f : ~Checking(f)'
    BY <2>2 DEF Checking, Active
  <2>5. Begun'
    <3>1. provider.count >= cxt.next
      BY <1>5 DEF InRing
    <3> QED BY <1>0, <3>1 DEF Begun
  <2>6. LoopInv'
    <3>1. ~LockFree'
      BY <2>2 DEF LockFree, Looping
    <3> QED BY <1>0, <3>1 DEF LoopInv
  <2>7. InTurn(Room(q), got[e], Past(e), Copied, FALSE) /\ Room(q) \in QueueType
    <3>1. InTurn(q, got[e], Past(e), Copied, FALSE)
      BY <1>3, CheckingType DEF OrderInv, Turns
    <3>2. CASE q.used # QueuePeriods
      BY <1>0, <3>1, <3>2 DEF Room
    <3>3. CASE q.used = QueuePeriods
      <4>1. q.used > 0 /\ Room(q) = FifoDrop(q, 1)
        BY <3>3, Sizes DEF Room
      <4>2. /\ FifoDrop(q, 1) \in QueueType /\ FifoDrop(q, 1).used = q.used - 1
            /\ FifoDrop(q, 1).slots = q.slots /\ FifoDrop(q, 1).read = Place(q.read, 1)
        BY <1>0, <4>1, DropType
      <4> HIDE DEF q
      <4>3. q \in QueueType
        BY <1>0 DEF q
      <4> DEFINE p == FifoDrop(q, 1)
                 h == IF Item(q, 0).kept THEN Item(q, 0) ELSE got[e]
      <4>4. \A i \in 1 .. q.used - 1 : p.slots[Place(q.read, i)] = q.slots[Place(q.read, i)]
        BY <4>2
      <4>5. InTurn(p, got[e], Past(e), Copied, FALSE) /\ InTurn(p, h, Past(e), Copied, FALSE)
        <5>1. h = IF Item(q, 0).kept THEN Item(q, 0) ELSE got[e]
          OBVIOUS
        <5> HIDE DEF h
        <5>2. p \in QueueType /\ p.used = q.used - 1 /\ p.read = Place(q.read, 1)
          BY <4>2
        <5> HIDE DEF p
        <5> QED BY <3>1, <4>1, <4>3, <4>4, <5>1, <5>2, TurnDrop
      <4> QED BY <4>1, <4>2, <4>5
    <3> QED BY <3>2, <3>3
  <2> HIDE DEF q
  <2>8. queue'[e] = Room(q) /\ \A f \in Endpoints \ {e} : queue'[f] = queue[f]
    BY <1>0, <2>1, <2>7, QueueMoves DEF DataInv
  <2>9. Turns'
    <3> SUFFICES ASSUME NEW f \in Rx
                 PROVE  InTurn(queue'[f], got'[f], Past(f)', Copied', Checking(f)')
      BY DEF Turns
    <3>1. CASE f = e
      <4>1. InTurn(Room(q), got[e], Past(e)', Copied', FALSE)
        BY <2>3, <2>7, TurnMore
      <4> QED BY <1>0, <2>4, <2>8, <3>1, <4>1, CheckingType
    <3>2. CASE f # e
      BY <1>0, <1>3, <2>3, <2>4, <2>8, <3>2, OtherTurn, Sizes
    <3> QED BY <3>1, <3>2
  <2> QED BY <1>2, <2>5, <2>6, <2>9 DEF OrderInv
<1> QED BY <1>4, <1>5

LEMMA CopyOrder ==
    ASSUME LifeInv, DataInv, OrderInv, NEW w \in Workers, CopySamples(w)
    PROVE  OrderInv'
<1> DEFINE e == copy.e
           q == queue[e]
           p == queue'[e]
           x == ring[(cxt.next - 1) % RingPeriods]
<1>0. /\ thread[w] = "copy" /\ UNCHANGED <<cxt, todo, copy, ring, provider, got>>
      /\ cxt.up /\ cxt.next \in Nat /\ cxt \in CxtType
      /\ RingPeriods \in Nat \ {0} /\ provider.count \in Nat
  BY Sizes DEF CopySamples, prov, OrderInv, LoopInv, Looping, DataInv, DataTypes, CxtType
<1>1. /\ DataInv' /\ thread'[w] = "check" /\ e \in Rx
      /\ \A v \in Workers \ {w} : thread'[v] \notin Active
      /\ q.used \in 0 .. QueuePeriods - 1 /\ q \in QueueType
      /\ p.read = q.read /\ p.used = q.used + 1
      /\ p.slots = [q.slots EXCEPT ![Place(q.read, q.used)] = x]
      /\ \A f \in Endpoints \ {e} : queue'[f] = queue[f]
  BY CopyData
<1>2. e \in todo /\ p \in QueueType /\ cxt.next >= 1 /\ Served(e) = cxt.next - 1
  <2>1. e \in todo
    BY <1>0 DEF DataInv, Copying, InCopy
  <2>2. p \in QueueType
    BY <1>1, Sizes DEF DataInv, DataTypes
  <2> QED BY <2>1, <2>2 DEF OrderInv, LoopInv, Served
<1>3. \A v \in Workers \ {w} : thread[v] \notin Active
  BY <1>0 DEF LifeInv, Threads, Active
<1>4. /\ RingRight' /\ Gen' = Gen /\ \A y : IsPublished(y)' = IsPublished(y)
  BY <1>0, RingSame, ProviderSame
<1>5. (\A f : Past(f)' = Past(f)) /\ Copied' = Copied
  BY <1>0, <1>4 DEF Past, Served, Copied
<1>6. Begun'
  BY <1>1 DEF Begun, Active
<1>7. LoopInv'
  <2>1. ~LockFree'
    BY <1>1 DEF LockFree, Looping
  <2> QED BY <1>0, <1>2, <2>1 DEF LoopInv
<1>8. (\A f : ~Checking(f)) /\ Checking(e)' = TRUE /\ \A f : f # e => ~Checking(f)'
  BY <1>0, <1>1, <1>3 DEF Checking, Active
<1>9. InTurn(q, got[e], Past(e), Copied, FALSE)
  BY <1>1, <1>8, CheckingType DEF OrderInv, Turns
<1>10. x.kept =>
          /\ x \in SlotType /\ x.gen = Gen /\ x.n \in Nat
          /\ x.n % RingPeriods = (cxt.next - 1) % RingPeriods
          /\ x.n < provider.count /\ provider.count - RingPeriods <= x.n
  <2>1. cxt.next - 1 \in Int
    BY <1>0
  <2>2. (cxt.next - 1) % RingPeriods \in 0 .. RingPeriods - 1
    BY <1>0, <2>1, DivisionFact
  <2> QED BY <2>2 DEF OrderInv, RingRight, DataInv, DataTypes
<1> HIDE DEF x, p, q, e
<1>11. x.kept => x \in Copied
  BY <1>10 DEF Copied, IsPublished
<1>12. InTurn(p, got[e], Past(e), Copied, TRUE)
  <2>1. CASE provider.count >= cxt.next
    <3>1. ASSUME x.kept PROVE \A y \in Past(e) : Before(y, x)
      <4>1. x.n >= cxt.next - 1
        <5> SUFFICES ASSUME x.n < cxt.next - 1 PROVE FALSE
          BY <1>0, <1>10, <3>1
        <5>1. /\ x.n \in Int /\ cxt.next - 1 \in Int /\ -RingPeriods < x.n - (cxt.next - 1)
              /\ x.n - (cxt.next - 1) < RingPeriods
          BY <1>0, <1>10, <2>1, <3>1
        <5>2. x.n = cxt.next - 1
          BY <1>0, <1>10, <3>1, <5>1, SameRemainder
        <5> QED BY <5>1, <5>2
      <4> SUFFICES ASSUME NEW y \in Past(e) PROVE Before(y, x)
        OBVIOUS
      <4>2. /\ y \in SlotType /\ IsPublished(y) /\ (y.gen = Gen => y.n < cxt.next - 1)
        BY <1>0, <1>2 DEF Past
      <4>3. y.gen \in Int /\ y.n \in Int /\ Gen \in Nat
        BY <4>2, SlotNumbers, Numbers
      <4> QED BY <1>0, <1>10, <3>1, <4>1, <4>2, <4>3 DEF Before, IsPublished
    <3> QED BY <1>1, <1>2, <1>9, <1>11, <3>1, TurnCopy
  <2>2. CASE InTurn(q, got[e], Older, Older, FALSE)
    <3>1. InTurn(q, got[e], Older, Copied, FALSE)
      BY <2>2, TurnMore
    <3>2. x.kept => \A y \in Older : Before(y, x)
      BY <1>10 DEF Before, Older
    <3> QED BY <1>1, <1>2, <1>9, <1>11, <3>1, <3>2, TurnCopy
  <2> QED BY <1>0, <2>1, <2>2 DEF OrderInv, Begun, q, e
<1>13. Turns'
  <2> SUFFICES ASSUME NEW f \in Rx
               PROVE  InTurn(queue'[f], got'[f], Past(f)', Copied', Checking(f)')
    BY DEF Turns
  <2>1. CASE f = e
    BY <1>0, <1>5, <1>8, <1>12, <2>1 DEF p
  <2>2. CASE f # e
    BY <1>0, <1>1, <1>5, <1>8, <2>2, OtherTurn, Sizes
  <2> QED BY <2>1, <2>2
<1> QED BY <1>4, <1>6, <1>7, <1>13 DEF OrderInv


LEMMA CheckOrder ==
    ASSUME LifeInv, DataInv, OrderInv, NEW w \in Workers, CheckCopy(w)
    PROVE  OrderInv'
<1>a. copy.e \in Rx
  BY CheckData DEF CopyType
<1>b. PICK e \in Rx : e = copy.e
  BY <1>a
<1> DEFINE q == queue[e]
           p == queue'[e]
<1>0. /\ thread[w] = "check" /\ UNCHANGED <<cxt, ring, provider, got>> /\ todo' = todo \ {e}
      /\ cxt.up /\ cxt.next \in Nat /\ RingPeriods \in Nat \ {0} /\ provider.count \in Nat
  BY <1>b, Sizes DEF CheckCopy, prov, OrderInv, LoopInv, Looping, DataInv, DataTypes
<1>1. /\ DataInv' /\ thread'[w] = "periods" /\ copy \in CopyType /\ e \in todo
      /\ \A v \in Workers \ {w} : thread'[v] \notin Active
      /\ q.used \in 1 .. QueuePeriods /\ q \in QueueType
      /\ Slot(q, q.used - 1) = Place(q.read, q.used - 1)
      /\ q.read = IF copy.used = QueuePeriods THEN Place(copy.read, 1) ELSE copy.read
      /\ q.used = IF copy.used = QueuePeriods THEN QueuePeriods ELSE copy.used + 1
      /\ p = IF InRing THEN q ELSE Undone(q)
      /\ \A f \in Endpoints \ {e} : queue'[f] = queue[f]
  BY <1>b, CheckData
<1>2. e \in Rx /\ e \in Endpoints /\ p \in QueueType /\ cxt.next >= 1 /\ copy.used \in Nat
  <2>1. e \in Rx /\ copy.used \in Nat
    BY <1>1, Sizes DEF CopyType
  <2>2. e \in Endpoints
    BY <2>1, Sizes
  <2>3. p \in QueueType
    BY <1>1, <2>2 DEF DataInv, DataTypes
  <2> QED BY <1>1, <2>1, <2>2, <2>3 DEF OrderInv, LoopInv
<1>3. \A v \in Workers \ {w} : thread[v] \notin Active
  BY <1>0 DEF LifeInv, Threads, Active
<1>4. /\ RingRight' /\ Gen' = Gen /\ \A y : IsPublished(y)' = IsPublished(y)
  BY <1>0, RingSame, ProviderSame
<1>5. \A f : Past(f) \subseteq Past(f)'
  BY <1>0, PastGrows
<1>6. Begun'
  BY <1>1 DEF Begun, Active
<1>7. LoopInv'
  <2>1. ~LockFree'
    BY <1>1 DEF LockFree, Looping
  <2> QED BY <1>0, <1>2, <2>1 DEF LoopInv
<1>8. (\A f : ~Checking(f)') /\ Checking(e) = TRUE /\ \A f : f # e => ~Checking(f)
  BY <1>0, <1>1, <1>3, <1>b DEF Checking, Active
<1>9. InTurn(q, got[e], Past(e), Copied, TRUE)
  BY <1>2, <1>8 DEF OrderInv, Turns
<1>10. InTurn(p, got[e], Past(e)', Copied', FALSE)
  <2>1. CASE InRing
    <3>1. Copied \subseteq Past(e)'
      <4> SUFFICES ASSUME NEW y \in Copied PROVE y \in Past(e)'
        OBVIOUS
      <4>1. /\ y \in SlotType /\ IsPublished(y) /\ y.n \in Int
            /\ y.gen = Gen => y.n % RingPeriods = (cxt.next - 1) % RingPeriods
        BY SlotNumbers DEF Copied
      <4>2. Served(e)' = cxt.next
        BY <1>0 DEF Served
      <4>3. ASSUME y.gen = Gen PROVE y.n < cxt.next
        <5>1. y.n < provider.count
          BY <4>1, <4>3, Numbers DEF IsPublished
        <5>2. provider.count - (cxt.next - 1) <= RingPeriods
          BY <2>1 DEF InRing
        <5> SUFFICES ASSUME ~(y.n < cxt.next) PROVE FALSE
          OBVIOUS
        <5>3. /\ cxt.next - 1 \in Int /\ -RingPeriods < y.n - (cxt.next - 1)
              /\ y.n - (cxt.next - 1) < RingPeriods
          BY <1>0, <4>1, <5>1, <5>2
        <5>4. y.n = cxt.next - 1
          BY <1>0, <4>1, <4>3, <5>3, SameRemainder
        <5> QED BY <1>0, <5>4
      <4> QED BY <1>4, <4>1, <4>2, <4>3 DEF Past
    <3>2. InTurn(q, got[e], Past(e)', Copied', FALSE)
      BY <1>5, <1>9, <3>1, TurnKeep
    <3> QED BY <1>1, <2>1, <3>2
  <2>2. CASE ~InRing
    <3> DEFINE k == Place(q.read, q.used - 1)
               y == [q.slots[k] EXCEPT !.kept = FALSE]
    <3>1. /\ p.slots = [q.slots EXCEPT ![k] = y] /\ p.read = copy.read /\ p.used = copy.used
      <4>1. Slot(q, q.used - 1) = k
        BY <1>1
      <4>2. p = [slots |-> [q.slots EXCEPT ![k] = y], read |-> copy.read, used |-> copy.used]
        BY <1>1, <2>2, <4>1 DEF Undone
      <4> HIDE DEF k, y
      <4> QED BY <4>2
    <3>2. q.slots \in [Places -> SlotType] /\ q.read \in Places /\ q.used - 1 \in 0 .. QueuePeriods
          /\ q.used > 0
      BY <1>1, Sizes DEF QueueType
    <3>3. k \in Places
      BY <3>2, PlaceType
    <3>4. ~y.kept
      <4>1. q.slots[k] \in SlotType
        BY <3>2, <3>3
      <4> QED BY <4>1 DEF SlotType
    <3>5. \/ p.read = q.read /\ p.used = q.used - 1
          \/ q.read = Place(p.read, 1) /\ p.used = QueuePeriods /\ q.used = QueuePeriods
      <4>1. CASE copy.used = QueuePeriods
        BY <1>1, <3>1, <4>1
      <4>2. CASE copy.used # QueuePeriods
        <5>1. q.used = copy.used + 1 /\ q.read = copy.read
          BY <1>1, <4>2
        <5>2. copy.used = q.used - 1
          BY <1>2, <5>1
        <5> QED BY <3>1, <5>1, <5>2
      <4> QED BY <4>1, <4>2
    <3> HIDE DEF y, p, q
    <3>6. InTurn(p, got[e], Past(e), Copied, FALSE)
      BY <1>1, <1>2, <1>9, <3>1, <3>2, <3>4, <3>5, TurnUndo
    <3> QED BY <1>5, <3>6, TurnMore
  <2> QED BY <2>1, <2>2
<1> HIDE DEF p, q
<1>11. Turns'
  <2> SUFFICES ASSUME NEW f \in Rx
               PROVE  InTurn(queue'[f], got'[f], Past(f)', Copied', Checking(f)')
    BY DEF Turns
  <2>1. CASE f = e
    BY <1>0, <1>8, <1>10, <2>1, CheckingType DEF p
  <2>2. CASE f # e
    BY <1>0, <1>1, <1>5, <1>8, <2>2, OtherTurn, Sizes
  <2> QED BY <2>1, <2>2
<1> QED BY <1>4, <1>6, <1>7, <1>11 DEF OrderInv

LEMMA ReadOrder ==
    ASSUME LifeInv, DataInv, OrderInv, NEW e \in Rx, Read(e)
    PROVE  OrderInv'
<1> DEFINE q == queue[e]
           p == queue'[e]
           h == IF Item(q, 0).kept THEN Item(q, 0) ELSE got[e]
<1>0. /\ UNCHANGED <<thread, cxt, todo, copy, ring, provider>> /\ EndpointFree(e)
      /\ e \in Endpoints
  BY Sizes DEF Read, life, prov
<1>1. /\ DataInv' /\ q \in QueueType /\ q.used > 0
      /\ p.slots = [q.slots EXCEPT ![q.read] = Blank]
      /\ p.read = Place(q.read, 1) /\ p.used = q.used - 1
      /\ \A f \in Endpoints \ {e} : queue'[f] = queue[f]
      /\ got' = [got EXCEPT ![e] = IF q.slots[q.read].kept THEN q.slots[q.read] ELSE got[e]]
  BY ReadData
<1>2. p \in QueueType
  BY <1>0, <1>1 DEF DataInv, DataTypes
<1>3. /\ q.read \in Places /\ q.slots \in [Places -> SlotType] /\ q.used \in 0 .. QueuePeriods
      /\ 0 \in 0 .. QueuePeriods - 1 /\ Place(q.read, 0) = q.read
  <2>1. q.read \in Places /\ q.slots \in [Places -> SlotType] /\ q.used \in 0 .. QueuePeriods
    BY <1>1 DEF QueueType
  <2>2. 0 \in 0 .. QueuePeriods - 1
    BY Sizes
  <2> QED BY <2>1, <2>2, PlaceNext
<1>4. got'[e] = h /\ \A f \in Rx \ {e} : got'[f] = got[f]
  BY <1>1, <1>3 DEF Item, DataInv, DataTypes
<1>5. \A i \in 1 .. q.used - 1 : p.slots[Place(q.read, i)] = q.slots[Place(q.read, i)]
  <2> TAKE i \in 1 .. q.used - 1
  <2>1. i \in 0 .. QueuePeriods - 1 /\ i \in 0 .. QueuePeriods /\ i # 0
    BY <1>3, Sizes
  <2>2. Place(q.read, i) # Place(q.read, 0) /\ Place(q.read, i) \in Places
    BY <1>3, <2>1, PlaceOnce, PlaceType
  <2> QED BY <1>1, <1>3, <2>2
<1>6. ~Checking(e) /\ (\A f : Checking(f)' = Checking(f))
  BY <1>0 DEF Checking, EndpointFree
<1>7. /\ RingRight' /\ Gen' = Gen /\ \A y : IsPublished(y)' = IsPublished(y)
  BY <1>0, RingSame, ProviderSame
<1>8. (\A f : Past(f)' = Past(f)) /\ Copied' = Copied /\ Older' = Older
  BY <1>0, <1>7, ProviderSame DEF Past, Served, Copied
<1>9. InTurn(q, got[e], Past(e), Copied, FALSE)
  <2>1. InTurn(q, got[e], Past(e), Copied, Checking(e))
    BY DEF OrderInv, Turns
  <2>2. Checking(e) = FALSE
    BY <1>6, CheckingType
  <2> QED BY <2>1, <2>2
<1> HIDE DEF p, q
<1>10. InTurn(p, h, Past(e), Copied, FALSE)
  <2>1. h = IF Item(q, 0).kept THEN Item(q, 0) ELSE got[e]
    OBVIOUS
  <2> HIDE DEF h
  <2> QED BY <1>1, <1>2, <1>5, <1>9, <2>1, TurnDrop
<1> HIDE DEF h
<1>11. Turns'
  <2> SUFFICES ASSUME NEW f \in Rx
               PROVE  InTurn(queue'[f], got'[f], Past(f)', Copied', Checking(f)')
    BY DEF Turns
  <2>1. CASE f = e
    BY <1>4, <1>6, <1>8, <1>10, <2>1, CheckingType DEF p
  <2>2. CASE f # e
    <3>1. InTurn(queue[f], got[f], Past(f), Copied, Checking(f))
      BY DEF OrderInv, Turns
    <3> QED BY <1>1, <1>4, <1>6, <1>8, <2>2, <3>1, Sizes
  <2> QED BY <2>1, <2>2
<1>12. Begun'
  <2> SUFFICES ASSUME NEW w \in Workers, thread'[w] = "copy"
               PROVE  \/ provider'.count >= cxt'.next
                      \/ InTurn(queue'[copy'.e], got'[copy'.e], Older', Older', FALSE)
    BY DEF Begun
  <2>1. thread[w] = "copy" /\ copy.e \in Rx /\ copy.e # e
    BY <1>0 DEF DataInv, Copying, InCopy, CopyType, EndpointFree
  <2>2. provider.count >= cxt.next \/ InTurn(queue[copy.e], got[copy.e], Older, Older, FALSE)
    BY <2>1 DEF OrderInv, Begun
  <2>3. queue'[copy'.e] = queue[copy.e] /\ got'[copy'.e] = got[copy.e]
    BY <1>0, <1>1, <1>4, <2>1, Sizes
  <2> QED BY <1>0, <1>8, <2>2, <2>3
<1>13. LoopInv'
  BY <1>0 DEF OrderInv, LoopInv, LockFree
<1> QED BY <1>7, <1>11, <1>12, <1>13 DEF OrderInv

LEMMA OrderInit == Init => OrderInv
<1> SUFFICES ASSUME Init PROVE OrderInv
  OBVIOUS
<1>1. /\ thread = [w \in Workers |-> "none"] /\ todo = {} /\ cxt = NotConn
      /\ queue = [e \in Endpoints |-> Empty] /\ got = [e \in Rx |-> Blank]
      /\ ring = [i \in 0 .. RingPeriods - 1 |-> Blank]
      /\ provider = [serial |-> 0, count |-> 0, filling |-> FALSE]
  BY DEF Init
<1>2. RingRight
  BY <1>1, BlankType DEF RingRight
<1>3. LoopInv /\ Begun /\ \A e : ~Checking(e)
  BY <1>1 DEF LoopInv, Begun, Looping, Checking
<1>4. \A e \in Rx : Blank \in Past(e)
  <2>1. Gen = 0
    <3>1. 0 \div 2 = 0
      OBVIOUS
    <3> QED BY <1>1, <3>1 DEF Gen
  <2>2. IsPublished(Blank)
    BY <1>1, <2>1, BlankType DEF IsPublished
  <2>3. ~cxt.up
    BY <1>1, NotConnType
  <2> QED BY <2>2, <2>3, BlankType DEF Past
<1>5. Turns
  <2> SUFFICES ASSUME NEW e \in Rx
               PROVE  InTurn(queue[e], got[e], Past(e), Copied, Checking(e))
    BY DEF Turns
  <2>1. queue[e] = Empty /\ got[e] = Blank
    BY <1>1, Sizes
  <2> QED BY <1>4, <2>1, EmptyType, TurnEmpty, CheckingType
<1> QED BY <1>2, <1>3, <1>5 DEF OrderInv

LEMMA OrderStep == LifeInv /\ DataInv /\ OrderInv /\ [Next]_vars => OrderInv'
<1> SUFFICES ASSUME LifeInv, DataInv, OrderInv, [Next]_vars PROVE OrderInv'
  OBVIOUS
<1>1. CASE UNCHANGED vars
  <2>1. SameLoop /\ UNCHANGED <<cxt, copy, got, ring, provider, queue, todo>>
    BY <1>1 DEF vars, SameLoop
  <2> QED BY <2>1, FrameOrder
<1>2. ASSUME NEW e \in Endpoints, Calls(e) PROVE OrderInv'
  <2>1. StillCall(e) \/ Open(e) \/ Detach(e) \/ Free(e)
    BY <1>2 DEF Calls, StillCall
  <2>2. CASE StillCall(e)
    <3>1. SameLoop /\ UNCHANGED <<cxt, copy, got, ring, provider, queue, todo>>
      BY <2>2, StillCalls DEF data, prov
    <3> QED BY <3>1, FrameOrder
  <2> QED BY <2>1, <2>2, OpenOrder
<1>3. ASSUME NEW w \in Workers, NEW e \in Tx, Transmit(w, e) PROVE OrderInv'
  <2>1. (\A f \in Rx : queue'[f] = queue[f]) /\ todo' = todo \ {e}
        /\ UNCHANGED <<thread, cxt, copy, got, ring, provider>>
    BY <1>3, TransmitData DEF Transmit, life, prov
  <2>2. SameLoop
    BY <2>1 DEF SameLoop
  <2>3. \A f \in Rx : f # e
    BY Sizes
  <2> QED BY <2>1, <2>2, <2>3, FrameOrder
<1>4. ASSUME NEW w \in Workers, Work(w) PROVE OrderInv'
  BY <1>3, <1>4, ConnectOrder, NextPeriodOrder, CopyOrder, CheckOrder, ReceiveOrder
  DEF Work, Connects
<1>5. ASSUME NEW e \in Rx, Read(e) PROVE OrderInv'
  BY <1>5, ReadOrder
<1>6. ASSUME NEW e \in Tx, Write(e) PROVE OrderInv'
  <2>1. (\A f \in Rx : queue'[f] = queue[f])
        /\ UNCHANGED <<thread, cxt, copy, todo, got, ring, provider>>
    BY <1>6, WriteData DEF Write, life, prov
  <2>2. SameLoop
    BY <2>1 DEF SameLoop
  <2> QED BY <2>1, <2>2, FrameOrder
<1>7. CASE Provide
  BY <1>7, ProviderOrder
<1> QED BY <1>1, <1>2, <1>4, <1>5, <1>6, <1>7 DEF Next

(***************************************************************************)
(* The periods whose copy was accepted leave the queue of a receiving      *)
(* endpoint in the provider's order and none twice, however the provider   *)
(* overtakes the worker, laps its ring and resets, and however full the    *)
(* queue is (receive_period and its second look at period_count).  Nothing *)
(* is said of the samples that an undone copy leaves in a full queue.      *)
(***************************************************************************)
THEOREM PeriodsInTurn == ASSUME SamePipeline PROVE Spec => []InOrder
<1>1. Init => LifeInv /\ DataInv /\ OrderInv
  BY LifeInit, DataInit, OrderInit
<1>2. LifeInv /\ DataInv /\ OrderInv /\ [Next]_vars => (LifeInv /\ DataInv /\ OrderInv)'
  BY LifeStep, DataStep, OrderStep
<1>3. DataInv /\ OrderInv => InOrder
  <2> SUFFICES ASSUME DataInv, OrderInv, NEW e \in Rx
               PROVE  \A i \in 0 .. queue[e].used - 1 : InUse(e, i).kept =>
                         /\ Before(got[e], InUse(e, i))
                         /\ \A j \in 0 .. i - 1 : InUse(e, j).kept => Before(InUse(e, j), InUse(e, i))
    BY DEF InOrder
  <2>1. InTurn(queue[e], got[e], Past(e), Copied, Checking(e))
    BY DEF OrderInv, Turns
  <2>2. queue[e] \in QueueType
    BY Sizes DEF DataInv, DataTypes
  <2>3. queue[e].read \in Places /\ queue[e].used \in 0 .. QueuePeriods
    BY <2>2 DEF QueueType
  <2>4. \A i \in 0 .. queue[e].used - 1 :
           i \in 0 .. QueuePeriods /\ \A j \in 0 .. i - 1 : j \in 0 .. queue[e].used - 1
    BY <2>3, Sizes
  <2>5. \A i \in 0 .. queue[e].used - 1 : InUse(e, i) = Item(queue[e], i)
    BY <2>3, <2>4, SlotIs DEF InUse, Slot, Item
  <2> QED BY <2>1, <2>4, <2>5 DEF InTurn
<1> QED BY <1>1, <1>2, <1>3, PTL DEF Spec
=============================================================================
