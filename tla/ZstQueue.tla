------------------------------ MODULE ZstQueue ------------------------------
(***************************************************************************)
(* zst_queue_t (src/zst_queue.c): the bounded multi-producer/              *)
(* multi-consumer ring every queue element, scheduler and demuxer thread   *)
(* hands buffers over with.                                                *)
(*                                                                         *)
(* A slot carries a sequence number; position p of the stream lives in     *)
(* slot p % capacity.  A producer claims position p by a compare-and-swap  *)
(* of tail when the slot's sequence is p, fills the slot and publishes it  *)
(* by storing p + 1; a consumer claims p by a compare-and-swap of head     *)
(* when it reads p + 1, empties the slot and frees it by storing           *)
(* p + capacity.  A thread that finds no slot counts itself in a waiter    *)
(* counter, re-checks under the mutex and waits on a condition variable;   *)
(* whoever publishes or frees a slot signals one waiter when the counter   *)
(* it reads afterwards is positive.                                        *)
(*                                                                         *)
(* One action is one access to shared memory.  Memory is sequentially      *)
(* consistent (see the README for what that leaves out).  The mutex is     *)
(* visible as a variable only where it is held across two accesses.        *)
(***************************************************************************)
EXTENDS Integers, Sequences, FiniteSets, FiniteSetsExt

CONSTANTS
    Producers,    \* threads that call zst_queue_push
    Consumers,    \* threads that call zst_queue_pop or zst_queue_flush
    Buffers,      \* records [size, pts, duration]: what buffers differ in
    NoBuf,        \* the NULL buffer
    NoThread,     \* the mutex is free
    Async,        \* cfg.mode = ZST_QUEUE_ASYNC
    MaxBuffers,   \* cfg.max_buffers, 0: no limit configured
    MaxBytes,     \* cfg.max_bytes, 0: no limit
    MaxDuration,  \* cfg.max_duration, 0: no limit
    Capacity,     \* slots of the ring
    PushOps,      \* timeouts producers pass: subset of {"zero", "timed", "inf"}
    PopOps,       \* the same for consumers, and "flush"
    MaxPushes,    \* bound: calls per producer
    MaxPops       \* bound: calls per consumer

Threads == Producers \cup Consumers

\* zst_queue_create: the ring has the least power of two of at least two slots
\* that holds max_buffers (16 when no limit is configured).
IsCapacity(c) ==
    LET want == IF MaxBuffers > 0 THEN MaxBuffers ELSE 16 IN
    \E k \in 1..31 : c = 2^k /\ c >= want /\ (k = 1 \/ 2^(k-1) < want)

ASSUME ThreadsAssumption ==
    /\ Producers \cap Consumers = {}
    /\ NoThread \notin Threads
    /\ NoBuf \notin Buffers
ASSUME LimitsAssumption ==
    /\ Async \in BOOLEAN
    /\ MaxBuffers \in Nat /\ MaxBytes \in Nat /\ MaxDuration \in Nat
    /\ MaxPushes \in Nat /\ MaxPops \in Nat
ASSUME BuffersAssumption ==
    Buffers \subseteq [size : Nat, pts : Nat, duration : Nat]
ASSUME CapacityAssumption ==
    Capacity \in Nat /\ Capacity >= 2 /\ MaxBuffers <= Capacity
ASSUME CapacityIsPowerOfTwo == IsCapacity(Capacity)
ASSUME OpsAssumption ==
    /\ PushOps \subseteq {"zero", "timed", "inf"}
    /\ PopOps \subseteq {"zero", "timed", "inf", "flush"}

\* q->has_extra_limits: whether a push asks zst_queue_is_full at all.
HasExtraLimits ==
    \/ MaxBytes > 0
    \/ MaxDuration > 0
    \/ MaxBuffers > 0 /\ MaxBuffers < Capacity

VARIABLES
    head, tail,   \* next position to pop, next position to push
    seq, buf,     \* per slot: its sequence number and its buffer
    bytes,        \* q->approx_bytes
    waiters,      \* q->waiters_push and q->waiters_pop
    lock,         \* holder of q->lock
    pc, op, pos,  \* per thread: where it is, its timeout, its position
    item,         \* per thread: the buffer it pushes, or has popped
    seen,         \* per producer: the head zst_queue_size has read
    calls,        \* per thread: calls made
    hist          \* history: the buffer of every claimed position

shared == <<head, tail, seq, buf, bytes>>
local == <<op, pos, item, seen, calls>>
vars == <<shared, waiters, lock, pc, local, hist>>

Slots == 0..(Capacity - 1)
Slot(p) == p % Capacity
Side(t) == IF t \in Producers THEN "push" ELSE "pop"

\* The index a thread claims positions from, and the sequence number that
\* tells it that its position's slot is ready.
Index(t) == IF t \in Producers THEN tail ELSE head
Ready(t) == IF t \in Producers THEN pos[t] ELSE pos[t] + 1

Goto(t, l) == pc' = [pc EXCEPT ![t] = l]

Init ==
    /\ head = 0 /\ tail = 0
    /\ seq = [i \in Slots |-> i]
    /\ buf = [i \in Slots |-> NoBuf]
    /\ bytes = 0
    /\ waiters = [s \in {"push", "pop"} |-> 0]
    /\ lock = NoThread
    /\ pc = [t \in Threads |-> "idle"]
    /\ op = [t \in Threads |-> "zero"]
    /\ pos = [t \in Threads |-> 0]
    /\ item = [t \in Threads |-> NoBuf]
    /\ seen = [t \in Threads |-> 0]
    /\ calls = [t \in Threads |-> 0]
    /\ hist = <<>>

-----------------------------------------------------------------------------
(* zst_queue_get_duration and zst_queue_is_full.  The scan of the slots is  *)
(* one step; head and tail of zst_queue_size are two.                       *)

Published == {p \in head..(tail - 1) : seq[Slot(p)] = p + 1}

Duration ==
    IF Published = {} THEN 0
    ELSE LET first == buf[Slot(Min(Published))].pts
             last == buf[Slot(Max(Published))].pts
         IN  IF last >= first /\ first # 0
             THEN last - first
             ELSE MapThenSumSet(LAMBDA p : buf[Slot(p)].duration, Published)

IsFull_OffByOne(h) ==
    \/ MaxBuffers > 0 /\ tail - h > MaxBuffers
    \/ MaxBytes > 0 /\ bytes >= MaxBytes
    \/ MaxDuration > 0 /\ Duration >= MaxDuration

\* h is the head zst_queue_size read one step earlier.
IsFull(h) ==
    \/ MaxBuffers > 0 /\ tail - h >= MaxBuffers
    \/ MaxBytes > 0 /\ bytes >= MaxBytes
    \/ MaxDuration > 0 /\ Duration >= MaxDuration

-----------------------------------------------------------------------------
(* Calls and returns.                                                       *)

PushCall(t, b, o) ==
    /\ pc[t] = "idle" /\ calls[t] < MaxPushes
    /\ Goto(t, "seq")
    /\ op' = [op EXCEPT ![t] = o]
    /\ item' = [item EXCEPT ![t] = b]
    /\ pos' = [pos EXCEPT ![t] = tail]
    /\ calls' = [calls EXCEPT ![t] = @ + 1]
    /\ UNCHANGED <<shared, waiters, lock, seen, hist>>

PopCall(t, o) ==
    /\ pc[t] = "idle" /\ calls[t] < MaxPops
    /\ Goto(t, "seq")
    /\ op' = [op EXCEPT ![t] = o]
    /\ item' = [item EXCEPT ![t] = NoBuf]
    /\ pos' = [pos EXCEPT ![t] = head]
    /\ calls' = [calls EXCEPT ![t] = @ + 1]
    /\ UNCHANGED <<shared, waiters, lock, seen, hist>>

\* zst_queue_flush drops what it popped and pops again.
FlushNext(t) ==
    /\ pc[t] = "again"
    /\ Goto(t, "seq")
    /\ item' = [item EXCEPT ![t] = NoBuf]
    /\ pos' = [pos EXCEPT ![t] = head]
    /\ UNCHANGED <<shared, waiters, lock, op, seen, calls, hist>>

\* Where a call that succeeded continues.
AfterOk(t) == IF op[t] = "flush" THEN "again" ELSE "idle"

\* Where a thread that found no room, or no buffer, continues.
NotReady(t, waiting) ==
    IF (t \in Producers /\ Async) \/ op[t] \in {"zero", "flush"}
    THEN "idle"
    ELSE waiting

-----------------------------------------------------------------------------
(* Claiming a position.                                                     *)

LoadSeq(t) ==
    /\ pc[t] = "seq"
    /\ LET diff == seq[Slot(pos[t])] - Ready(t) IN
       \/ diff = 0 /\ Goto(t, IF t \in Producers /\ HasExtraLimits
                              THEN "fullHead" ELSE "claim")
       \/ diff < 0 /\ Goto(t, NotReady(t, "incSeq"))
       \/ diff > 0 /\ Goto(t, "reload")
    /\ UNCHANGED <<shared, waiters, lock, local, hist>>

IsFullHead(t) ==
    /\ pc[t] = "fullHead"
    /\ Goto(t, "fullTail")
    /\ seen' = [seen EXCEPT ![t] = head]
    /\ UNCHANGED <<shared, waiters, lock, op, pos, item, calls, hist>>

IsFullTail(t) ==
    /\ pc[t] = "fullTail"
    /\ Goto(t, IF IsFull(seen[t]) THEN NotReady(t, "incFull") ELSE "claim")
    /\ UNCHANGED <<shared, waiters, lock, local, hist>>

ClaimTail_NoCompare(t) ==
    /\ pc[t] = "claim" /\ t \in Producers
    /\ tail' = pos[t] + 1
    /\ hist' = Append(hist, item[t])
    /\ Goto(t, "fill")
    /\ UNCHANGED <<head, seq, buf, bytes, waiters, lock, local>>

\* The weak compare-and-swap: it claims the position, or it loads the index
\* (it may fail although the index is unchanged).
ClaimTail(t) ==
    /\ pc[t] = "claim" /\ t \in Producers
    /\ tail = pos[t]
    /\ tail' = tail + 1
    /\ hist' = Append(hist, item[t])
    /\ Goto(t, "fill")
    /\ UNCHANGED <<head, seq, buf, bytes, waiters, lock, local>>

ClaimHead(t) ==
    /\ pc[t] = "claim" /\ t \in Consumers
    /\ head = pos[t]
    /\ head' = head + 1
    /\ Goto(t, "take")
    /\ UNCHANGED <<tail, seq, buf, bytes, waiters, lock, local, hist>>

ClaimFails(t) ==
    /\ pc[t] = "claim"
    /\ pos' = [pos EXCEPT ![t] = Index(t)]
    /\ Goto(t, "seq")
    /\ UNCHANGED <<shared, waiters, lock, op, item, seen, calls, hist>>

Reload(t) ==
    /\ pc[t] = "reload"
    /\ pos' = [pos EXCEPT ![t] = Index(t)]
    /\ Goto(t, "seq")
    /\ UNCHANGED <<shared, waiters, lock, op, item, seen, calls, hist>>

-----------------------------------------------------------------------------
(* Using the claimed slot, and telling the other side.                      *)

FillSlot_AtTail(t) ==
    /\ pc[t] = "fill"
    /\ buf' = [buf EXCEPT ![Slot(tail - 1)] = item[t]]
    /\ Goto(t, "count")
    /\ UNCHANGED <<head, tail, seq, bytes, waiters, lock, local, hist>>

\* The stores to the slot, which the claim makes the producer's own.
FillSlot(t) ==
    /\ pc[t] = "fill"
    /\ buf' = [buf EXCEPT ![Slot(pos[t])] = item[t]]
    /\ Goto(t, "count")
    /\ UNCHANGED <<head, tail, seq, bytes, waiters, lock, local, hist>>

\* The fetch_add of approx_bytes, which everyone reads without the mutex.
AddBytes(t) ==
    /\ pc[t] = "count"
    /\ bytes' = bytes + item[t].size
    /\ Goto(t, "publish")
    /\ UNCHANGED <<head, tail, seq, buf, waiters, lock, local, hist>>

Publish(t) ==
    /\ pc[t] = "publish"
    /\ seq' = [seq EXCEPT ![Slot(pos[t])] = pos[t] + 1]
    /\ Goto(t, "notify")
    /\ UNCHANGED <<head, tail, buf, bytes, waiters, lock, local, hist>>

TakeSlot_BytesKept(t) ==
    /\ pc[t] = "take"
    /\ item' = [item EXCEPT ![t] = buf[Slot(pos[t])]]
    /\ Goto(t, "clear")
    /\ UNCHANGED <<shared, waiters, lock, op, pos, seen, calls, hist>>

\* The load of the buffer and the fetch_sub of its size.
TakeSlot(t) ==
    /\ pc[t] = "take"
    /\ LET b == buf[Slot(pos[t])] IN
       /\ item' = [item EXCEPT ![t] = b]
       /\ bytes' = bytes - IF b = NoBuf THEN 0 ELSE b.size
    /\ Goto(t, "clear")
    /\ UNCHANGED <<head, tail, seq, buf, waiters, lock, op, pos, seen, calls, hist>>

\* The reset of the slot.
ClearSlot(t) ==
    /\ pc[t] = "clear"
    /\ buf' = [buf EXCEPT ![Slot(pos[t])] = NoBuf]
    /\ Goto(t, "free")
    /\ UNCHANGED <<head, tail, seq, bytes, waiters, lock, local, hist>>

FreeSlot_Behind(t) ==
    /\ pc[t] = "free"
    /\ seq' = [seq EXCEPT ![Slot(pos[t])] = pos[t] - Capacity]
    /\ Goto(t, "notify")
    /\ UNCHANGED <<head, tail, buf, bytes, waiters, lock, local, hist>>

FreeSlot(t) ==
    /\ pc[t] = "free"
    /\ seq' = [seq EXCEPT ![Slot(pos[t])] = pos[t] + Capacity]
    /\ Goto(t, "notify")
    /\ UNCHANGED <<head, tail, buf, bytes, waiters, lock, local, hist>>

Other(s) == IF s = "push" THEN "pop" ELSE "push"

LoadWaiters_OwnSide(t) ==
    /\ pc[t] = "notify"
    /\ Goto(t, IF waiters[Side(t)] > 0 THEN "signal" ELSE AfterOk(t))
    /\ UNCHANGED <<shared, waiters, lock, local, hist>>

\* The load of the other side's waiter counter, after the seq_cst fence.
LoadWaiters(t) ==
    /\ pc[t] = "notify"
    /\ Goto(t, IF waiters[Other(Side(t))] > 0 THEN "signal" ELSE AfterOk(t))
    /\ UNCHANGED <<shared, waiters, lock, local, hist>>

\* pthread_cond_signal under the mutex: it wakes one waiter if there is one.
Waiting(s) == {t \in Threads : pc[t] = "wait" /\ Side(t) = s}

Signal(t) ==
    /\ pc[t] = "signal" /\ lock = NoThread
    /\ LET W == Waiting(Other(Side(t))) IN
       \/ W = {} /\ Goto(t, AfterOk(t))
       \/ \E w \in W : pc' = [pc EXCEPT ![t] = AfterOk(t), ![w] = "woken"]
    /\ UNCHANGED <<shared, waiters, lock, local, hist>>

-----------------------------------------------------------------------------
(* Waiting: count, re-check under the mutex, wait, uncount.                 *)

IncWaiters_NoRecheck(t) ==
    /\ pc[t] \in {"incSeq", "incFull"}
    /\ waiters' = [waiters EXCEPT ![Side(t)] = @ + 1]
    /\ Goto(t, "wait")
    /\ UNCHANGED <<shared, lock, local, hist>>

IncWaiters(t) ==
    /\ pc[t] \in {"incSeq", "incFull"}
    /\ waiters' = [waiters EXCEPT ![Side(t)] = @ + 1]
    /\ Goto(t, IF pc[t] = "incSeq" THEN "recheckSeq" ELSE "recheckHead")
    /\ UNCHANGED <<shared, lock, local, hist>>

\* Lock, load the sequence again, then wait (which unlocks) or unlock.
RecheckSeq(t) ==
    /\ pc[t] = "recheckSeq" /\ lock = NoThread
    /\ Goto(t, IF seq[Slot(pos[t])] < Ready(t) THEN "wait" ELSE "dec")
    /\ UNCHANGED <<shared, waiters, lock, local, hist>>

\* The same for zst_queue_is_full, which reads head and tail in two steps.
RecheckHead(t) ==
    /\ pc[t] = "recheckHead" /\ lock = NoThread
    /\ lock' = t
    /\ seen' = [seen EXCEPT ![t] = head]
    /\ Goto(t, "recheckTail")
    /\ UNCHANGED <<shared, waiters, op, pos, item, calls, hist>>

RecheckTail(t) ==
    /\ pc[t] = "recheckTail"
    /\ lock' = NoThread
    /\ Goto(t, IF IsFull(seen[t]) THEN "wait" ELSE "dec")
    /\ UNCHANGED <<shared, waiters, local, hist>>

\* pthread_cond_wait may return without a signal.
SpuriousWakeup(t) ==
    /\ pc[t] = "wait"
    /\ Goto(t, "woken")
    /\ UNCHANGED <<shared, waiters, lock, local, hist>>

Deadline(t) ==
    /\ pc[t] = "wait" /\ op[t] = "timed"
    /\ Goto(t, "late")
    /\ UNCHANGED <<shared, waiters, lock, local, hist>>

\* A thread that returns from the wait takes the mutex and releases it.
Relock(t) ==
    /\ pc[t] \in {"woken", "late"} /\ lock = NoThread
    /\ Goto(t, IF pc[t] = "woken" THEN "dec" ELSE "decLate")
    /\ UNCHANGED <<shared, waiters, lock, local, hist>>

\* Mutant of the next: a late thread goes back to the index too, and may never
\* return from a call that had a deadline.
DecWaiters_LateRetries(t) ==
    /\ pc[t] \in {"dec", "decLate"}
    /\ waiters' = [waiters EXCEPT ![Side(t)] = @ - 1]
    /\ Goto(t, "reload")
    /\ UNCHANGED <<shared, lock, local, hist>>

\* A woken thread tries again from the index, a late one returns ZST_TIMEOUT.
DecWaiters(t) ==
    /\ pc[t] \in {"dec", "decLate"}
    /\ waiters' = [waiters EXCEPT ![Side(t)] = @ - 1]
    /\ Goto(t, IF pc[t] = "dec" THEN "reload" ELSE "idle")
    /\ UNCHANGED <<shared, lock, local, hist>>

-----------------------------------------------------------------------------
Step(t) ==
    \/ LoadSeq(t) \/ ClaimFails(t) \/ Reload(t)
    \/ LoadWaiters(t) \/ Signal(t)
    \/ IncWaiters(t) \/ RecheckSeq(t) \/ SpuriousWakeup(t) \/ Deadline(t)
    \/ Relock(t) \/ DecWaiters(t)

ProducerStep(t) ==
    \/ \E b \in Buffers, o \in PushOps : PushCall(t, b, o)
    \/ IsFullHead(t) \/ IsFullTail(t) \/ RecheckHead(t) \/ RecheckTail(t)
    \/ ClaimTail(t) \/ FillSlot(t) \/ AddBytes(t) \/ Publish(t)

ConsumerStep(t) ==
    \/ \E o \in PopOps : PopCall(t, o)
    \/ FlushNext(t)
    \/ ClaimHead(t) \/ TakeSlot(t) \/ ClearSlot(t) \/ FreeSlot(t)

Next ==
    \/ \E t \in Threads : Step(t)
    \/ \E t \in Producers : ProducerStep(t)
    \/ \E t \in Consumers : ConsumerStep(t)

Spec == Init /\ [][Next]_vars

\* What the threads are guaranteed: a thread inside a call keeps running, it
\* does not find the mutex taken or lose its compare-and-swap again and again for
\* ever, an absolute deadline that has passed ends the next timed wait, and
\* consumers keep popping (the worker loops do).  Nothing makes a wait return
\* without a signal.
Contends(t) == Signal(t) \/ RecheckSeq(t) \/ Relock(t)

Runs(t) ==
    \/ LoadSeq(t) \/ Reload(t) \/ LoadWaiters(t) \/ IncWaiters(t) \/ DecWaiters(t)
    \/ (Index(t) # pos[t] /\ ClaimFails(t))

Fairness ==
    /\ \A t \in Threads : SF_vars(Deadline(t))
    /\ \A t \in Producers :
        /\ WF_vars(\/ Runs(t) \/ IsFullHead(t) \/ IsFullTail(t) \/ RecheckTail(t)
                   \/ FillSlot(t) \/ AddBytes(t) \/ Publish(t))
        /\ SF_vars(ClaimTail(t) \/ Contends(t) \/ RecheckHead(t))
    /\ \A t \in Consumers :
        /\ WF_vars(\/ Runs(t) \/ FlushNext(t) \/ TakeSlot(t) \/ ClearSlot(t) \/ FreeSlot(t)
                   \/ \E o \in PopOps : PopCall(t, o))
        /\ SF_vars(ClaimHead(t) \/ Contends(t))

FairSpec == Spec /\ Fairness

-----------------------------------------------------------------------------
(* Properties.                                                              *)

CommonPc ==
    {"idle", "seq", "claim", "reload", "notify", "signal", "incSeq",
     "recheckSeq", "wait", "woken", "late", "dec", "decLate"}
PushPc ==
    CommonPc \cup {"fullHead", "fullTail", "incFull", "recheckHead",
                   "recheckTail", "fill", "count", "publish"}
PopPc == CommonPc \cup {"take", "clear", "free", "again"}

\* The variables hold values of the types the C declarations give them:
\* indices, sequence numbers and byte counts are integers, a slot holds a
\* buffer or NULL.
TypeOK ==
    /\ head \in Nat /\ tail \in Nat
    /\ seq \in [Slots -> Nat]
    /\ buf \in [Slots -> Buffers \cup {NoBuf}]
    /\ bytes \in Int
    /\ waiters \in [{"push", "pop"} -> Int]
    /\ lock \in Threads \cup {NoThread}
    /\ pc \in [Threads -> PushPc \cup PopPc]
    /\ op \in [Threads -> {"zero", "timed", "inf", "flush"}]
    /\ pos \in [Threads -> Nat]
    /\ item \in [Threads -> Buffers \cup {NoBuf}]
    /\ seen \in [Threads -> Nat]
    /\ calls \in [Threads -> Nat]
    /\ hist \in Seq(Buffers)

Limit == IF MaxBuffers > 0 THEN MaxBuffers ELSE Capacity

\* The queue never holds more than max_buffers buffers (the ring's capacity
\* when no limit is set), however many producers pass zst_queue_is_full at
\* once: the check is not under the mutex, but the compare-and-swap succeeds
\* only if no producer has claimed a position since the check.
Bounded == head <= tail /\ tail - head <= Limit

\* The threads that have claimed a position and not yet handed its slot on.
Working == {"fill", "count", "publish", "take", "clear", "free"}
Owners == {t \in Threads : pc[t] \in Working}

\* Between its claim and its store of the sequence number, a thread is the
\* only one that touches the slot: the stores to buf, pts and duration are
\* plain data to everyone else (zst_queue.c:283-289, 362-375).
ExclusiveSlot ==
    \A t, u \in Owners : t # u => Slot(pos[t]) # Slot(pos[u])

\* A consumer that claimed position p finds the buffer that was pushed at p,
\* never NULL, an older or a newer one: first in, first out, nothing lost and
\* nothing popped twice.
FirstInFirstOut ==
    \A c \in Consumers :
        pc[c] \in {"clear", "free", "notify", "signal", "again"} =>
            item[c] = hist[pos[c] + 1]

\* The bytes of the stored buffers, one by one, without the buffers a producer
\* has stored and not yet counted and those a consumer has already uncounted
\* and not yet removed.
Unsettled(i) ==
    \E t \in Threads : pc[t] \in {"count", "clear"} /\ Slot(pos[t]) = i
Settled == {i \in Slots : buf[i] # NoBuf /\ ~Unsettled(i)}
SettledBytes == UNION {{i} \X (1..buf[i].size) : i \in Settled}

\* approx_bytes differs from the bytes in the ring only by what threads between
\* their access to the slot and their access to the counter account for
\* (zst_queue.c:285-286, 366-372): nothing is counted twice or taken away before
\* it was added, so the unsigned counter does not wrap and close the queue for
\* ever, and it is exact whenever no thread is between the two.
BytesExact == bytes = Cardinality(SettledBytes)

\* No thread is on its way to a return or a wait: only calls that block, and
\* calls not yet made, are left.
Quiet == \A t \in Threads : pc[t] \in {"idle", "wait"}

\* A thread that pops without a timeout is not left waiting beside a published
\* buffer once every other call has returned ("If the queue is empty, the
\* thread pulling data will block until new data arrives",
\* docs/architecture/queue-threading.md).
NoStuckPop ==
    Quiet /\ Published # {} =>
        \A c \in Consumers : pc[c] = "wait" => op[c] = "timed"

\* A push that looked now would find its slot free and no limit reached.
Room == seq[Slot(tail)] = tail /\ ~(HasExtraLimits /\ IsFull(head))

\* A thread that pushes without a timeout is not left waiting while there is
\* room once every other call has returned ("If the queue is full, the thread
\* pushing data (the upstream thread) will block until space becomes available",
\* the same page).  A limit in bytes or time breaks it: a pop signals one producer
\* (zst_queue.c:382), and one large buffer makes room for several.
NoStuckPush ==
    Quiet /\ Room => \A p \in Producers : pc[p] = "wait" => op[p] = "timed"

\* The two together: where buffers are limited by their number alone, the
\* waiter counters and the rechecks after counting (zst_queue.c:227-243,
\* 291-300) lose no wakeup between one consumer and any number of producers.
NoLostWakeup == NoStuckPop /\ NoStuckPush

\* Under every limit: no thread that waits without a timeout is stranded.  One
\* consumer does not sleep beside a published buffer, and a producer sleeps
\* only while a buffer is left in the queue, whose pop will signal it.  With a
\* limit in bytes or time that is all the code gives (see NoStuckPush).
NeverStranded ==
    /\ NoStuckPop
    /\ Quiet /\ head = tail =>
           \A p \in Producers : pc[p] = "wait" => op[p] = "timed"

\* A call to pop returns as long as there is a buffer in the queue: the worker
\* thread of a queue element never sleeps on a non-empty queue.
PopServed ==
    \A c \in Consumers : pc[c] # "idle" /\ head < tail ~> pc[c] = "idle"

\* Back-pressure ends: a push returns, unless it waits without a timeout and
\* the consumers have stopped popping.
PushServed ==
    \A p \in Producers :
        pc[p] # "idle" ~>
            \/ pc[p] = "idle"
            \/ ~Async /\ op[p] = "inf" /\ \A c \in Consumers : calls[c] = MaxPops

\* Every call returns that can: PopServed and PushServed (zst_queue.c:220-380).
CallsServed == PopServed /\ PushServed

-----------------------------------------------------------------------------
(* The inductive invariant of the ring.                                     *)

\* Each side has its own program points; a push has a buffer,
\* and only a consumer flushes.
Sides ==
    /\ \A t \in Producers : pc[t] \in PushPc
    /\ \A t \in Consumers : pc[t] \in PopPc
    /\ \A t \in Producers : pc[t] # "idle" => item[t] \in Buffers
    /\ \A t \in Producers : op[t] # "flush"

Filling(t) == t \in Producers /\ pc[t] \in {"fill", "count", "publish"}
Taking(t) == t \in Consumers /\ pc[t] \in {"take", "clear", "free"}

\* Every slot is in one of the four phases of its position: claimed, published,
\* claimed by a consumer of the previous round, free.
SlotPhases ==
    /\ head <= tail /\ tail <= head + Capacity /\ Len(hist) = tail
    /\ \A p \in head..(tail - 1) :
            /\ seq[Slot(p)] = p \/ seq[Slot(p)] = p + 1
            /\ seq[Slot(p)] = p + 1 => buf[Slot(p)] = hist[p + 1]
    /\ \A p \in tail..(head + Capacity - 1) :
            seq[Slot(p)] = p \/ seq[Slot(p)] = p + 1 - Capacity

\* What a thread that holds a claim knows of its slot.
Claims ==
    /\ \A t \in Producers : Filling(t) =>
            /\ head <= pos[t] /\ pos[t] < tail
            /\ seq[Slot(pos[t])] = pos[t]
            /\ item[t] = hist[pos[t] + 1]
            /\ pc[t] \in {"count", "publish"} => buf[Slot(pos[t])] = item[t]
    /\ \A t, u \in Producers :
            Filling(t) /\ Filling(u) /\ t # u => pos[t] # pos[u]
    /\ \A t \in Consumers : Taking(t) =>
            /\ pos[t] < head /\ tail <= pos[t] + Capacity
            /\ seq[Slot(pos[t])] = pos[t] + 1
            /\ pc[t] \in {"take", "clear"} =>
                   buf[Slot(pos[t])] = hist[pos[t] + 1]
    /\ \A t, u \in Consumers :
            Taking(t) /\ Taking(u) /\ t # u => pos[t] # pos[u]

\* What a thread about to compare-and-swap has seen stays true as long as the
\* index it compares has not moved.
ProducerKnows(t) ==
    /\ pos[t] <= tail
    /\ seen[t] <= head
    /\ pc[t] \in {"fullHead", "fullTail", "claim"} /\ pos[t] = tail =>
            seq[Slot(tail)] = tail
    /\ pc[t] = "claim" /\ pos[t] = tail /\ HasExtraLimits /\ MaxBuffers > 0 =>
            tail - head < MaxBuffers

ConsumerKnows(t) ==
    /\ pos[t] <= head
    /\ pc[t] = "claim" /\ pos[t] = head => seq[Slot(head)] = head + 1
    /\ pc[t] \in {"clear", "free", "notify", "signal", "again"} =>
            pos[t] < head /\ item[t] = hist[pos[t] + 1]

Observations ==
    /\ \A t \in Producers : ProducerKnows(t)
    /\ \A t \in Consumers : ConsumerKnows(t)

\* The ring's inductive invariant: every step preserves it, and it implies
\* Bounded, ExclusiveSlot and FirstInFirstOut.
IndInv ==
    TypeOK /\ Sides /\ SlotPhases /\ Claims /\ Observations /\ Bounded

-----------------------------------------------------------------------------
(* The ring implements the bounded FIFO of ZstFifo: a push takes effect when *)
(* it claims tail, a pop when it claims head.                               *)

Claimed == Working \cup {"notify", "signal"}

FifoQueue == SubSeq(hist, head + 1, tail)
FifoCall(t) ==
    IF pc[t] \in {"idle", "again"} THEN "idle" ELSE IF pc[t] \in Claimed THEN "done" ELSE "open"
FifoArg(t) == IF pc[t] = "take" THEN hist[pos[t] + 1] ELSE item[t]

Fifo == INSTANCE ZstFifo WITH
    Bound <- Limit,
    queue <- FifoQueue,
    call <- [t \in Threads |-> FifoCall(t)],
    arg <- [t \in Threads |-> FifoArg(t)]

\* Every step of the ring is a step of the bounded FIFO or changes nothing the
\* FIFO shows.
ImplementsFifo == Fifo!Spec
=============================================================================
