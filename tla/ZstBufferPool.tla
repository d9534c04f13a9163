--------------------------- MODULE ZstBufferPool ---------------------------
(***************************************************************************)
(* zst_buffer_pool_t and the reference counts of the buffers it owns       *)
(* (src/zst_buffer_pool.c, src/zst_buffer.c).                              *)
(*                                                                         *)
(* The pool keeps a stack of idle buffers, at most max_buffers of them,    *)
(* and total_allocated counts every buffer that carries a pointer to the   *)
(* pool, wherever it is.  The last unref of a buffer returns it: it is     *)
(* pushed on the stack, or freed when the stack is full or the pool was    *)
(* destroyed.  A destroyed pool lives on until its last buffer came back;  *)
(* whoever brings total_allocated to zero then frees the pool itself.      *)
(*                                                                         *)
(* One action is one critical section of pool->lock, or one atomic access  *)
(* to a reference count.  What happens between two critical sections of a  *)
(* call (the buffer is freed, the pool is freed, a callback runs) is an    *)
(* action of its own.                                                      *)
(***************************************************************************)
EXTENDS Integers, Sequences, FiniteSets, Functions

CONSTANTS
    Threads,        \* threads of the pipeline that hold pool or buffer pointers
    Acquirers,      \* those that call zst_buffer_pool_acquire
    Controllers,    \* those that reconfigure or destroy the pool
    Buffers,        \* addresses a buffer can be allocated at
    InitialConfig,  \* [min, max] given to zst_buffer_pool_create
    Configs,        \* those given to zst_buffer_pool_set_config
    QueueCounts,    \* queues the pipeline counts when it sizes the pool
    Waits,          \* subset of {"nonblock", "zero", "timed", "inf"}
    ControlOps,     \* subset of {"set", "size", "prefill", "drain", "destroy"}
    AllocMayFail,   \* whether the allocator can run out of memory
    DestroyRaces,   \* whether destroy may overlap a call of acquire
    Low, High,      \* {low_watermark}, {high_watermark}; {}: no callback
    MaxRefs,        \* bound: references to one buffer
    MaxConfigs      \* bound: successful calls of set_config

DefaultMax == 32

\* The normalisation zst_buffer_pool_create and zst_buffer_pool_set_config
\* apply to a configuration.
Norm(c) ==
    LET max == IF c.max = 0 THEN DefaultMax ELSE c.max
    IN  [min |-> IF c.min > max THEN max ELSE c.min, max |-> max]

\* zst_pool_config_default_size and its twin in the pipeline: room for one
\* buffer per queue, one being filled and one being consumed.
SizedFor(c, queues) ==
    IF queues > 0 /\ c.min < queues + 2
    THEN [min |-> queues + 2,
          max |-> IF c.max < queues + 2 THEN 2 * (queues + 2) ELSE c.max]
    ELSE c

Config == [min : Nat, max : Nat]

ASSUME PoolConstants ==
    /\ Acquirers \subseteq Threads /\ Controllers \subseteq Threads
    /\ IsFiniteSet(Buffers) /\ IsFiniteSet(Threads)
    /\ InitialConfig \in Config /\ Configs \subseteq Config
    /\ QueueCounts \subseteq Nat
    /\ AllocMayFail \in BOOLEAN /\ DestroyRaces \in BOOLEAN
    /\ MaxRefs \in Nat \ {0} /\ MaxConfigs \in Nat
\* The address space is never what limits an allocation.
ASSUME AddressesSuffice ==
    \A c \in Configs \cup {InitialConfig} :
        /\ Norm(c).max <= Cardinality(Buffers)
        /\ \A q \in QueueCounts : SizedFor(Norm(c), q).max <= Cardinality(Buffers)

VARIABLES
    idle,      \* pool->buffers[0 .. count-1], the top of the stack last
    total,     \* pool->total_allocated
    config,    \* pool->config
    gen,       \* pool->generation
    active,    \* pool->active
    freed,     \* how often the pool itself was freed
    live,      \* buffers allocated and not freed
    refs,      \* buf->refcount
    owners,    \* history: references the threads of the pipeline hold
    pc,        \* where a thread is
    arg        \* its buffer, wait mode or configuration

pool == <<idle, total, config, gen, active>>
vars == <<pool, freed, live, refs, owners, pc, arg>>

Count == Len(idle)
Dead == Buffers \ live
NoArg == "none"

Init ==
    /\ config = Norm(InitialConfig)
    /\ \E n \in 0..config.min : \E s \in Injection(1..n, Buffers) :
          /\ AllocMayFail \/ n = config.min
          /\ idle = s /\ total = n /\ live = Range(s)
    /\ gen = 1 /\ active = TRUE /\ freed = 0
    /\ refs = [b \in Buffers |-> IF b \in live THEN 1 ELSE 0]
    /\ owners = [b \in Buffers |-> 0]
    /\ pc = [t \in Threads |-> "run"]
    /\ arg = [t \in Threads |-> NoArg]

Goto(t, l, a) ==
    /\ pc' = [pc EXCEPT ![t] = l]
    /\ arg' = [arg EXCEPT ![t] = a]
Return(t) == Goto(t, "run", NoArg)

Waiting == {t \in Threads : pc[t] = "wait"}

\* pthread_cond_broadcast by a thread that goes to l.
Broadcast(t, l) ==
    /\ pc' = [u \in Threads |-> IF u = t THEN l
                                ELSE IF u \in Waiting THEN "acquire" ELSE pc[u]]
    /\ arg' = [arg EXCEPT ![t] = NoArg]

\* pthread_cond_signal by a thread that goes to l: one waiter, if any.
Signal(t, l) ==
    /\ \/ Waiting = {} /\ pc' = [pc EXCEPT ![t] = l]
       \/ \E u \in Waiting : pc' = [pc EXCEPT ![t] = l, ![u] = "acquire"]
    /\ arg' = [arg EXCEPT ![t] = NoArg]

-----------------------------------------------------------------------------
(* zst_buffer_pool_acquire.                                                 *)

\* A call that is decided before the lock; the pool's owner has dropped its
\* pointer once destroy returned, so no call starts after it.
Acquire(t, w) ==
    /\ pc[t] = "run" /\ active
    /\ Goto(t, "acquire", w)
    /\ UNCHANGED <<pool, freed, live, refs, owners>>

Empty == active /\ Count = 0

\* The stack is empty and the limit leaves room: a buffer is created.
AcquireNew(t) ==
    /\ pc[t] = "acquire" /\ Empty /\ total < config.max
    /\ \E b \in Dead :
          /\ live' = live \cup {b}
          /\ refs' = [refs EXCEPT ![b] = 1]
          /\ owners' = [owners EXCEPT ![b] = 1]
    /\ total' = total + 1
    /\ Return(t)
    /\ UNCHANGED <<idle, config, gen, active, freed>>

\* No buffer: the call gives up or waits on pool->cond.
AcquireBlocks(t) ==
    /\ pc[t] = "acquire" /\ Empty
    /\ total >= config.max \/ AllocMayFail
    /\ IF arg[t] \in {"nonblock", "zero"}
       THEN Return(t)
       ELSE Goto(t, "wait", arg[t])
    /\ UNCHANGED <<pool, freed, live, refs, owners>>

AcquireError(t) ==
    /\ pc[t] = "acquire" /\ ~active
    /\ Return(t)
    /\ UNCHANGED <<pool, freed, live, refs, owners>>

\* The top of the stack, with its reference count set to 1.
AcquireIdle(t) ==
    /\ pc[t] = "acquire" /\ active /\ Count > 0
    /\ LET b == idle[Count] IN
          /\ idle' = SubSeq(idle, 1, Count - 1)
          /\ refs' = [refs EXCEPT ![b] = 1]
          /\ owners' = [owners EXCEPT ![b] = 1]
    /\ IF Count - 1 \in Low THEN Goto(t, "notify", NoArg) ELSE Return(t)
    /\ UNCHANGED <<total, config, gen, active, freed, live>>

\* pthread_cond_wait may return without a signal.
SpuriousWakeup(t) ==
    /\ pc[t] = "wait"
    /\ Goto(t, "acquire", arg[t])
    /\ UNCHANGED <<pool, freed, live, refs, owners>>

\* pthread_cond_timedwait times out; the call then returns without another
\* look at the stack.
Deadline(t) ==
    /\ pc[t] = "wait" /\ arg[t] = "timed"
    /\ Goto(t, "late", NoArg)
    /\ UNCHANGED <<pool, freed, live, refs, owners>>

GiveUp(t) ==
    /\ pc[t] = "late"
    /\ Return(t)
    /\ UNCHANGED <<pool, freed, live, refs, owners>>

\* The watermark callback is read from the pool after the lock was released.
Notify(t) ==
    /\ pc[t] = "notify"
    /\ Return(t)
    /\ UNCHANGED <<pool, freed, live, refs, owners>>

-----------------------------------------------------------------------------
(* zst_buffer_ref, zst_buffer_unref and zst_buffer_pool_release.            *)

\* A thread that can reach a reference takes another one.
Ref(t, b) ==
    /\ pc[t] = "run" /\ owners[b] > 0 /\ refs[b] < MaxRefs
    /\ refs' = [refs EXCEPT ![b] = @ + 1]
    /\ owners' = [owners EXCEPT ![b] = @ + 1]
    /\ UNCHANGED <<pool, freed, live, pc, arg>>

Unref_ReadsTwice(t, b) ==
    /\ pc[t] = "run" /\ owners[b] > 0
    /\ refs' = [refs EXCEPT ![b] = @ - 1]
    /\ owners' = [owners EXCEPT ![b] = @ - 1]
    /\ IF refs[b] <= 2 THEN Goto(t, "release", b) ELSE UNCHANGED <<pc, arg>>
    /\ UNCHANGED <<pool, freed, live>>

\* The decrement that finds 1 releases the buffer.
Unref(t, b) ==
    /\ pc[t] = "run" /\ owners[b] > 0
    /\ refs' = [refs EXCEPT ![b] = @ - 1]
    /\ owners' = [owners EXCEPT ![b] = @ - 1]
    /\ IF refs[b] = 1 THEN Goto(t, "release", b) ELSE UNCHANGED <<pc, arg>>
    /\ UNCHANGED <<pool, freed, live>>

ReleaseStore_NoSignal(t) ==
    /\ pc[t] = "release" /\ active /\ Count < config.max
    /\ idle' = Append(idle, arg[t])
    /\ Goto(t, IF Count + 1 \in High THEN "notify" ELSE "run", NoArg)
    /\ UNCHANGED <<total, config, gen, active, freed, live, refs, owners>>

ReleaseStore(t) ==
    /\ pc[t] = "release" /\ active /\ Count < config.max
    /\ idle' = Append(idle, arg[t])
    /\ Signal(t, IF Count + 1 \in High THEN "notify" ELSE "run")
    /\ UNCHANGED <<total, config, gen, active, freed, live, refs, owners>>

\* The pool is full or destroyed: the lock is released and the buffer freed.
ReleaseDiscard(t) ==
    /\ pc[t] = "release" /\ ~(active /\ Count < config.max)
    /\ Goto(t, "discard", arg[t])
    /\ UNCHANGED <<pool, freed, live, refs, owners>>

FreeBuffer(t) ==
    /\ pc[t] = "discard"
    /\ live' = live \ {arg[t]}
    /\ Goto(t, "uncount", NoArg)
    /\ UNCHANGED <<pool, freed, refs, owners>>

ReleaseUncount_NoActive(t) ==
    /\ pc[t] = "uncount"
    /\ total' = total - 1
    /\ IF total = 1 THEN Goto(t, "free", NoArg) ELSE Return(t)
    /\ UNCHANGED <<idle, config, gen, active, freed, live, refs, owners>>

\* The second critical section uncounts it, and decides who frees the pool.
ReleaseUncount(t) ==
    /\ pc[t] = "uncount"
    /\ total' = total - 1
    /\ IF ~active /\ total = 1 THEN Goto(t, "free", NoArg) ELSE Return(t)
    /\ UNCHANGED <<idle, config, gen, active, freed, live, refs, owners>>

-----------------------------------------------------------------------------
(* zst_buffer_pool_destroy.                                                 *)

MayDestroy(t) ==
    /\ pc[t] = "run" /\ active
    /\ DestroyRaces \/ \A u \in Threads : 
          pc[u] \notin {"acquire", "wait", "late", "size"}

Destroy_NeverFrees(t) ==
    /\ MayDestroy(t)
    /\ active' = FALSE
    /\ live' = live \ Range(idle)
    /\ total' = total - Count
    /\ idle' = <<>>
    /\ Broadcast(t, "run")
    /\ UNCHANGED <<config, gen, freed, refs, owners>>

\* Waiters are woken, idle buffers freed; the pool is freed only when no
\* buffer is still out.
Destroy(t) ==
    /\ MayDestroy(t)
    /\ active' = FALSE
    /\ live' = live \ Range(idle)
    /\ total' = total - Count
    /\ idle' = <<>>
    /\ Broadcast(t, IF total' = 0 THEN "free" ELSE "run")
    /\ UNCHANGED <<config, gen, freed, refs, owners>>

\* Mutex, condition variable, array, allocator reference and pool.
FreePool(t) ==
    /\ pc[t] = "free"
    /\ freed' = freed + 1
    /\ Return(t)
    /\ UNCHANGED <<pool, live, refs, owners>>

-----------------------------------------------------------------------------
(* zst_buffer_pool_set_config, zst_buffer_pool_prefill and                  *)
(* zst_buffer_pool_drain, each one critical section.                        *)

Shrink(s, n) == SubSeq(s, 1, n)
Top(s, n) == {s[i] : i \in (n + 1)..Len(s)}

\* n new buffers are pushed on the stack rest, out of the addresses free.
PushNew(rest, n, free) ==
    \E s \in Injection(1..n, free) :
        /\ idle' = rest \o s
        /\ live' = (Buffers \ free) \cup Range(s)
        /\ refs' = [b \in Buffers |-> IF b \in Range(s) THEN 1 ELSE refs[b]]

\* The idle buffers a new limit leaves, and the buffers it takes to reach the
\* new minimum.
Keep(c) == IF Count > c.max THEN c.max ELSE Count
Missing(c) ==
    LET left == total - (Count - Keep(c))
    IN  IF active /\ left < c.min THEN c.min - left ELSE 0

ApplyConfig(t, c) ==
    /\ \E n \in 0..Missing(c) :
          /\ PushNew(Shrink(idle, Keep(c)), n, Dead \cup Top(idle, Keep(c)))
          /\ total' = total - (Count - Keep(c)) + n
          /\ IF n = Missing(c) THEN Broadcast(t, "run")
                               ELSE AllocMayFail /\ Return(t)
    /\ config' = c /\ gen' = gen + 1

\* realloc fails after the idle buffers beyond the new limit were freed: the
\* old configuration stays.
ReallocFails(t, c) ==
    /\ AllocMayFail /\ c.max # config.max
    /\ idle' = Shrink(idle, Keep(c))
    /\ live' = live \ Top(idle, Keep(c))
    /\ total' = total - (Count - Keep(c))
    /\ Return(t)
    /\ UNCHANGED <<config, gen, refs>>

SetConfigTo(t, c) ==
    /\ gen <= MaxConfigs
    /\ ApplyConfig(t, c) \/ ReallocFails(t, c)
    /\ UNCHANGED <<active, freed, owners>>

SetConfig(t, c) == pc[t] = "run" /\ active /\ SetConfigTo(t, Norm(c))

\* apply_pool_config_cb reads the configuration in one critical section and
\* writes the resized copy in another.
ReadConfig(t, queues) ==
    /\ pc[t] = "run" /\ active
    /\ SizedFor(config, queues) # config
    /\ Goto(t, "size", SizedFor(config, queues))
    /\ UNCHANGED <<pool, freed, live, refs, owners>>

WriteConfig(t) == pc[t] = "size" /\ SetConfigTo(t, Norm(arg[t]))

Prefill(t) ==
    /\ pc[t] = "run" /\ active
    /\ LET room == IF total < config.max THEN config.max - total ELSE 0 IN
          \E n \in 0..room :
             /\ n = room \/ AllocMayFail
             /\ PushNew(idle, n, Dead)
             /\ total' = total + n
    /\ Broadcast(t, "run")
    /\ UNCHANGED <<config, gen, active, freed, owners>>

\* Idle buffers are freed until min_buffers are left or the stack is empty.
Drain(t) ==
    /\ pc[t] = "run" /\ active
    /\ LET excess == IF total > config.min THEN total - config.min ELSE 0
           n == IF excess > Count THEN 0 ELSE Count - excess
       IN  /\ idle' = Shrink(idle, n)
           /\ live' = live \ Top(idle, n)
           /\ total' = total - (Count - n)
    /\ UNCHANGED <<config, gen, active, freed, refs, owners, pc, arg>>

-----------------------------------------------------------------------------
Control(t) ==
    \/ "set" \in ControlOps /\ \E c \in Configs : SetConfig(t, c)
    \/ "size" \in ControlOps /\ \E n \in QueueCounts : ReadConfig(t, n)
    \/ WriteConfig(t)
    \/ "prefill" \in ControlOps /\ Prefill(t)
    \/ "drain" \in ControlOps /\ Drain(t)
    \/ "destroy" \in ControlOps /\ Destroy(t)

\* The steps a call takes by itself once it was made.
Proceed(t) ==
    \/ AcquireNew(t) \/ AcquireBlocks(t) \/ AcquireError(t) \/ AcquireIdle(t)
    \/ GiveUp(t) \/ Notify(t)
    \/ ReleaseStore(t) \/ ReleaseDiscard(t) \/ FreeBuffer(t) \/ ReleaseUncount(t)
    \/ FreePool(t)

Next ==
    \/ \E t \in Acquirers, w \in Waits : Acquire(t, w)
    \/ \E t \in Threads : SpuriousWakeup(t) \/ Deadline(t) \/ Proceed(t)
    \/ \E t \in Threads, b \in Buffers : Ref(t, b) \/ Unref(t, b)
    \/ \E t \in Controllers : Control(t)

Spec == Init /\ [][Next]_vars

\* A call that can proceed does, and a buffer that keeps coming down to its
\* last reference is eventually given up: no element holds one for ever.
Fairness ==
    /\ \A t \in Threads : WF_vars(Proceed(t)) /\ WF_vars(Deadline(t))
    /\ \A b \in Buffers :
          /\ WF_vars(\E t \in Threads : Unref(t, b))
          /\ SF_vars(\E t \in Threads : refs[b] = 1 /\ Unref(t, b))

FairSpec == Spec /\ Fairness

-----------------------------------------------------------------------------
(* Properties.                                                              *)

PCs == {"run", "acquire", "wait", "late", "notify", "release", "discard",
        "uncount", "free", "size"}
Releasing == {t \in Threads : pc[t] \in {"release", "discard"}}
Uncounting == {t \in Threads : pc[t] = "uncount"}
Held == {b \in Buffers : owners[b] > 0}

\* Every variable has its type; a releasing thread carries its buffer.
TypeOK ==
    /\ idle \in Seq(Buffers) /\ total \in Nat
    /\ config \in Config /\ gen \in Nat \ {0}
    /\ active \in BOOLEAN /\ freed \in Nat
    /\ live \subseteq Buffers
    /\ refs \in [Buffers -> Nat] /\ owners \in [Buffers -> Nat]
    /\ pc \in [Threads -> PCs]
    /\ \A t \in Threads :
          /\ t \in Releasing => arg[t] \in Buffers
          /\ pc[t] = "size" => arg[t] \in Config

\* The idle stack fits the array pool->buffers of max_buffers pointers, also
\* after set_config shrank it while more buffers than the new limit were out
\* (zst_buffer_pool.c:190-193, 301-321).
StackFits == Count <= config.max

\* total_allocated counts the idle buffers, those held by an element and those
\* on their way back, the freed one that release has not yet uncounted
\* included (zst_buffer_pool.c:219-222): only then may zero mean that nobody
\* can still reach the pool.
TotalCounts ==
    total = Count + Cardinality(Held) + Cardinality(Releasing)
            + Cardinality(Uncounting)

\* A buffer is in one place: on the stack once, or held, or being released by
\* one thread; held and released buffers are allocated, and a held buffer's
\* refcount is the number of references (zst_buffer.c:99-107,
\* zst_buffer_pool.c:160-163).
OnePlace ==
    /\ IsInjective(idle) /\ Range(idle) \subseteq live /\ Held \subseteq live
    /\ Range(idle) \cap Held = {}
    /\ \A b \in Held : refs[b] = owners[b]
    /\ \A t \in Releasing :
          /\ arg[t] \in live /\ arg[t] \notin Held \cup Range(idle)
          /\ \A u \in Releasing : arg[u] = arg[t] => u = t

\* The pool is freed at most once, and only when no buffer that points to it
\* is out or on its way back: destroy and the releases that race with it agree
\* on who is last (zst_buffer_pool.c:222-231, 255-265).
PoolOutlivesBuffers ==
    freed > 0 => /\ freed = 1 /\ Held = {}
                 /\ Releasing \cup Uncounting = {}
                 /\ \A t \in Threads : pc[t] # "free"

\* A destroyed pool is freed once its buffers came back: the decision moves
\* from destroy to the last release (zst_buffer_pool.c:224, 256).
DestroyedPoolFreed == ~active ~> freed = 1

\* A lone acquirer that waits without a timeout is served or told that the
\* pool was destroyed, as every element gives its buffers back.
AcquireServed ==
    \A t \in Acquirers : pc[t] = "wait" ~> pc[t] # "wait" /\ pc[t] # "acquire"

\* The pool's books are right through every interleaving of acquires, releases
\* in two critical sections, resizes, drains and failed allocations: types,
\* StackFits, TotalCounts and OnePlace.
PoolAccounted == TypeOK /\ StackFits /\ TotalCounts /\ OnePlace
=============================================================================
