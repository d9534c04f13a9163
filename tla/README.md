# A TLA+ model of zstreamer

zstreamer is a media pipeline engine in C: elements connected by pads, grouped
into bins and a pipeline, driven by a scheduler with worker threads, exchanging
reference-counted buffers that come from pools and pass through bounded queues,
and reporting through an event bus. Around the engine are some eighty elements:
codecs, devices, network protocols, file formats.

The modules fall into two groups. The engine is modelled step by step where its
threads meet: queue, pool, bus, state changes, scheduler, pads. The elements are
modelled by their hooks: what each open, start, process, stop and close makes,
keeps, uses and gives back, with every call that can fail failing. Three
elements have algorithms of their own that depend on what other processes do,
and these are modelled too: the Dante shared-memory context, and the receivers
of RTP packets.

Source references are to the repository: `zst_queue.c:247` is line 247 of
`src/src/zst_queue.c`.

## 1. Inventory

| Part | State | Operations | Meets | Hard because | Correct means |
|---|---|---|---|---|---|
| `zst_queue` | ring of slots with sequence numbers, `head`, `tail`, byte count, waiter counts, one mutex and two condition variables | push, pop, flush, size, duration | queue element, scheduler's ready queue, several elements | indices move without the mutex; waiting does use it | FIFO, one owner per slot, limits kept, no lost wakeup |
| `zst_buffer_pool`, `zst_buffer` | stack of idle buffers, `total_allocated`, configuration, `active` | acquire, release (last unref), set_config, prefill, drain, destroy | every source; the pipeline resizes pools | a buffer outlives the pool's destroy; two critical sections per discard; shrinking while buffers are out | counts exact, one place per buffer, pool freed once and last, waiters served |
| `zst_bus` | event queue, handler, dispatch thread, `flushing` | post, pop, set_handler, destroy | every element posts | the dispatch thread is replaced while events flow | nothing lost or reordered, one dispatcher, calls return |
| `zst_element` state machine | `state`, hooks open/preroll/start/stop/unpreroll/close | set_state (recursive) | pipeline, bin, scheduler | failures in the middle of a staircase of steps | failures undone, hooks paired |
| `zst_pipeline` | element list under a reader-writer lock, state, clock, graph version | set_state, start, stop, add, remove, link, reconfigure | scheduler | nested failures; changes beside running workers | agreement, order of changes, changes under the lock |
| `zst_bin` | children, ghost pads, EOS flags | change_state, add, remove, EOS forwarding | element, pads | rollback of children; EOS from several branches | children follow; one EOS |
| `zst_scheduler` | `running`, ready queue, cached source roots; per element `is_queued`, `sched_task_refs` | run, stop, wake, worker loop | pipeline, elements | a mark, a count and a token per task, changed at different moments | one worker per element, nothing after close, tasks accounted |
| `zst_pad` | peer, link lock, probes, block flag, sticky events, segment | link, unlink, push, pull, block, unblock, events | everything | locks of two pads; probes that block | reciprocal links; blocked pads hold |
| queue element | a `zst_queue` and a thread | start, stop, sink push | pads, queue | stop against a producer waiting for room | stop returns |
| clocks, pacer | base times, filter state | get_time, wait | scheduler, sinks | unsigned time arithmetic | bounded waits |
| RTP and ST 2110 receivers | access unit in progress, 16-bit counters, history of seen packets, reorder slots | per packet | network | loss, repetition, reordering, wrap-around | nothing mixed, damage flagged, no duplicate |
| Dante DEP context | registry entry, endpoint list, one worker thread, mapping, a queue per endpoint | open, start, stop, close of each element; the worker's loop | another process through shared memory | the elements share a worker; the provider laps, resets and goes away | one worker, joined once; periods in order; reconnected |
| elements (codecs, devices, network, containers) | what they own, flags, frames held inside a library, lists of finished buffers | the hooks of `zst_element_ops_t`, sink pad push, own threads | external libraries, devices, sockets | half-failed initialisation, retries, EOS with frames inside | nothing leaked or used after it is gone; EOS forwarded once and last; drained |
| allocators, caps, registry, log | tables | pure or I/O | | | |
| servers (RTSP, HTTP, WebSocket), WebRTC | sessions | socket loops, text protocols | sockets, external libraries | | |

`PROJECT.json` lists every part with its files and its status, and the hazards
of the code line by line with the properties that answer them.

## 2. Modules

| Module | Models | Kind |
|---|---|---|
| `ZstQueue` | `zst_queue.c` | detailed, one action per atomic access |
| `ZstFifo` | what the queue promises: a bounded FIFO with calls that take effect between call and return | abstract |
| `ZstQueueProofs`, `ZstBufferPoolProofs`, `ZstPadProofs`, `ZstDepContextProofs`, `ZstStateChangeProofs`, `ZstSchedulerProofs`, `ZstElementProofs` | theorems about the module of the same name (section 5) | proofs |
| `ZstDeliveryProofs` | theorems about `ZstBus` and `ZstReceiver` | proofs |
| `ZstBufferPool` | `zst_buffer_pool.c`, the reference counts of `zst_buffer.c`, the sizing of `zst_pipeline.c` | one action per critical section |
| `ZstBus` | `zst_bus.c` | one action per critical section |
| `ZstStateChange` | `zst_element_set_state`, `zst_pipeline_set_state`, `bin_change_state`, and the worker's end-of-stream | a stack of call frames |
| `ZstScheduler` | `zst_scheduler.c` and the dynamic part of `zst_pipeline.c` | composition of scheduler, pipeline lock and task queue |
| `ZstPad` | `zst_pad.c` | one action per section under a lock, the two link locks taken one by one |
| `ZstHooks` | the vocabulary of the element modules: what a hook can do to the element's structure | operators |
| `ZstCodecs`, `ZstHwCodecs`, `ZstFilters`, `ZstDevices`, `ZstNetwork`, `ZstContainers`, `ZstRtp`, `ZstDante`, `ZstComposers` | the hooks of 78 kinds of element, a chain of EXTENDS | operators, one per hook or helper |
| `ZstElement` | one element of any kind, driven by `zst_element.c`, `zst_pad.c` and `zst_scheduler.c` | composition of the hooks with their callers |
| `ZstDepContext` | `dante_dep_context.c`, with the provider process | one action per critical section |
| `ZstReceiver` | packetisation in `rtp_payloader.c`, `rtp_depayloader.c`, `st2110_redundancy_demux.c` and the reorder buffer of `sdp_demuxer.c`, on a network that loses, repeats and reorders | one action per packet |
| `MC...` | small instances of each | |

### ZstQueue

`head`, `tail`, `seq`, `buf`, `bytes`, `waiters` and `lock` are the fields of
`zst_queue_t`; `pc`, `pos`, `item`, `seen` and `op` are each thread's place and
locals. A push goes LoadSeq, (IsFullHead, IsFullTail), ClaimTail, FillSlot,
AddBytes, Publish, LoadWaiters, Signal; a pop LoadSeq, ClaimHead, TakeSlot (which
subtracts the bytes), ClearSlot, FreeSlot, LoadWaiters, Signal: the stores to a
slot and the byte counter are different steps, and between them the two
disagree. Waiting is IncWaiters, a recheck (which ends asleep or
back at the start), SpuriousWakeup or Deadline, Relock, DecWaiters. `hist` is a
history variable: the buffers in the order of their positions.

Abstractions: atomics are sequentially consistent (the waiter counters are the
only place where the code relies on a fence-like order between two variables:
they are read-modify-write or follow one); positions are natural numbers (they
are 64 bits wide in the code); the duration of the queue is a snapshot taken in
one step; `timeout_ms` is one of zero, some, or none.

### ZstBufferPool

`idle` is `pool->buffers[0..count)`, `total` is `total_allocated`, `refs` the
buffers' reference counts, `owners` the references elements really hold. An
action is one critical section of `pool->lock` or one atomic step between two.
Discarding a buffer takes three: the decision, the free, the uncounting. The
allocator may fail. Addresses are reused, as malloc's are.

Assumptions: with `DestroyRaces = FALSE` no acquire overlaps destroy, which is
how the elements call it and what the liveness properties need.

### ZstBus

`queue`, `handler`, `thread`, `flushing` are the bus's fields. Each dispatch
thread has its own life (none, pop, wait, took, handle, check, exited).
set_handler is three steps: flag and broadcast, join, swap and create (which may
fail). `accepted`, `taken`, `dispatched`, `handled` and `refused` are history.
One controller thread sets handlers and destroys the bus.

### ZstStateChange

`stack` holds a frame for each active call of `zst_pipeline_set_state`,
`zst_element_set_state` and `bin_change_state`, so the recursion, and each of
its three ways of undoing a failure, is the code's. `level` is a history
variable: where the hooks that ran have left an element. Hooks fail without an
effect, at most `MaxFailures` times; `dirty` says that a rollback's own hook
failed, after which the code promises nothing. A worker may end a source at any
moment between taking it and returning, as `execute_element_task` does. The
clock is reduced to whether one is set. One thread changes states, as in the
tests and examples.

### ZstScheduler

Threads are the workers and one application thread `Ctrl`. `isQueued`,
`taskRefs`, `state` and `owned` (the token's pointer to its element) are fields
of elements; `ready` is the ready queue, a bounded FIFO (what `ZstQueue`
implements); `writer` and `readers` are `pipe->elements_lock` with glibc's
behaviour: a read lock asked for by the write holder fails with EDEADLK, which
the code ignores, and an unlock releases whichever side the caller holds.
`cacheLock` is `source_cache_lock`. Queueing a task is QueueTask (the mark),
CountTask (the reference), PushToken, and where the ready queue is full
UncountTask and UnqueueTask, each a step of its own; a worker reads the owner of
its token and the state of the element one after the other (WorkerCheck,
WorkerPlaying). A scan without memory for its cache leaves it invalid
(ScanUncached). READY and PAUSED are one state, IDLE. Every
element here has no linked sink pad (others are never queued); `Pure` ones have
no sink pad at all. What process() does downstream is inside its step.
Elements are not added again after their removal; elements are added to a
playing pipeline; several reconfiguring threads are not modelled.

### ZstPad

`peer`, `refs`, `lock`, `blocked`, `fired`, `callback`, `probe`, `policy`,
`queued` and `sticky` are fields of `zst_pad_t`; `owned` says whose element
still holds its reference. A thread's record `th` is the call it is in and how
far it is. Pushes, pulls and events run the probes of both pads, before and
after. `zst_pad_link` replays the sticky event through the ordinary push, so a
blocked pad holds the linking thread, as in the code. An event may be refused by
the hook of the element (`MayFail`); the call then returns without the last
probes of its own pad. An unlink gives its references back one by one, after its
locks. Left out: caps (they
always negotiate), clipping to the segment (buffers lie inside), lateness and
jitter statistics.

### ZstHooks, the element modules and ZstElement

An element's private structure becomes a record: `held` (pointers, descriptors
and threads it owns), `lost` (overwritten while owned), `on` (Boolean fields),
`n` (frames inside a library), `pend` (its list of finished buffers), `sent`
(the last thing pushed downstream), `stray` (used although not owned). A hook
is an operator from such a record to the *set* of its outcomes; every library
call, allocation, device and peer may fail, and the code's early returns are
members of the set. So `Then(S, F)` reads as "call S, return if it fails, go on
with F". Settings that only change data are left out; those that decide what is
made or kept are not.

`ZstElement` calls the hooks the way `zst_element_set_state`,
`zst_element_destroy`, `default_sink_pad_push` and `execute_element_task` do: in
any order the state machine allows, failing anywhere, with pushes into any set
of linked sink pads, properties and events at any time, and destruction in any
state. Each step is one hook: the interleavings inside hooks are the subject of
the engine modules. An element that works on a thread of its own takes its turns
between these steps (`ThreadTurn`): what the queue element and the mixer are
given, EOS included, is sent in such a turn, so `EosForwarded` lets them owe it
as long as a turn is left to take (`Async`). A push that finds the queue of the
queue element or of a mixer's input full waits (`Blocked`): it is no step until
there is room. An input of the mixer holds one buffer instead of ten. What
reaches the queue element never carries both EOS and DROP: whatever sets DROP
excludes EOS (`zst_pad.c:276`, `zst_queue_element.c:38`, `gl_comp_sink.c:1105`,
`ipp_comp_sink.c:743`) or flags data it made itself (`rtp_depayloader.c:262`).
Request pads are made with the element (`Create`) and released in any state
(`ReleasePad`).

The code breaks some of the properties in some of the elements. Each property
is therefore checked outside a table of named exceptions (`KnownLeaks`,
`KnownStrays`, `Forgotten`, `EosKept`, `GoesOn`, `ListKeepers`, `NotDrained`),
which is the list of what this module found: each entry says which resource of
which element, or which elements, and TLC refutes the property when an entry is
taken out. The property holds for every resource and every element not named.

### ZstDepContext

Elements of one pipeline share the context through a registry; a pipeline makes
one call at a time. The provider is another process, modelled from what the
code and `tests/test_dante_dep.c` take it to do: it fills the slot of period
`period_count`, then publishes; `reset_serial` is odd during a reset. A period
is whole or torn, so a copy that the provider overtakes can be told apart; the
history mark `kept` says that the check after the copy accepted it. An undone
copy restores the two counters and leaves its samples in the slot, as the code
does. Outside a reset the shared memory may still be missing or malformed
(ConnectFails). A close detaches its endpoint from the context and then gives up
its share in the registry (Detach, Release or ReleaseLast), two critical
sections.

### ZstReceiver

A packet is known by its place in the stream; its sequence number is that place
modulo `Modulus`. The network delivers what is on the wire in any order, not at
all, or again (`MaxCopies`). `role` says which receiver is looked at. The
redundancy demuxer has a thread per link and pushes after its unlock
(`handing`). `History` stands for 4096 and `Modulus` for 65536; the assumptions
`4 * History <= Modulus` and that `History` and the reorder buffer's `Capacity`
divide `Modulus` keep their relation. `depay.first`, `depay.last`, `demux.top`,
`passed`, `refused` and `arrived` are history: the packets behind the sequence
numbers the code keeps. `Timely` states what the theorems presume of the
network. Memory may run out for the data of an access unit or for the buffer
that is to carry it (DepayNoData, DepayNoBuffer), and for a copy in the reorder
buffer, which also compares payloads, equal ones of different packets included.
Raw RTP input to sdp_demuxer, where it takes the sequence number as a length, is
assumed not to cut packets.

## 3. Runs

Deadlock is checked where the system never stops by itself (state changes,
scheduler, elements). The other runs bound the number of calls and may end.

| Run | Instance | Shows |
|---|---|---|
| `queue_ring` | 2 producers with 2 pushes each, 1 consumer with and without deadlines, a ring of 2 slots, buffers of two sizes, byte and duration limits | TypeOK; ExclusiveSlot; FirstInFirstOut; BytesExact; NeverStranded; ImplementsFifo (refinement of `ZstFifo`) |
| `queue_live` | 2 producers with and without deadlines, 1 consumer that also flushes, limit 1 below capacity 2, fair threads | Bounded; NoLostWakeup; CallsServed (pops and pushes that can be served return) |
| `queue_mpmc` | 2 producers, 2 consumers | NoStuckPop is **violated** (section 4) |
| `pool_safety` | 2 acquirers, 1 controller, 3 buffers, failing allocator, shrinking and growing configurations, destroy at any time | PoolAccounted (counts, stack size, one place per buffer); PoolOutlivesBuffers |
| `pool_live` | 1 acquirer, another thread that releases, 4 buffers, growing configurations and the pipeline's sizing, fair threads | DestroyedPoolFreed; AcquireServed |
| `bus_events` | 2 posters, 1 popper, 2 dispatch threads in succession, 2 handlers, failing thread creation, destroy | EventsAccounted (nothing lost, one dispatcher, what is taken is handled); NoStuckPop; ControlReturns; Delivered |
| `state_changes` | a pipeline of a source, a bin of two children and a sink, and a bin of two outside it; any targets; 2 failing hooks; a worker that ends the source | AllOrNothing; HooksPaired; WalksInOrder; SetStateReturns |
| `sched_tasks` | 2 workers, 2 elements (one there from the start, one with a sink pad added later), a ready queue of 1, reconfigurations | ProcessGuarded; TasksExact; GraphGuarded (changes under the lock, waits for workers without it) |
| `element_hooks` | each of 78 kinds of element, every set of linked pads, libraries that hold up to 2 frames | Released; NeverStray; EosLast; Drained; SettingsKept |
| `dep_context` | a source and a sink of one pipeline, a ring and queues of 1 period, 3 periods, 1 reset, 2 workers in succession, fair threads | WorkerShared; InOrder; JoinsReturn; Reconnected |
| `pad` | 1 source pad between two sink pads in the order of addresses, a streaming thread and two application threads, initially linked, 2 links or unlinks or removals, one setting | PeersExact; NoLostUnblock; NoLockCycle |
| `rtp_receivers` | streams of 6 or 7 packets that start 3 before the wrap of 16 sequence numbers; any loss and order; 1 repeated packet; two links | Deduplicated; UnflaggedWhole; NeverMixed; ReorderOwns |

A property with several parts (PoolAccounted, EventsAccounted, AllOrNothing,
WalksInOrder, ProcessGuarded, TasksExact, GraphGuarded, EosLast, WorkerShared,
PeersExact, Deduplicated, CallsServed, NoLostWakeup) is the conjunction of parts
that have names of their own, each stated with the lines it is about.

Why the bounds are enough to meet the interesting cases. Two producers and two
slots make the ring wrap, producers race for one position, and a slot be reused
while a slow thread still remembers its old number; `MaxPushes` and `MaxPops`
are the only bounds on time there, and the theorems of section 5 do away with
them for the ring's safety. With a limit of one, a producer sleeps while
another's buffer is in the queue, is woken by a pop or a flush, finds the room
gone again or its deadline expired as the signal arrives. The pool needs a
buffer on the stack, one held and one on its way back at once, and two
configurations in succession (`MaxConfigs`); `MaxRefs` = 2 makes two threads
drop the last two references. For the bus, two successive dispatch threads are
what a replacement is about. `MaxFailures` = 2 is a failure and a failing
rollback. For the scheduler two workers race for one element, and a ready queue
of one makes pushes fail, which 2048 entries hide; the two workers are
interchangeable (symmetry). For elements nothing but `MaxInside` is bounded:
hooks are called without limit; 2 tells "drained of one frame" from "drained".
For the context, a ring of one is lapped by the next period, in the middle of a
copy; of three periods the first fills the queue, the second is copied over it,
and the third laps the ring meanwhile, so that a copy into a full queue is
undone and what it leaves is read; a second worker is what a restart needs;
`MaxResets` = 1 is met in every state. For pads, a source pad whose address lies
between its two peers takes its locks in both orders, and two
more calls on the initial link (`MaxLinks`) are an unlink and a new link, two
unlinks of one link from its two ends, or a removal beside either; the run compares states without the
history `seen`, on which neither its guards nor its properties depend (`VIEW`).
For receivers, six packets clear a history of four by a gap and leave one packet
of the gap to come late, and wrap the reorder buffer; video streams have
parameter sets, fragments and an access unit without a marker.

### Fairness

Queue: every thread's own steps are weakly fair (the operating system runs it);
its attempts at the mutex and at the compare-and-swap together are strongly fair
(a thread that could get one of them again and again does at last; the code's
retry loop has no other ground for ending), and so is a deadline. Pushes are not
required to be made. Pool: threads inside a call go on; elements give buffers
back. Bus: dispatch thread, poppers and the controller's pending call go on;
handlers return. State changes: the calling thread goes on; hooks return. DEP
context: the worker and calls under way go on, a reset of the provider ends, and
an attempt to connect that can succeed again and again does at last (strong
fairness of `Connect`: the shared memory is there again after a reset, however
often an attempt found it missing or half made); nobody has to start an element
or publish a period. The runs of the scheduler, of elements, pads and receivers
state safety only: a network owes nothing, and a blocked pad stays blocked until
someone unblocks it.

## 4. Findings

`queue_mpmc`: with two consumers, one signal per publication is not enough when
publications happen out of order; `docs/architecture/queue-threading.md:28` and
`include/zst_queue.h:11` promise otherwise. With one consumer, which is how the
queue element uses it, no pop is left waiting (`queue_ring`), and where the
queue is limited by the number of buffers no push is either (`queue_live`).

Two more have a cfg of their own, for TLC to refute:

`NoStuckPush`, `MCZstQueue_bytes_lost.cfg`: a pop signals one producer. Where a
byte (or duration) limit holds two producers back and the pop takes a large
buffer, there is room for both; the one that is woken pushes a small buffer and
signals consumers only, and the other sleeps on beside the room it needs, until
the next pop. `docs/architecture/queue-threading.md:27` says that it blocks
until space becomes available. It is not left for ever: `NeverStranded` says
that a buffer is then in the queue, and its pop signals again.

`PeriodsInOrder`, `MCZstDepContext_undo.cfg`: `receive_period` makes room in a
full queue by dropping the oldest period, copies over it, and takes a copy that
the provider lapped back by restoring `read_frame` and `used_frames`. The
samples and timestamps it wrote stay where the oldest period was, so the
endpoint reads a whole newer period (or a torn one) before older ones.
`wiki/DANTE_CONTROL_AUDIO_VIDEO_PROTOCOL.md:415` asks for every missed period in
order. The periods that were accepted do come in order (`InOrder`,
`dep_context`).

Five more documented claims are stated in the modules and refuted by TLC. To see
one, put the definition in the place of the
properties of the named cfg and change what is said.

| Definition | From | The code |
|---|---|---|
| `ZstBus.PopOrHandler` | `wiki/api-design-notes.md:397` | an application already waiting in `zst_bus_pop` may receive an event after a handler was set (`zst_bus.c:191`). `MCZstBus_bus.cfg` |
| `ZstStateChange.HooksFollowDocs` | `docs/architecture/architecture.md:84` | at the end of a source's stream the worker stores READY without the hooks tied to that change (`zst_scheduler.c:247`). `MCZstStateChange_changes.cfg`, `MaxFailures = 0` |
| `ZstScheduler.ChangesUnderLock` | `wiki/phase-adaptive-stream-demuxing.md:383` | an element added outside a reconfiguration wakes the scheduler under the write lock, and the scan's unlock drops it (`zst_element.c:239`, `zst_pipeline.c:775`). `MCZstScheduler_tasks.cfg`, `BareAdds = TRUE` |
| `ZstScheduler.DrainedAtClose` | the comment at `zst_pipeline.c:834` | a scan may queue an element after the removal found it drained; process() is not run (ProcessGuarded), but the token's reference is never given back. `MCZstScheduler_tasks.cfg` |
| `ZstPad.StickyFirst` | `wiki/phase-adaptive-stream-demuxing.md:316` | the new link is visible before `zst_pad_link` replays the sticky events, so a streaming thread's buffer may overtake them (`zst_pad.c:569`). `MCZstPad_links.cfg` without its `VIEW`, `Watched = {}`, `MaxSettings = 0` |

The exception tables of `ZstElement` are results of the same kind, checked in
every state of `element_hooks`.

### Observations

Met while reading, not all expressed as a property.

- Receivers. A PCM buffer cut into several packets gets a timestamp per packet,
  and the depayloader begins a new access unit at each: all but the last are
  discarded (`rtp_payloader.c:368`, `rtp_depayloader.c:131`). An access unit
  whose last NAL unit is empty has no marker and is lost. H.265 gaps are never
  flagged. An access unit given up because memory ran out for a packet is not
  followed by a DROP flag, and its remaining packets pass for the next one
  (`rtp_depayloader.c:316`, `350`). `reorder_insert` restarts `next_seq` whenever the buffer is empty,
  and the buffer is drained after every push, so out-of-order datagrams are
  handed on out of order, against the header comment of `sdp_demuxer.c`; a late
  packet stored behind `next_seq` stays. The redundancy demuxer judges the
  primary link only by the packets it accepts from it, so a faster backup causes
  a failover while the primary lives; it pushes after its unlock, so two links
  may swap two packets.
- Elements. Encoders with a list of finished buffers keep EOS in it after a
  refused push. Several elements do not work again after a failed first attempt.
  The packet size loops of `rtp_payloader.c` and `st2110_21_payloader.c` do not
  end for an mtu that leaves no room for payload.
- Mixer and compositors. An input that has ended stays ended when the mixer is
  started again, so the second run ends at once; `close()` drops the inputs and
  leaves the pads, so after the next open the mixer accepts and drops everything
  and a compositor's pad points to a freed input. A canvas resized while open is
  drawn with the new size on the old memory (`ipp_comp_sink.c`). After one
  failed GL initialisation every later open is in null mode (`gl_init_error` is
  never reset). A capture that is waiting when `close()` stops the worker waits
  for ever. A mixer's input that is requested after EOS is never read.
- DEP, with two pipelines on one name: a start during another's stop leaves an
  enabled endpoint without worker; two stops may join one worker twice. The test
  `latest - period > ring_periods` admits the slot the provider is filling, so a
  torn period may be accepted (`dante_dep_context.c:442`).
- Pads. `zst_pad_unlink` does not wait for a push under way, which may still use
  `pad->parent`; the QUEUE policy counts what it drops and linking does not
  reset the count; the lateness test wraps in the first 100 ms of a clock.
- Engine. A discarded pool buffer is uncounted without a signal
  (`zst_buffer_pool.c:222`), which matters after the limit was lowered; a wake
  from a second thread may push a token after stop emptied the queue
  (`zst_scheduler.c:399`); the result of pausing an element before its removal
  is ignored (`zst_pipeline.c:808`).

## 5. Proofs

Eight modules, each an extension of what it is about, hold the theorems.
Each states for every value of the constants what a run shows for one instance;
the bounds of the runs (`MaxPushes`, `MaxLinks`, ...) are constants of the
theorems, so the safety of those modules does not depend on them.

| Module | Theorem | States | Besides the module's assumptions |
|---|---|---|---|
| `ZstQueueProofs` | `TypeCorrect` | `Spec => []TypeOK` | |
| | `Invariant` | `Spec => []IndInv` | |
| | `QueueBounded` | `Spec => []Bounded` | |
| | `SlotsExclusive` | `Spec => []ExclusiveSlot` | |
| | `FifoOrder` | `Spec => []FirstInFirstOut` | |
| | `RingIsFifo` | `Spec => ImplementsFifo` | |
| | `BytesAlwaysExact` | `Spec => []BytesExact` | |
| | `NobodyStranded` | `Spec => []NeverStranded` | one consumer |
| | `WakeupsNeverLost` | `Spec => []NoLostWakeup` | one consumer, `MaxBytes = MaxDuration = 0` |
| `ZstDeliveryProofs` | `BusAccounted` | `BusSpec => []EventsAccounted` | |
| | `BusNeverStuck` | `BusSpec => []NoStuckPop` | |
| | `ReceiverInvariant` | `Spec /\ Timely => []ReceiverInv` | |
| | `AlwaysDeduplicated` | `Spec /\ Timely => []Deduplicated` | |
| | `UnflaggedAlwaysWhole` | `Spec /\ Timely => []UnflaggedWhole` | |
| | `UnitsNeverMixed` | `Spec /\ Timely => []NeverMixed` | |
| | `ReorderAlwaysOwns` | `Spec => []ReorderOwns` | |
| `ZstBufferPoolProofs` | `PoolBooksRight` | `Spec => []PoolAccounted` | |
| | `PoolFreedLast` | `Spec => []PoolOutlivesBuffers` | |
| `ZstPadProofs` | `PeersAlwaysExact` | `Spec => []PeersExact` | |
| | `LocksNeverCycle` | `Spec => []NoLockCycle` | |
| | `UnblockNeverLost` | `Spec => []NoLostUnblock` | |
| `ZstDepContextProofs` | `WorkerIsShared` | `Spec => []WorkerShared` | `SamePipeline` |
| | `PeriodsInTurn` | `Spec => []InOrder` | `SamePipeline` |
| `ZstStateChangeProofs` | `ChangeInvariant` | `Spec => []ChangeInv` | |
| | `HooksAlwaysPaired` | `Spec => []HooksPaired` | |
| | `WalkAlwaysBracketed` | `Spec => [](TypeOK /\ TransitionBracket)` | |
| | `UndoInvariant` | `Spec => []UndoInv` | |
| | `ChangeIsAllOrNothing` | `Spec => []AllOrNothing` | |
| | `WalksAlwaysInOrder` | `Spec => []WalksInOrder` | |
| `ZstSchedulerProofs` | `SchedulerInvariant` | `Spec => []Inv` | `~BareAdds` |
| | `ProcessAlwaysGuarded` | `Spec => []ProcessGuarded` | `~BareAdds` |
| | `TasksAlwaysExact` | `Spec => []TasksExact` | `~BareAdds` |
| | `GraphAlwaysGuarded` | `Spec => []GraphGuarded` | `~BareAdds` |
| `ZstElementProofs` | `ElementInvariance` | `Spec => []ElementInv` | |
| | `NothingLeaks` | `Spec => []Released` | |
| | `NothingStray` | `Spec => []NeverStray` | |
| | `SettingsSurvive` | `Spec => []SettingsKept` | |

Assumptions. Each module names what it needs of its constants (finite sets of
threads, pads and buffers, disjoint kinds of threads, numbers where the code has
numbers, powers of two where the code makes them); TLC evaluates these in every
run. For state changes these include `ParentAssumption`: an element is in the
pipeline, in one bin or loose, and once; bins are not nested (the model's limit:
`zst_bin_add` would take a bin as a child); workers run elements of the pipeline
or of its bins, as the scheduler does. `MaxFailures` is any number. `Elements` is
any set of the 78 kinds (`ElementsAssumption`), and `MaxInside` any number of
frames. The premises
of the last column, and `Timely`, are conditions on use; section 4
tells what happens without the first four:

- one consumer: with two, `queue_mpmc` shows a lost wakeup. The queue element
  has one worker that pops; the scheduler's ready queue has several, and they
  poll every 2 ms.
- a limit by number alone (`MaxBytes = MaxDuration = 0`): with a byte limit
  a producer may be left asleep beside room (`NoStuckPush`). `NobodyStranded`
  holds under every limit.
- `SamePipeline`: the elements that share a DEP context belong to one pipeline,
  which makes one call at a time. With two pipelines on one name a start during
  a stop loses the worker.
- `~BareAdds`: the application adds elements to a running pipeline inside
  reconfigurations. Outside one, the write lock is lost (`ChangesUnderLock`).
- `Timely`: the network delivers a packet less than half a cycle of sequence
  numbers away from the newest one. Any protocol with a 16-bit sequence number
  presumes as much; the run's network is of that kind, whatever it loses or
  repeats. `ReorderOwns` needs no such premise.

### The arguments

None of the properties is inductive as it stands. What each rests on:

**The ring.** That a claimed slot has one owner rests on the sequence number it
found still being there at the compare-and-swap, which rests on no one having
come round the ring since. `IndInv` says, next to the types: `SlotPhases`, each
position between `head` and `tail` is claimed or published, each one between
`tail` and `head + Capacity` is free or still being emptied by the consumer of
the round before, and its slot carries the sequence number (and, when published,
the buffer) that says so; `Claims`, what a thread that owns a slot may rely on
until it hands it on; `Observations`, what a thread about to compare-and-swap
has seen remains true as long as the index it compares has not moved. The last
is the heart of the argument, and where the limit checked by `zst_queue_is_full`
outside the mutex is shown to hold at the claim. The slot arithmetic
(`SlotInjective`, `SlotRound`) is proved from the division fact and the rest
never expands it.

The refinement maps a step of the ring to a step of `ZstFifo` or to a stutter: a
push takes effect at its `ClaimTail`, a pop at its `ClaimHead`, calls begin and
end where they do, and nothing else shows. For `BytesExact` the bytes of the
stored buffers are a set, a pair for each byte, so that a sum is a cardinality;
a slot is settled when it has a buffer that no thread has stored without
counting it, or uncounted without clearing it, and the counter is the size of
the settled ones (`BytesCounted`). `Stores` says that a slot about to be filled
is empty and that outside `head..tail-1` only a consumer on its way keeps a
buffer, so `AddBytes` settles one slot, `TakeSlot` unsettles one (`SlotSettles`,
`SlotUnsettles`), and no other step does either.

For the wakeups, `Counters` ties the waiter counters to the threads that counted
themselves, `Worked` finds a thread behind every slot that is in between, and
`PopSide` and `PushSide` name who will signal: a producer between publication and
signal for a waiting consumer; a buffer left to pop, a consumer past its claim or
another producer about to try for a waiting producer. That is `NobodyStranded`.
That no producer sleeps beside room takes counting: `RoomInv` says that while one
sleeps, the free places are no more than the producers about to look again, with
one for the consumer about to signal. A pop makes a place and stays about to
signal; its signal makes one sleeper look; a producer that looks either takes a
place or has seen none (`SleepsFull`). A limit in bytes has no such balance: one
pop makes several places.

**The bus.** `Account`: the dispatch thread that is alive is the bus's thread,
and the handled events are the dequeued ones but for the one in its hands.
`Awake`: while someone sleeps there are at least as many consumers on their way
to the queue as there are events in it, which is why one signal per post is
enough.

**The pool.** `Books` counts the buffers by the place they are in (stack, held,
or in the hands of a thread that releases, discards or uncounts); `Last` says
that once a thread was sent to free the pool, the count of the destroyed pool is
zero and stays so.

**Pads.** A call is a program of steps, and `Sound` says for each step what the
calling thread holds; `Grips` derives from it the locks and `HoldsOf` the
references a thread has. Then the link locks are exactly the grips, linked pads
point at each other, and a reference count is the element's, the link's and the
calls' shares (`PadInv`); `RemovedOnce` is what makes destroy take the element's
share once. A circle of waiting threads is impossible because along a chain of
waiters the address of the awaited pad grows (`LocksOrdered`, by the pad with the
greatest address).

**The DEP context.** `LifeInv` ties the endpoint list, the enable flags and the
count to the calls, and the worker's thread to `worker_running`, its stop flag
and the one call that may be joining it. For the periods, `RingRight` says which
periods the provider's ring holds, and `Turns` bounds what an endpoint's queue
and consumer may have by what was published and served, with the unchecked copy
set apart: the check after the copy is what makes it safe. Only the kept periods
are ordered: an undone copy puts an unkept slot back at the head (`TurnUndo`).

**State changes.** `ChangeInv` is about the stack of calls: where each function
may be, that below a frame of `zst_pipeline_set_state` there are only frames of
it that do not walk, so that one frame at most holds the lock; and that `level`
is `state` except between a hook and the store that follows it. `UndoInv` says
what a rollback goes by. `Shaped` (whatever failed): a walk waits for the element
at its place, the frames above it are about that element or its children, and a
callee was asked for what its caller's place says. `Posted`: an error that
reached `zst_pipeline_set_state` has been posted. `Clean` (as long as no hook
failed in a rollback): each frame has left its element, with the children of a
bin, where its place and the last result say (`Topped`, `Lowered`, `Place`); a
callee starts where its caller wants it to (`Begun`); the element of a walk makes
the walk's single step (`Direct`), which is what puts no element two states
away; and there is one rollback at a time, in which calls succeed (`OneUndo`). A
step goes on in the top frame, calls or returns, and three lemmas (`UndoGoes`,
`UndoGrows`, `UndoReturns`) say once what the rest of the stack keeps; what is
left is one lemma per action. A worker's store only takes its element out of
what is claimed (`EndedLeftOut`).

**The scheduler.** `OneToken`: `is_queued` lets one token of an element into the
scheduler (in the ready queue, about to be pushed, or in a worker's hands).
`LateTokens`: an element that has not joined has none, and a token that outlives
the removal of its element cannot be run any more. `Refs`: `sched_task_refs`
counts the tokens, with the one being dropped. `Locks`, `Lives` and `Graph`: who
holds which side of the elements lock, which workers may exist, and which
elements the cache and the scans may name.

**The receivers.** The stream is the payloader's: what `PacketsOf` computes is
proved, for a stream of any length (`StreamShape`). This takes induction over
the natural numbers, which the library states with an operator as parameter and
the provers cannot instantiate; here it is a lemma about *sets* of numbers
(`Induction`), proved from cardinalities of intervals (`DownClosed`,
`LeastNat`), and applied to the recursive function inside `FlattenSeq`
(`AccExists`, `FlattenAcc`, `FlattenJoined`). Depayloader: the access unit at
hand is a run of packets of one unit that ends with the last packet, and without
a pending discontinuity it has its first packet, or is the one the receiver
joined in, at first or after memory ran out for a packet (`NoGap`);
`SeqnoInjective` turns the equality of sequence numbers into that of packets
within a cycle. Redundancy demuxer: of the `History`
packets up to the newest one, an entry of the history is set for exactly those
that went through (`Window`), which is what clearing the entries of a gap is
for. Reorder buffer: a packet lies in the slot of its own number only.

**The elements.** That a closed element owns nothing depends, kind by kind, on
what its flags say of its pointers: `close()` frees what `initialized` stands
for, a retried init trusts that a failed one undid its work. `XFits(s, q, o)`
writes this down for each of the 78 kinds: in state `s`, and after the oddities
`o` (a push while PAUSED, a setting changed while open), which resources the
structure `q` owns under which flags, and the most it may have lost or used
astray. `Sound` is what the framework needs of a kind, and says nothing of its
fields: every outcome of every hook, called when the framework may call it
(`Calls`), leaves a structure that fits the state the element is then in, the
hooks on the way down do not fail, and no setting is dropped but the known ones
(`Moves`); a state change without a hook is right too (`Idle`); sending and
giving up frames does not matter (`Steady`); a new element fits (`Born`); and a
structure that fits is within the tables of section 2 (`Safe`). One lemma per
kind follows its hooks call by call (`AacEncKeeps`, ... with the lemmas
`...Fields` for the primitives and `Alike` for what happens inside a codec), one
shows it sound, and `AllSound` collects them. `ElementNext` then goes through
the actions of `ZstElement` once, for any sound kind: set_state with a missing,
a succeeding and a failing hook, destruction from every state, the default and
the element's own push function, the scheduler's task, threads, events and
properties. The tables `KnownLeaks`, `KnownStrays` and `Forgotten` are part of
the statements: what they name is what the code does lose, the settings of the
redundancy mux and demux among it, which their `close()` frees.

### Only model-checked

- Liveness under fairness and everything about ENABLED: CallsServed,
  DestroyedPoolFreed, AcquireServed, ControlReturns, Delivered, SetStateReturns,
  JoinsReturn, Reconnected. Out of the prover's reach. That the calls of the
  scheduler's application return (`CtrlReturns`) can be seen with
  `MCZstScheduler_live.cfg`, one element and two workers; it presumes that the
  elements lock, which prefers readers, is free of them again and again.
- `EosLast` and `Drained` of `ZstElement`. Both relate what the element has sent
  to what upstream has pushed, and for the codecs to the frames inside and on
  the list: per kind, an invariant about the order of a stream beside the one
  about ownership that is proved. TLC goes through all kinds with up to two
  frames inside a library.
- `NoStuckPop` of the queue with several consumers is false (section 4).

## 6. Not modelled

- Ghost pads and EOS of bins, clocks and pacing, the graph computations of the
  pipeline: parts of the engine left out so far.
- What two threads meet inside one hook: the stop of the queue element (flush,
  then join) beside a producer, and the release of a mixer's or compositor's pad
  beside a push into it (which uses the queue after its unlock,
  `audio_mixer.c:314`) have no property, because `ZstElement` takes a hook as one
  step. The capture calls of the compositors.
- WebRTC, the RTSP and HTTP servers and the RTSP client, the Dante session,
  control protocol and video coordinator: protocol text and wire formats around
  sockets and external libraries. Allocators, caps, registry, log: tables,
  strings, output.
- The pool's watermark callback runs after the pool's unlock
  (`zst_buffer_pool.c:172`, `203`) and is not counted as a use of the pool.
- In what is modelled: payloads, bit streams and file formats; codec libraries,
  drivers and sockets, which are oracles that may fail; two threads inside the
  hooks of one element; memory orders below sequential consistency; concurrent
  threads changing one pipeline.

## 7. Plan

1. `ZstQueueElement` over `ZstFifo` (stop beside a producer), now that
   `RingIsFifo` lets the ring be replaced by `ZstFifo`, and the EOS of bins
   through ghost pads.
