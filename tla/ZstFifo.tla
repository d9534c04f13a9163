------------------------------- MODULE ZstFifo -------------------------------
(***************************************************************************)
(* What zst_queue_push and zst_queue_pop promise (include/zst_queue.h): a  *)
(* bounded FIFO.  Every call has one instant between its invocation and    *)
(* its return at which it takes effect on the queue, or it fails and has   *)
(* no effect at all.                                                       *)
(***************************************************************************)
EXTENDS Naturals, Sequences

CONSTANTS Producers, Consumers, Buffers, NoBuf, Bound

VARIABLES
    queue,  \* the buffers in the queue, oldest first
    call,   \* per thread: "idle", "open" (invoked), "done" (took effect)
    arg     \* per thread: the buffer it pushes or has popped

Init ==
    /\ queue = <<>>
    /\ call = [t \in Producers \cup Consumers |-> "idle"]
    /\ arg = [t \in Producers \cup Consumers |-> NoBuf]

Move(t, from, to) ==
    call[t] = from /\ call' = [call EXCEPT ![t] = to]

InvokePush(p, b) ==
    /\ Move(p, "idle", "open")
    /\ arg' = [arg EXCEPT ![p] = b]
    /\ UNCHANGED queue

InvokePop(c) ==
    /\ Move(c, "idle", "open")
    /\ arg' = [arg EXCEPT ![c] = NoBuf]
    /\ UNCHANGED queue

Put(p) ==
    /\ Move(p, "open", "done")
    /\ Len(queue) < Bound
    /\ queue' = Append(queue, arg[p])
    /\ UNCHANGED arg

Take(c) ==
    /\ Move(c, "open", "done")
    /\ queue # <<>>
    /\ queue' = Tail(queue)
    /\ arg' = [arg EXCEPT ![c] = Head(queue)]

\* ZST_OK.
Succeed(t) == Move(t, "done", "idle") /\ UNCHANGED <<queue, arg>>

\* ZST_ERROR or ZST_TIMEOUT.
Fail(t) == Move(t, "open", "idle") /\ UNCHANGED <<queue, arg>>

Next ==
    \/ \E p \in Producers : Put(p) \/ \E b \in Buffers : InvokePush(p, b)
    \/ \E c \in Consumers : InvokePop(c) \/ Take(c)
    \/ \E t \in Producers \cup Consumers : Succeed(t) \/ Fail(t)

Spec == Init /\ [][Next]_<<queue, call, arg>>
=============================================================================
