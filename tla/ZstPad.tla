------------------------------- MODULE ZstPad -------------------------------
(***************************************************************************)
(* Pads (zst_pad.c): linking and unlinking under the two link locks, the   *)
(* reference counts that keep a peer alive during a call, pushing with the *)
(* policies of an unlinked pad, pulling, events with the sticky event and  *)
(* its replay by zst_pad_link, blocking and probes.                        *)
(*                                                                         *)
(* A section under link_lock or probe_lock is one step; the pair of link   *)
(* locks is taken lock by lock.  The three sticky events of a source pad   *)
(* are one, numbered.  Buffers lie inside the segment and caps negotiate;  *)
(* what the peer's element does with a buffer is the deliver step.         *)
(***************************************************************************)
EXTENDS Integers, Sequences, FiniteSets

CONSTANTS
    Src, Sink,        \* the pads; a pad is a number, in the order of addresses
    Threads,
    Calls,            \* per thread: the calls it makes
    Watched,          \* the pads the application blocks and probes
    MaxQueued,        \* max_queued of the QUEUE policy
    MaxEvents,        \* bound: sticky events pushed
    MaxLinks,         \* bound: calls of link, unlink and destroy
    MaxSettings       \* bound: calls that block, probe, pull or set something

Pads == Src \cup Sink
Policies == {"error", "drop", "block", "queue"}
AllCalls == {"push", "pull", "event", "upstream", "link", "unlink", "destroy", "block", "unblock",
             "callback", "probe", "policy"}

ASSUME PadAssumption ==
    /\ Pads \subseteq Nat \ {0} /\ Src \cap Sink = {} /\ Watched \subseteq Pads
    /\ IsFiniteSet(Pads) /\ IsFiniteSet(Threads) /\ "" \notin Threads
    /\ Calls \in [Threads -> SUBSET AllCalls]
    /\ {MaxQueued, MaxEvents, MaxLinks, MaxSettings} \subseteq Nat

VARIABLES
    peer,             \* pad->peer, 0 for NULL
    refs,             \* pad->refcount; 0 when finalized
    owned,            \* the pads whose element still holds its reference
    lock,             \* the holder of link_lock, "" for none
    blocked, fired,   \* blocked, block_callback_fired
    callback, probe,  \* the pads with a block callback, and with a probe
    policy, queued,   \* unlinked_policy, queued_count
    sticky,           \* the sticky event of a source pad, 0 for none
    pushed,           \* history: the last event pushed on a source pad
    seen,             \* history: the last event a sink pad got from its present peer
    made,             \* how many calls of the two bounds have begun
    th                \* per thread: the call it is in

vars == <<peer, refs, owned, lock, blocked, fired, callback, probe, policy, queued, sticky,
          pushed, seen, made, th>>

links  == <<peer, refs, owned, lock>>
blocks == <<blocked, fired, callback, probe>>
events == <<sticky, pushed, seen>>

Idle == [call |-> "idle", own |-> 0, other |-> 0, event |-> 0, at |-> 1, wait |-> "no",
         inner |-> FALSE, failed |-> FALSE]

Init ==
    /\ \E q \in Src, k \in Sink :
          peer = [p \in Pads |-> IF p = q THEN k ELSE IF p = k THEN q ELSE 0]
    /\ refs = [p \in Pads |-> IF peer[p] = 0 THEN 1 ELSE 2] /\ owned = Pads
    /\ lock = [p \in Pads |-> ""]
    /\ blocked = [p \in Pads |-> FALSE] /\ fired = [p \in Pads |-> FALSE]
    /\ callback = {} /\ probe = {}
    /\ policy = [p \in Src |-> "error"] /\ queued = [p \in Src |-> 0]
    /\ sticky = [p \in Src |-> 0] /\ pushed = [p \in Src |-> 0]
    /\ seen = [p \in Sink |-> 0]
    /\ made = [links |-> 0, settings |-> 0] /\ th = [t \in Threads |-> Idle]

----------------------------------------------------------------------------
(* The calls as programs of steps *)

PushSteps == <<"take", "pre_own", "pre_other", "deliver", "post_other", "post_own", "drop">>
PullSteps == <<"take", "deliver", "pre_other", "pre_own", "post_own", "post_other", "drop">>
UpstreamSteps ==
    <<"pre_own", "take", "pre_other", "deliver", "post_other", "drop", "post_own">>
EventSteps  == <<"store">> \o UpstreamSteps
LinkSteps   == <<"first", "second", "join", "replay">> \o EventSteps
UnlinkSteps == <<"take", "first", "second", "split", "release">>

Steps ==
    [push |-> PushSteps, pull |-> PullSteps, event |-> EventSteps, upstream |-> UpstreamSteps,
     link |-> LinkSteps, unlink |-> UnlinkSteps, destroy |-> Append(UnlinkSteps, "disown"),
     idle |-> <<>>]

Step(t) == IF th[t].at <= Len(Steps[th[t].call]) THEN Steps[th[t].call][th[t].at] ELSE "done"
IsAt(t, step) == th[t].call # "idle" /\ th[t].wait = "no" /\ Step(t) = step

Own(t)   == th[t].own
Other(t) == th[t].other

(* The thread goes on with its next step, or with a named one, or returns. *)
Set(t, r)      == th' = [th EXCEPT ![t] = r]
Forth(t)       == Set(t, [th[t] EXCEPT !.at = @ + 1, !.wait = "no", !.inner = FALSE])
JumpTo(t, step) == Set(t, [th[t] EXCEPT !.wait = "no", !.inner = FALSE,
                               !.at = CHOOSE i \in 1 .. Len(Steps[th[t].call]) :
                                          i > @ /\ Steps[th[t].call][i] = step])
Return(t)      == Set(t, Idle)
Waits(t, w)    == Set(t, [th[t] EXCEPT !.wait = w])

(* An application uses a pad as the argument of a call while the pad's     *)
(* element owns it, and does not destroy it during such a call.            *)
Begin(t, call, p) ==
    /\ th[t].call = "idle" /\ call \in Calls[t] /\ p \in owned
    /\ \A u \in Threads : ~(th[u].call = "destroy" /\ th[u].own = p)
    /\ call = "destroy" => \A u \in Threads :
          Own(u) # p /\ ~(th[u].call = "link" /\ th[u].at <= 3 /\ Other(u) = p)
    /\ CASE call \in {"push", "event", "unblock"} -> UNCHANGED made
         [] call \in {"link", "unlink", "destroy"} ->
               made.links < MaxLinks /\ made' = [made EXCEPT !.links = @ + 1]
         [] OTHER -> made.settings < MaxSettings /\ made' = [made EXCEPT !.settings = @ + 1]

Entered(call, p, k) == [Idle EXCEPT !.call = call, !.own = p, !.other = k]

BeginCall(t) ==
    /\ \E p \in Pads, call \in {"push", "pull", "upstream", "unlink", "destroy"} :
          /\ Begin(t, call, p)
          /\ call = "push" => p \in Src
          /\ call \in {"pull", "upstream"} => p \in Sink
          /\ Set(t, Entered(call, p, 0))
    /\ UNCHANGED <<links, blocks, policy, queued, events>>

BeginLink(t) ==
    /\ \E p \in Src, k \in Sink :
          /\ Begin(t, "link", p) /\ Begin(t, "link", k)
          /\ Set(t, Entered("link", p, k))
    /\ UNCHANGED <<links, blocks, policy, queued, events>>

BeginEvent(t) ==
    /\ \E p \in Src :
          /\ Begin(t, "event", p) /\ pushed[p] < MaxEvents
          /\ Set(t, [Entered("event", p, 0) EXCEPT !.event = pushed[p] + 1])
          /\ pushed' = [pushed EXCEPT ![p] = @ + 1]
    /\ UNCHANGED <<links, blocks, policy, queued, sticky, seen>>

----------------------------------------------------------------------------
(* Links *)

(* Mutant of the next: the locks are taken in the order of the arguments. *)
Order_Arguments(t) == <<Own(t), Other(t)>>

(* pad_lock_pair *)
Order(t) == IF Own(t) < Other(t) THEN <<Own(t), Other(t)>> ELSE <<Other(t), Own(t)>>

LockFirst(t) ==
    /\ IsAt(t, "first") /\ lock[Order(t)[1]] = ""
    /\ lock' = [lock EXCEPT ![Order(t)[1]] = t]
    /\ Forth(t)
    /\ UNCHANGED <<peer, refs, owned, blocks, policy, queued, events>>

LockSecond(t) ==
    /\ IsAt(t, "second") /\ lock[Order(t)[2]] = ""
    /\ lock' = [lock EXCEPT ![Order(t)[2]] = t]
    /\ Forth(t)
    /\ UNCHANGED <<peer, refs, owned, blocks, policy, queued, events>>

Unlock(t) == lock' = [lock EXCEPT ![Own(t)] = "", ![Other(t)] = ""]

MayLink(p, k) == peer[p] = 0 /\ peer[k] = 0

(* zst_pad_link under both locks; waiters for a link look at peer again. *)
Join(t) ==
    /\ IsAt(t, "join")
    /\ IF MayLink(Own(t), Other(t))
       THEN /\ peer' = [peer EXCEPT ![Own(t)] = Other(t), ![Other(t)] = Own(t)]
            /\ refs' = [refs EXCEPT ![Own(t)] = @ + 1, ![Other(t)] = @ + 1]
            /\ seen' = [seen EXCEPT ![Other(t)] = 0]
            /\ Set(t, [th[t] EXCEPT !.other = 0, !.at = @ + 1])
       ELSE Return(t) /\ UNCHANGED <<peer, refs, seen>>
    /\ Unlock(t)
    /\ UNCHANGED <<owned, blocks, policy, queued, sticky, pushed>>

(* The replay reads the sticky event without a lock. *)
Replay(t) ==
    /\ IsAt(t, "replay")
    /\ IF sticky[Own(t)] = 0 THEN Return(t)
       ELSE Set(t, [th[t] EXCEPT !.event = sticky[Own(t)], !.at = @ + 1])
    /\ UNCHANGED <<links, blocks, policy, queued, events>>

(* The peer is read under link_lock and a reference taken. *)
NoPeer(t) ==
    CASE th[t].call = "push" -> Waits(t, "policy")
      [] th[t].call \in {"event", "upstream", "link"} -> JumpTo(t, "post_own")
      [] th[t].call = "destroy" -> JumpTo(t, "disown")
      [] th[t].call \in {"pull", "unlink"} -> Return(t)

Take(t) ==
    /\ IsAt(t, "take") /\ lock[Own(t)] = ""
    /\ LET p == peer[Own(t)] IN
       IF p = 0 THEN NoPeer(t) /\ UNCHANGED refs
       ELSE /\ refs' = [refs EXCEPT ![p] = @ + 1]
            /\ Set(t, [th[t] EXCEPT !.other = p, !.at = @ + 1])
    /\ UNCHANGED <<peer, owned, lock, blocks, policy, queued, events>>

(* The pad's references of the two links are dropped by the call that cut  *)
(* them.                                                                   *)
Counted(p, q) == [x \in Pads |-> refs[x] - (IF x = p THEN 1 ELSE 0) - (IF x = q THEN 1 ELSE 0)]

(* Mutant of the next: the peer is not looked at again under the locks. *)
StillPeer_Unchecked(t) == TRUE

StillPeer(t) == peer[Own(t)] = Other(t)

Cut(p, q) == [peer EXCEPT ![p] = 0, ![q] = IF @ = p THEN 0 ELSE @]

(* zst_pad_unlink under both locks *)
Split(t) ==
    /\ IsAt(t, "split")
    /\ IF StillPeer(t)
       THEN /\ peer' = Cut(Own(t), Other(t))
            /\ Set(t, [th[t] EXCEPT !.at = @ + 1, !.event = 2])
       ELSE Forth(t) /\ UNCHANGED peer
    /\ Unlock(t)
    /\ UNCHANGED <<refs, owned, blocks, policy, queued, events>>

(* A pad whose last reference goes is finalized: sleepers are woken. *)
Woken(p) == [u \in Threads |-> IF th[u].wait = "asleep" /\
                                   p = (IF Step(u) \in {"pre_own", "post_own"}
                                        THEN Own(u) ELSE Other(u))
                               THEN [th[u] EXCEPT !.wait = "lock"] ELSE th[u]]

(* The references of the link that was cut, the peer's and then the pad's, *)
(* and at last the one the call took on the peer: three unrefs             *)
Release(t) ==
    /\ IsAt(t, "release")
    /\ IF th[t].event # 0
       THEN /\ refs' = Counted(IF th[t].event = 2 THEN Other(t) ELSE Own(t), 0)
            /\ Set(t, [th[t] EXCEPT !.event = @ - 1])
       ELSE /\ refs' = Counted(Other(t), 0)
            /\ IF th[t].call = "destroy" THEN Set(t, [th[t] EXCEPT !.at = @ + 1, !.other = 0])
               ELSE Return(t)
    /\ UNCHANGED <<peer, owned, lock, blocks, policy, queued, events>>

(* zst_element_remove_pad and zst_element_destroy: after the unlink the    *)
(* element drops its own reference.                                        *)
Disown(t) ==
    /\ IsAt(t, "disown")
    /\ owned' = owned \ {Own(t)}
    /\ refs' = Counted(Own(t), 0)
    /\ Return(t)
    /\ UNCHANGED <<peer, lock, blocks, policy, queued, events>>

(* The reference to the peer is dropped at the end of a call; an event the *)
(* peer's element refused skips the pad's own probes.                      *)
Drop(t) ==
    /\ IsAt(t, "drop")
    /\ refs' = Counted(Other(t), 0)
    /\ IF th[t].call \in {"push", "pull"} \/ th[t].failed THEN Return(t)
       ELSE Set(t, [th[t] EXCEPT !.at = @ + 1, !.other = 0])
    /\ UNCHANGED <<peer, owned, lock, blocks, policy, queued, events>>

Finish(t) ==
    /\ IsAt(t, "done")
    /\ Return(t)
    /\ UNCHANGED <<links, blocks, policy, queued, events>>

----------------------------------------------------------------------------
(* The policies of an unlinked source pad *)

MayQueue(p) == queued[p] < MaxQueued

Unlinked(t) ==
    /\ th[t].wait = "policy"
    /\ LET p == Own(t) IN
       \/ policy[p] \in {"error", "drop"} /\ Return(t) /\ UNCHANGED queued
       \/ policy[p] = "block" /\ Waits(t, "link") /\ UNCHANGED queued
       \/ policy[p] = "queue" /\ Return(t)
          /\ queued' = IF MayQueue(p) THEN [queued EXCEPT ![p] = @ + 1] ELSE queued
    /\ UNCHANGED <<links, blocks, policy, events>>

(* BLOCK waits for a link, for one second. *)
Linked(t) ==
    /\ th[t].wait = "link" /\ lock[Own(t)] = "" /\ peer[Own(t)] # 0
    /\ refs' = [refs EXCEPT ![peer[Own(t)]] = @ + 1]
    /\ Set(t, [th[t] EXCEPT !.other = peer[Own(t)], !.at = @ + 1, !.wait = "no"])
    /\ UNCHANGED <<peer, owned, lock, blocks, policy, queued, events>>

LinkTimeout(t) ==
    /\ th[t].wait = "link" /\ lock[Own(t)] = "" /\ peer[Own(t)] = 0
    /\ Return(t)
    /\ UNCHANGED <<links, blocks, policy, queued, events>>

----------------------------------------------------------------------------
(* Events and buffers *)

(* zst_pad_push_event_internal stores the event as the sticky one. *)
Store(t) ==
    /\ IsAt(t, "store")
    /\ sticky' = [sticky EXCEPT ![Own(t)] = th[t].event]
    /\ Forth(t)
    /\ UNCHANGED <<links, blocks, policy, queued, pushed, seen>>

(* An event hook downstream may fail; an event upstream fails at a pad     *)
(* that its element has let go, and an error of the hook there makes it go *)
(* on upstream.                                                            *)
MayFail(t) ==
    \/ th[t].call \in {"event", "link"} /\ Other(t) \in owned
    \/ th[t].call = "upstream" /\ Other(t) \notin owned

(* The peer's push, or the event hook of its element *)
Deliver(t) ==
    /\ IsAt(t, "deliver")
    /\ IF th[t].event # 0 THEN seen' = [seen EXCEPT ![Other(t)] = th[t].event] ELSE UNCHANGED seen
    /\ \/ (th[t].call = "upstream" => ~MayFail(t)) /\ Forth(t)
       \/ th[t].call \in {"push", "pull"} /\ JumpTo(t, "drop")       \* it returns an error
       \/ MayFail(t) /\ Set(t, [th[t] EXCEPT !.at = @ + 1, !.failed = TRUE])
    /\ UNCHANGED <<links, blocks, policy, queued, sticky, pushed>>

----------------------------------------------------------------------------
(* Blocking and probes *)

At(t) == IF Step(t) \in {"pre_own", "post_own"} THEN Own(t) ELSE Other(t)
Probing(t) == th[t].call # "idle" /\ Step(t) \in {"pre_own", "pre_other", "post_other", "post_own"}

(* A probe's DROP: before the buffer it ends the call, in push and pull    *)
(* after dropping the peer; a POST probe's result counts only in pull.     *)
Dropped(t) ==
    CASE th[t].call = "push" -> IF Step(t) \in {"pre_own", "pre_other"} THEN JumpTo(t, "drop")
                                ELSE Forth(t)
      [] th[t].call = "pull" -> JumpTo(t, "drop")
      [] OTHER -> CASE Step(t) = "pre_own" -> Return(t)
                    [] Step(t) = "pre_other" -> JumpTo(t, "drop")
                    [] OTHER -> Forth(t)

(* pad_run_probes: neither blocked nor probed, and the call goes on. *)
FastExit(t) ==
    /\ Probing(t) /\ th[t].wait = "no"
    /\ IF ~blocked[At(t)] /\ At(t) \notin probe THEN Forth(t) ELSE Waits(t, "enter")
    /\ UNCHANGED <<links, blocks, policy, queued, events>>

(* pad_handle_block has returned PROBE_OK: to the probes, or, when a probe  *)
(* had blocked the pad, behind that probe.                                 *)
Passed(t) == IF th[t].inner THEN Forth(t) ELSE Waits(t, "probes")

(* pad_handle_block, first section *)
HandleBlock(t) ==
    /\ Probing(t) /\ th[t].wait = "enter"
    /\ LET p == At(t)
           asks == blocked[p] /\ p \in callback /\ ~fired[p]
       IN  /\ fired' = [fired EXCEPT ![p] = asks \/ (blocked[p] /\ @)]
           /\ IF asks THEN Waits(t, "callback")
              ELSE IF blocked[p] THEN Waits(t, "lock")
              ELSE Passed(t)
    /\ UNCHANGED <<links, blocked, callback, probe, policy, queued, events>>

(* The block callback, without the lock: PROBE_OK unblocks the pad for     *)
(* everybody, PROBE_DROP drops the buffer and leaves the pad blocked.      *)
BlockCallback(t) ==
    /\ Probing(t) /\ th[t].wait = "callback"
    /\ \/ /\ blocked' = [blocked EXCEPT ![At(t)] = FALSE]
          /\ fired' = [fired EXCEPT ![At(t)] = FALSE]
          /\ th' = [Woken(At(t)) EXCEPT ![t] =
                       IF th[t].inner
                       THEN [th[t] EXCEPT !.at = @ + 1, !.wait = "no", !.inner = FALSE]
                       ELSE [th[t] EXCEPT !.wait = "probes"]]
       \/ Dropped(t) /\ UNCHANGED <<blocked, fired>>
       \/ Waits(t, "lock") /\ UNCHANGED <<blocked, fired>>
    /\ UNCHANGED <<links, callback, probe, policy, queued, events>>

(* Mutant of the next: blocked is not looked at before the wait. *)
MustWait_Always(p) == TRUE

MustWait(p) == blocked[p]

(* Second section: wait until the pad is no longer blocked. *)
WaitUnblocked(t) ==
    /\ Probing(t) /\ th[t].wait = "lock"
    /\ IF MustWait(At(t)) THEN Waits(t, "asleep") /\ UNCHANGED fired
       ELSE Waits(t, "enter") /\ fired' = [fired EXCEPT ![At(t)] = FALSE]
    /\ UNCHANGED <<links, blocked, callback, probe, policy, queued, events>>

(* The probes are collected under the lock and called without it. *)
Collect(t) ==
    /\ Probing(t) /\ th[t].wait = "probes"
    /\ IF At(t) \in probe THEN Waits(t, "call") ELSE Forth(t)
    /\ UNCHANGED <<links, blocks, policy, queued, events>>

CallProbe(t) ==
    /\ Probing(t) /\ th[t].wait = "call"
    /\ \/ Forth(t) /\ UNCHANGED <<blocked, fired>>
       \/ Dropped(t) /\ UNCHANGED <<blocked, fired>>
       \/ /\ blocked' = [blocked EXCEPT ![At(t)] = TRUE]
          /\ fired' = [fired EXCEPT ![At(t)] = FALSE]
          /\ Set(t, [th[t] EXCEPT !.wait = "enter", !.inner = TRUE])
    /\ UNCHANGED <<links, callback, probe, policy, queued, events>>

Block(t) ==
    \E p \in Watched :
        /\ Begin(t, "block", p)
        /\ blocked' = [blocked EXCEPT ![p] = TRUE] /\ fired' = [fired EXCEPT ![p] = FALSE]
        /\ UNCHANGED <<links, callback, probe, policy, queued, events, th>>

Unblock(t) ==
    \E p \in Watched :
        /\ Begin(t, "unblock", p)
        /\ blocked' = [blocked EXCEPT ![p] = FALSE] /\ fired' = [fired EXCEPT ![p] = FALSE]
        /\ th' = Woken(p)
        /\ UNCHANGED <<links, callback, probe, policy, queued, events>>

SetBlockCallback(t) ==
    \E p \in Watched :
        /\ Begin(t, "callback", p)
        /\ callback' \in {callback \cup {p}, callback \ {p}}
        /\ fired' = [fired EXCEPT ![p] = FALSE]
        /\ UNCHANGED <<links, blocked, probe, policy, queued, events, th>>

(* zst_pad_add_probe, zst_pad_remove_probe *)
ChangeProbes(t) ==
    \E p \in Watched :
        /\ Begin(t, "probe", p)
        /\ probe' \in {probe \cup {p}, probe \ {p}}
        /\ UNCHANGED <<links, blocked, fired, callback, policy, queued, events, th>>

SetPolicy(t) ==
    \E p \in Src, x \in Policies :
        /\ Begin(t, "policy", p)
        /\ policy' = [policy EXCEPT ![p] = x] /\ queued' = [queued EXCEPT ![p] = 0]
        /\ UNCHANGED <<links, blocks, events, th>>

----------------------------------------------------------------------------
(* A call that has begun *)
GoOn(t) == UNCHANGED made /\ (
    \/ LockFirst(t) \/ LockSecond(t) \/ Join(t) \/ Replay(t) \/ Take(t) \/ Split(t) \/ Release(t)
    \/ Disown(t) \/ Drop(t) \/ Finish(t)
    \/ Unlinked(t) \/ Linked(t) \/ LinkTimeout(t)
    \/ Store(t) \/ Deliver(t)
    \/ FastExit(t) \/ HandleBlock(t) \/ BlockCallback(t) \/ WaitUnblocked(t) \/ Collect(t)
    \/ CallProbe(t))

Next ==
    \E t \in Threads :
        \/ GoOn(t)
        \/ BeginCall(t) \/ BeginLink(t) \/ BeginEvent(t)
        \/ Block(t) \/ Unblock(t) \/ SetBlockCallback(t) \/ ChangeProbes(t) \/ SetPolicy(t)

Spec == Init /\ [][Next]_vars

----------------------------------------------------------------------------
TypeOK ==
    /\ peer \in [Pads -> Pads \cup {0}] /\ owned \subseteq Pads
    /\ \A p \in Pads : refs[p] \in 0 .. 2 + 2 * Cardinality(Threads)
    /\ \A p \in Src : queued[p] \in 0 .. MaxQueued

(* The references a call holds on p: to the peer it took, and those of the *)
(* link it has cut and not yet dropped.                                    *)
Holds(t, p) ==
    LET r == th[t]
        taken == r.other = p /\ (r.call # "link" \/ r.at > 4)
        cut == /\ r.call \in {"unlink", "destroy"} /\ Step(t) = "release"
               /\ (p = r.own /\ r.event # 0) \/ (p = r.other /\ r.event = 2)
    IN  (IF taken THEN 1 ELSE 0) + (IF cut THEN 1 ELSE 0)

HeldBy(p) == {t \in Threads : Holds(t, p) = 1}
HeldTwiceBy(p) == {t \in Threads : Holds(t, p) = 2}

(* A pad's count is its owner, its link and the calls that hold it: after  *)
(* any race of links, unlinks, pushes and removals nothing is dropped      *)
(* twice, nothing leaks, and no pad is finalized under a call.             *)
RefsExact ==
    \A p \in Pads :
        refs[p] = Cardinality({p} \cap owned) + (IF peer[p] # 0 THEN 1 ELSE 0)
                  + Cardinality(HeldBy(p)) + 2 * Cardinality(HeldTwiceBy(p))

(* Two pads always point at each other, and never at a finalized one. *)
Symmetric == \A p \in Pads : peer[p] # 0 => peer[peer[p]] = p /\ refs[p] > 0

(* Nobody sleeps at a pad that is not blocked: unblock, the callback's     *)
(* PROBE_OK and the waiting itself meet at probe_lock.                     *)
NoLostUnblock == \A t \in Threads : th[t].wait = "asleep" => blocked[At(t)]

(* wiki/phase-adaptive-stream-demuxing.md: after late linking the latest   *)
(* sticky event reaches the new peer before the first buffer.              *)
StickyFirst ==
    \A t \in Threads : th[t].call = "push" /\ IsAt(t, "deliver") => seen[Other(t)] = sticky[Own(t)]

(* The link lock a thread waits for *)
Needs(t) ==
    CASE IsAt(t, "first") -> Order(t)[1]
      [] IsAt(t, "second") -> Order(t)[2]
      [] IsAt(t, "take") \/ th[t].wait = "link" -> Own(t)
      [] OTHER -> 0

(* pad_lock_pair's order of addresses: links, unlinks, removals and pushes *)
(* never wait for each other's locks in a circle.                          *)
NoLockCycle ==
    ~\E S \in (SUBSET Threads) \ {{}} :
        \A t \in S : Needs(t) # 0 /\ lock[Needs(t)] \in S

(* Links and reference counts are exact through every race of zst_pad_link,*)
(* zst_pad_unlink, pushes and removals: RefsExact and Symmetric, with the  *)
(* types.                                                                  *)
PeersExact == TypeOK /\ RefsExact /\ Symmetric
=============================================================================
