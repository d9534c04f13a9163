---------------------------- MODULE ZstPadProofs ----------------------------
(***************************************************************************)
(* Links, locks, reference counts and blocking of pads (zst_pad.c), for    *)
(* every set of pads and of threads and every number of calls.             *)
(***************************************************************************)
EXTENDS ZstPad, SequenceTheorems, FiniteSetTheorems, WellFoundedInduction, TLAPS

-----------------------------------------------------------------------------
(* The programs of the calls: where each step is.                           *)

CallNames == {"push", "pull", "event", "upstream", "link", "unlink", "destroy", "idle"}

(* The last position of each call; behind the last step it is done. *)
Ends == [push |-> 7, pull |-> 7, event |-> 9, upstream |-> 8, link |-> 13, unlink |-> 5,
         destroy |-> 6, idle |-> 1]

StepOf(c, i) == IF i <= Len(Steps[c]) THEN Steps[c][i] ELSE "done"

StepNames == {"first", "second", "join", "replay", "store", "pre_own", "take", "pre_other",
              "deliver", "post_other", "drop", "post_own", "split", "release", "disown"}
ProbeSteps == {"pre_own", "pre_other", "post_other", "post_own"}

LEMMA EventProgram ==
    /\ Len(EventSteps) = 8
    /\ EventSteps[1] = "store" /\ EventSteps[2] = "pre_own" /\ EventSteps[3] = "take"
    /\ EventSteps[4] = "pre_other" /\ EventSteps[5] = "deliver" /\ EventSteps[6] = "post_other"
    /\ EventSteps[7] = "drop" /\ EventSteps[8] = "post_own"
    /\ EventSteps \in Seq(StepNames)
<1>1. <<"store">> \in Seq(StepNames) /\ UpstreamSteps \in Seq(StepNames)
      /\ Len(<<"store">>) = 1 /\ Len(UpstreamSteps) = 7
  BY DEF UpstreamSteps, StepNames
<1>2. /\ EventSteps \in Seq(StepNames) /\ Len(EventSteps) = 8
      /\ \A i \in 1..8 : EventSteps[i] = IF i <= 1 THEN <<"store">>[i] ELSE UpstreamSteps[i - 1]
  <2> DEFINE a == <<"store">>
  <2> HIDE DEF a
  <2>1. a \in Seq(StepNames) /\ Len(a) = 1 /\ EventSteps = a \o UpstreamSteps
    BY <1>1 DEF a, EventSteps
  <2>2. /\ a \o UpstreamSteps \in Seq(StepNames) /\ Len(a \o UpstreamSteps) = Len(a) + Len(UpstreamSteps)
        /\ \A i \in 1..(Len(a) + Len(UpstreamSteps)) :
              (a \o UpstreamSteps)[i] = IF i <= Len(a) THEN a[i] ELSE UpstreamSteps[i - Len(a)]
    BY ONLY <2>1, <1>1, ConcatProperties
  <2> QED BY <2>1, <2>2, <1>1 DEF a
<1> QED BY <1>2 DEF UpstreamSteps

LEMMA LinkProgram ==
    /\ Len(LinkSteps) = 12
    /\ LinkSteps[1] = "first" /\ LinkSteps[2] = "second" /\ LinkSteps[3] = "join"
    /\ LinkSteps[4] = "replay"
    /\ LinkSteps[5] = "store" /\ LinkSteps[6] = "pre_own" /\ LinkSteps[7] = "take"
    /\ LinkSteps[8] = "pre_other" /\ LinkSteps[9] = "deliver" /\ LinkSteps[10] = "post_other"
    /\ LinkSteps[11] = "drop" /\ LinkSteps[12] = "post_own"
<1> DEFINE head == <<"first", "second", "join", "replay">>
<1>1. head \in Seq(StepNames) /\ Len(head) = 4
  BY DEF StepNames
<1>2. /\ Len(LinkSteps) = 12
      /\ \A i \in 1..12 : LinkSteps[i] = IF i <= 4 THEN head[i] ELSE EventSteps[i - 4]
  <2> HIDE DEF head
  <2>1. LinkSteps = head \o EventSteps
    BY DEF LinkSteps, head
  <2>2. /\ Len(head \o EventSteps) = Len(head) + Len(EventSteps)
        /\ \A i \in 1..(Len(head) + Len(EventSteps)) :
              (head \o EventSteps)[i] = IF i <= Len(head) THEN head[i]
                                        ELSE EventSteps[i - Len(head)]
    BY ONLY <1>1, EventProgram, ConcatProperties
  <2>3. Len(head) = 4 /\ Len(EventSteps) = 8
    BY <1>1, EventProgram
  <2> QED BY ONLY <2>1, <2>2, <2>3
<1> QED BY <1>2, EventProgram

LEMMA Appended ==
    ASSUME NEW S, NEW s \in Seq(S), NEW e \in S
    PROVE  /\ Append(s, e) \in Seq(S) /\ Len(Append(s, e)) = Len(s) + 1
           /\ \A i \in 1..Len(s) : Append(s, e)[i] = s[i]
           /\ Append(s, e)[Len(s) + 1] = e
BY AppendProperties

LEMMA DestroyProgram ==
    LET d == Append(UnlinkSteps, "disown") IN
    /\ Len(d) = 6
    /\ d[1] = "take" /\ d[2] = "first" /\ d[3] = "second" /\ d[4] = "split" /\ d[5] = "release"
    /\ d[6] = "disown"
<1>1. UnlinkSteps \in Seq(StepNames) /\ Len(UnlinkSteps) = 5
  BY DEF UnlinkSteps, StepNames
<1>2. /\ Len(Append(UnlinkSteps, "disown")) = 6
      /\ \A i \in 1..5 : Append(UnlinkSteps, "disown")[i] = UnlinkSteps[i]
      /\ Append(UnlinkSteps, "disown")[6] = "disown"
  <2> DEFINE u == UnlinkSteps
  <2> HIDE DEF u
  <2>1. u \in Seq(StepNames) /\ Len(u) = 5 /\ "disown" \in StepNames /\ u = UnlinkSteps
    BY <1>1 DEF u, StepNames
  <2>2. /\ Append(u, "disown") \in Seq(StepNames) /\ Len(Append(u, "disown")) = Len(u) + 1
        /\ \A i \in 1..Len(u) : Append(u, "disown")[i] = u[i]
        /\ Append(u, "disown")[Len(u) + 1] = "disown"
    <3>1. \A s \in Seq(StepNames) : \A e \in StepNames :
             /\ Append(s, e) \in Seq(StepNames) /\ Len(Append(s, e)) = Len(s) + 1
             /\ \A i \in 1..Len(s) : Append(s, e)[i] = s[i]
             /\ Append(s, e)[Len(s) + 1] = e
      BY Appended
    <3> QED BY ONLY <3>1, <2>1, Zenon
  <2> QED BY <2>1, <2>2
<1> QED BY <1>2 DEF UnlinkSteps

LEMMA Lengths ==
    /\ Len(Steps["push"]) = 7 /\ Len(Steps["pull"]) = 7 /\ Len(Steps["event"]) = 8
    /\ Len(Steps["upstream"]) = 7 /\ Len(Steps["link"]) = 12 /\ Len(Steps["unlink"]) = 5
    /\ Len(Steps["destroy"]) = 6 /\ Len(Steps["idle"]) = 0
<1>1. /\ Len(PushSteps) = 7 /\ Len(PullSteps) = 7 /\ Len(UpstreamSteps) = 7
      /\ Len(UnlinkSteps) = 5 /\ Len(<<>>) = 0
  BY DEF PushSteps, PullSteps, UpstreamSteps, UnlinkSteps
<1>2. /\ Steps["push"] = PushSteps /\ Steps["pull"] = PullSteps /\ Steps["event"] = EventSteps
      /\ Steps["upstream"] = UpstreamSteps /\ Steps["link"] = LinkSteps
      /\ Steps["unlink"] = UnlinkSteps /\ Steps["destroy"] = Append(UnlinkSteps, "disown")
      /\ Steps["idle"] = <<>>
  BY DEF Steps
<1> QED BY <1>1, <1>2, EventProgram, LinkProgram, DestroyProgram

(* Every step of every call. *)
Places(c, i, s) ==
    /\ (s = "first") <=> \/ c = "link" /\ i = 1
                         \/ c \in {"unlink", "destroy"} /\ i = 2
    /\ (s = "second") <=> \/ c = "link" /\ i = 2
                          \/ c \in {"unlink", "destroy"} /\ i = 3
    /\ (s = "join") <=> (c = "link" /\ i = 3)
    /\ (s = "replay") <=> (c = "link" /\ i = 4)
    /\ (s = "store") <=> (c = "event" /\ i = 1) \/ (c = "link" /\ i = 5)
    /\ (s = "pre_own") <=> \/ (c = "push" /\ i = 2) \/ (c = "pull" /\ i = 4)
                           \/ (c = "upstream" /\ i = 1) \/ (c = "event" /\ i = 2)
                           \/ (c = "link" /\ i = 6)
    /\ (s = "take") <=> \/ c \in {"push", "pull", "unlink", "destroy"} /\ i = 1
                        \/ (c = "upstream" /\ i = 2) \/ (c = "event" /\ i = 3)
                        \/ (c = "link" /\ i = 7)
    /\ (s = "pre_other") <=> \/ c \in {"push", "pull", "upstream"} /\ i = 3
                             \/ (c = "event" /\ i = 4) \/ (c = "link" /\ i = 8)
    /\ (s = "deliver") <=> \/ c \in {"push", "upstream"} /\ i = 4
                           \/ (c = "pull" /\ i = 2)
                           \/ (c = "event" /\ i = 5) \/ (c = "link" /\ i = 9)
    /\ (s = "post_other") <=> \/ c \in {"push", "upstream"} /\ i = 5
                              \/ (c = "pull" /\ i = 6)
                              \/ (c = "event" /\ i = 6) \/ (c = "link" /\ i = 10)
    /\ (s = "drop") <=> \/ c \in {"push", "pull"} /\ i = 7
                        \/ (c = "upstream" /\ i = 6)
                        \/ (c = "event" /\ i = 7) \/ (c = "link" /\ i = 11)
    /\ (s = "post_own") <=> \/ (c = "push" /\ i = 6) \/ (c = "pull" /\ i = 5)
                            \/ (c = "upstream" /\ i = 7) \/ (c = "event" /\ i = 8)
                            \/ (c = "link" /\ i = 12)
    /\ (s = "split") <=> (c \in {"unlink", "destroy"} /\ i = 4)
    /\ (s = "release") <=> (c \in {"unlink", "destroy"} /\ i = 5)
    /\ (s = "disown") <=> (c = "destroy" /\ i = 6)
    /\ (s = "done") <=> \/ (c = "upstream" /\ i = 8) \/ (c = "event" /\ i = 9)
                        \/ (c = "link" /\ i = 13) \/ (c = "idle" /\ i = 1)

LEMMA StepPlaces ==
    ASSUME NEW c \in CallNames, NEW i \in Nat, 1 <= i, i <= Ends[c]
    PROVE  Places(c, i, StepOf(c, i))
<1>1. /\ Steps["push"] = PushSteps /\ Steps["pull"] = PullSteps /\ Steps["event"] = EventSteps
      /\ Steps["upstream"] = UpstreamSteps /\ Steps["link"] = LinkSteps
      /\ Steps["unlink"] = UnlinkSteps /\ Steps["destroy"] = Append(UnlinkSteps, "disown")
      /\ Steps["idle"] = <<>>
  BY DEF Steps
<1>2. /\ Ends["push"] = 7 /\ Ends["pull"] = 7 /\ Ends["event"] = 9 /\ Ends["upstream"] = 8
      /\ Ends["link"] = 13 /\ Ends["unlink"] = 5 /\ Ends["destroy"] = 6 /\ Ends["idle"] = 1
  BY DEF Ends
<1>3. CASE c = "push"
  <2>1. i \in {1, 2, 3, 4, 5, 6, 7}
    BY <1>2, <1>3
  <2>2. /\ PushSteps[1] = "take" /\ PushSteps[2] = "pre_own" /\ PushSteps[3] = "pre_other"
        /\ PushSteps[4] = "deliver" /\ PushSteps[5] = "post_other" /\ PushSteps[6] = "post_own"
        /\ PushSteps[7] = "drop"
    BY DEF PushSteps
  <2>3. /\ (i = 1 => StepOf(c, i) = "take") /\ (i = 2 => StepOf(c, i) = "pre_own")
        /\ (i = 3 => StepOf(c, i) = "pre_other") /\ (i = 4 => StepOf(c, i) = "deliver")
        /\ (i = 5 => StepOf(c, i) = "post_other") /\ (i = 6 => StepOf(c, i) = "post_own")
        /\ (i = 7 => StepOf(c, i) = "drop")
    BY <2>1, <2>2, <1>3, <1>1, Lengths DEF StepOf
  <2> QED BY <2>1, <2>3, <1>3 DEF Places
<1>4. CASE c = "pull"
  <2>1. i \in {1, 2, 3, 4, 5, 6, 7}
    BY <1>2, <1>4
  <2>2. /\ PullSteps[1] = "take" /\ PullSteps[2] = "deliver" /\ PullSteps[3] = "pre_other"
        /\ PullSteps[4] = "pre_own" /\ PullSteps[5] = "post_own" /\ PullSteps[6] = "post_other"
        /\ PullSteps[7] = "drop"
    BY DEF PullSteps
  <2>3. /\ (i = 1 => StepOf(c, i) = "take") /\ (i = 2 => StepOf(c, i) = "deliver")
        /\ (i = 3 => StepOf(c, i) = "pre_other") /\ (i = 4 => StepOf(c, i) = "pre_own")
        /\ (i = 5 => StepOf(c, i) = "post_own") /\ (i = 6 => StepOf(c, i) = "post_other")
        /\ (i = 7 => StepOf(c, i) = "drop")
    BY <2>1, <2>2, <1>4, <1>1, Lengths DEF StepOf
  <2> QED BY <2>1, <2>3, <1>4 DEF Places
<1>5. CASE c = "upstream"
  <2>1. i \in {1, 2, 3, 4, 5, 6, 7, 8}
    BY <1>2, <1>5
  <2>2. /\ UpstreamSteps[1] = "pre_own" /\ UpstreamSteps[2] = "take" /\ UpstreamSteps[3] = "pre_other"
        /\ UpstreamSteps[4] = "deliver" /\ UpstreamSteps[5] = "post_other" /\ UpstreamSteps[6] = "drop"
        /\ UpstreamSteps[7] = "post_own"
    BY DEF UpstreamSteps
  <2>3. /\ (i = 1 => StepOf(c, i) = "pre_own") /\ (i = 2 => StepOf(c, i) = "take")
        /\ (i = 3 => StepOf(c, i) = "pre_other") /\ (i = 4 => StepOf(c, i) = "deliver")
        /\ (i = 5 => StepOf(c, i) = "post_other") /\ (i = 6 => StepOf(c, i) = "drop")
        /\ (i = 7 => StepOf(c, i) = "post_own") /\ (i = 8 => StepOf(c, i) = "done")
    BY <2>1, <2>2, <1>5, <1>1, Lengths DEF StepOf
  <2> QED BY <2>1, <2>3, <1>5 DEF Places
<1>6. CASE c = "event"
  <2>1. i \in {1, 2, 3, 4, 5, 6, 7, 8, 9}
    BY <1>2, <1>6
  <2>3. /\ (i = 1 => StepOf(c, i) = "store") /\ (i = 2 => StepOf(c, i) = "pre_own")
        /\ (i = 3 => StepOf(c, i) = "take") /\ (i = 4 => StepOf(c, i) = "pre_other")
        /\ (i = 5 => StepOf(c, i) = "deliver") /\ (i = 6 => StepOf(c, i) = "post_other")
        /\ (i = 7 => StepOf(c, i) = "drop") /\ (i = 8 => StepOf(c, i) = "post_own")
        /\ (i = 9 => StepOf(c, i) = "done")
    BY <2>1, <1>6, <1>1, Lengths, EventProgram DEF StepOf
  <2> QED BY <2>1, <2>3, <1>6 DEF Places
<1>7. CASE c = "link"
  <2>1. i \in {1, 2, 3, 4, 5, 6, 7, 8, 9, 10, 11, 12, 13}
    BY <1>2, <1>7
  <2>3. /\ (i = 1 => StepOf(c, i) = "first") /\ (i = 2 => StepOf(c, i) = "second")
        /\ (i = 3 => StepOf(c, i) = "join") /\ (i = 4 => StepOf(c, i) = "replay")
        /\ (i = 5 => StepOf(c, i) = "store") /\ (i = 6 => StepOf(c, i) = "pre_own")
        /\ (i = 7 => StepOf(c, i) = "take") /\ (i = 8 => StepOf(c, i) = "pre_other")
        /\ (i = 9 => StepOf(c, i) = "deliver") /\ (i = 10 => StepOf(c, i) = "post_other")
        /\ (i = 11 => StepOf(c, i) = "drop") /\ (i = 12 => StepOf(c, i) = "post_own")
        /\ (i = 13 => StepOf(c, i) = "done")
    BY <2>1, <1>7, <1>1, Lengths, LinkProgram DEF StepOf
  <2> QED BY <2>1, <2>3, <1>7 DEF Places
<1>8. CASE c = "unlink"
  <2>1. i \in {1, 2, 3, 4, 5}
    BY <1>2, <1>8
  <2>2. /\ UnlinkSteps[1] = "take" /\ UnlinkSteps[2] = "first" /\ UnlinkSteps[3] = "second"
        /\ UnlinkSteps[4] = "split" /\ UnlinkSteps[5] = "release"
    BY DEF UnlinkSteps
  <2>3. /\ (i = 1 => StepOf(c, i) = "take") /\ (i = 2 => StepOf(c, i) = "first")
        /\ (i = 3 => StepOf(c, i) = "second") /\ (i = 4 => StepOf(c, i) = "split")
        /\ (i = 5 => StepOf(c, i) = "release")
    BY <2>1, <2>2, <1>8, <1>1, Lengths DEF StepOf
  <2> QED BY <2>1, <2>3, <1>8 DEF Places
<1>9. CASE c = "destroy"
  <2>1. i \in {1, 2, 3, 4, 5, 6}
    BY <1>2, <1>9
  <2>3. /\ (i = 1 => StepOf(c, i) = "take") /\ (i = 2 => StepOf(c, i) = "first")
        /\ (i = 3 => StepOf(c, i) = "second") /\ (i = 4 => StepOf(c, i) = "split")
        /\ (i = 5 => StepOf(c, i) = "release") /\ (i = 6 => StepOf(c, i) = "disown")
    BY <2>1, <1>9, <1>1, Lengths, DestroyProgram DEF StepOf
  <2> QED BY <2>1, <2>3, <1>9 DEF Places
<1>10. CASE c = "idle"
  BY <1>10, <1>2, <1>1, Lengths DEF StepOf, Places
<1> QED BY <1>3, <1>4, <1>5, <1>6, <1>7, <1>8, <1>9, <1>10 DEF CallNames

-----------------------------------------------------------------------------
(* A thread in a call.                                                      *)

WaitNames == {"no", "policy", "link", "enter", "callback", "lock", "asleep", "probes", "call"}

ThreadStates ==
    [call : CallNames, own : Pads \cup {0}, other : Pads \cup {0}, event : Nat, at : Nat,
     wait : WaitNames, inner : BOOLEAN, failed : BOOLEAN]

Cutting == {"unlink", "destroy"}

(* Between the step that reads the peer and the one that drops it the call *)
(* has another pad; a link has one until it is made.                       *)
HasOther(r) ==
    \/ r.call \in {"push", "pull"} /\ r.at > 1
    \/ r.call = "upstream" /\ r.at > 2 /\ r.at < 7
    \/ r.call = "event" /\ r.at > 3 /\ r.at < 8
    \/ r.call = "link" /\ r.at < 4
    \/ r.call = "link" /\ r.at > 7 /\ r.at < 12
    \/ r.call \in Cutting /\ r.at > 1 /\ r.at < 6

Sound(r) ==
    /\ r \in ThreadStates /\ 1 <= r.at /\ r.at <= Ends[r.call]
    /\ r.call # "idle" => r.own \in Pads
    /\ r.call \in {"push", "event", "link"} => r.own \in Src
    /\ (r.other # 0) <=> HasOther(r)
    /\ r.call = "link" /\ r.at < 4 => r.other \in Sink
    /\ r.call \in Cutting => r.own # r.other /\ r.event \in {0, 1, 2} /\ (r.at # 5 => r.event = 0)
    /\ r.wait \in {"policy", "link"} => r.call = "push" /\ r.at = 1
    /\ r.wait \notin {"no", "policy", "link"} => StepOf(r.call, r.at) \in ProbeSteps

(* Holds, of a thread's state *)
HoldsOf(r, p) ==
    (IF r.other = p /\ (r.call # "link" \/ r.at > 4) THEN 1 ELSE 0)
    + (IF /\ r.call \in Cutting /\ r.at = 5
          /\ (p = r.own /\ r.event # 0) \/ (p = r.other /\ r.event = 2)
       THEN 1 ELSE 0)

(* The thread has pad_lock_pair's first lock, or both. *)
HasFirst(r) == (r.call = "link" /\ r.at = 2) \/ (r.call \in Cutting /\ r.at = 3)
HasBoth(r)  == (r.call = "link" /\ r.at = 3) \/ (r.call \in Cutting /\ r.at = 4)

Lower(r) == IF r.own < r.other THEN r.own ELSE r.other
Upper(r) == IF r.own < r.other THEN r.other ELSE r.own

Grips(r, p) == (HasFirst(r) /\ p = Lower(r)) \/ (HasBoth(r) /\ p \in {r.own, r.other})

Threadly == th \in [Threads -> ThreadStates] /\ \A t \in Threads : Sound(th[t])

LEMMA EndValues ==
    /\ Ends["push"] = 7 /\ Ends["pull"] = 7 /\ Ends["event"] = 9 /\ Ends["upstream"] = 8
    /\ Ends["link"] = 13 /\ Ends["unlink"] = 5 /\ Ends["destroy"] = 6 /\ Ends["idle"] = 1
BY DEF Ends

LEMMA StepIs ==
    ASSUME Threadly, NEW t \in Threads
    PROVE  /\ Step(t) = StepOf(th[t].call, th[t].at)
           /\ Places(th[t].call, th[t].at, Step(t))
<1>1. Sound(th[t])
  BY DEF Threadly
<1>2. Step(t) = StepOf(th[t].call, th[t].at)
  BY DEF Step, StepOf
<1>3. th[t].call \in CallNames /\ th[t].at \in Nat /\ 1 <= th[t].at /\ th[t].at <= Ends[th[t].call]
  BY <1>1 DEF Sound, ThreadStates
<1> QED BY <1>2, <1>3, StepPlaces

LEMMA IdleSound == Sound(Idle) /\ \A p \in Pads : HoldsOf(Idle, p) = 0 /\ ~Grips(Idle, p)
<1>1. /\ Idle \in ThreadStates /\ Idle.call = "idle" /\ Idle.other = 0 /\ Idle.at = 1
      /\ Idle.wait = "no"
  BY DEF Idle, ThreadStates, CallNames, WaitNames
<1>2. 0 \notin Pads
  BY PadAssumption
<1>3. Sound(Idle)
  BY <1>1, EndValues DEF Sound, HasOther, Cutting
<1>4. \A p \in Pads : HoldsOf(Idle, p) = 0 /\ ~Grips(Idle, p)
  BY <1>1, <1>2 DEF HoldsOf, Grips, HasFirst, HasBoth, Cutting
<1> QED BY <1>3, <1>4

LEMMA HoldsIs ==
    ASSUME Threadly, NEW t \in Threads, NEW p \in Pads
    PROVE  Holds(t, p) = HoldsOf(th[t], p) /\ HoldsOf(th[t], p) \in {0, 1, 2}
<1>1. Places(th[t].call, th[t].at, Step(t))
  BY StepIs
<1>2. (Step(t) = "release") <=> (th[t].call \in Cutting /\ th[t].at = 5)
  BY <1>1 DEF Places, Cutting
<1> QED BY <1>2 DEF Holds, HoldsOf, Cutting

(* The same call at another step, and at the next one *)
Landed(r, j) == [r EXCEPT !.at = j, !.wait = "no", !.inner = FALSE]
Onward(r) == Landed(r, r.at + 1)

LEMMA LandedFields ==
    ASSUME NEW r \in ThreadStates, NEW j \in Nat
    PROVE  /\ Landed(r, j) \in ThreadStates
           /\ Landed(r, j).call = r.call /\ Landed(r, j).own = r.own
           /\ Landed(r, j).other = r.other /\ Landed(r, j).event = r.event
           /\ Landed(r, j).at = j /\ Landed(r, j).wait = "no"
<1>1. Landed(r, j) \in ThreadStates
  <2>1. "no" \in WaitNames
    BY DEF WaitNames
  <2> QED BY <2>1, Zenon DEF ThreadStates, Landed
<1> QED BY <1>1 DEF ThreadStates, Landed

LEMMA OnwardSound ==
    ASSUME NEW r, Sound(r),
           StepOf(r.call, r.at) \in {"first", "second", "split", "store", "deliver"} \cup ProbeSteps
    PROVE  /\ Sound(Onward(r))
           /\ \A p \in Pads : HoldsOf(Onward(r), p) = HoldsOf(r, p)
           /\ StepOf(r.call, r.at) \in {"store", "deliver"} \cup ProbeSteps =>
                 \A p \in Pads : ~Grips(r, p) /\ ~Grips(Onward(r), p)
<1>1. /\ r.call \in CallNames /\ r.at \in Nat /\ 1 <= r.at /\ r.at <= Ends[r.call]
      /\ r \in ThreadStates
  BY DEF Sound, ThreadStates
<1>2. Places(r.call, r.at, StepOf(r.call, r.at))
  BY <1>1, StepPlaces
<1> DEFINE o == Onward(r)
<1>3. /\ o \in ThreadStates /\ o.call = r.call /\ o.own = r.own /\ o.other = r.other
      /\ o.event = r.event /\ o.at = r.at + 1 /\ o.wait = "no"
  <2>1. r.at + 1 \in Nat 
    BY <1>1
  <2> QED BY <1>1, <2>1, LandedFields DEF Onward
<1> HIDE DEF o
<1>4. \/ r.call \in {"push", "pull"} /\ r.at > 1 /\ r.at < 7
      \/ r.call = "upstream" /\ (r.at = 1 \/ r.at = 7)
      \/ r.call = "upstream" /\ r.at > 2 /\ r.at < 6
      \/ r.call = "event" /\ (r.at < 3 \/ r.at = 8)
      \/ r.call = "event" /\ r.at > 3 /\ r.at < 7
      \/ r.call = "link" /\ (r.at < 3 \/ r.at = 5 \/ r.at = 6 \/ r.at = 12)
      \/ r.call = "link" /\ r.at > 7 /\ r.at < 11
      \/ r.call \in Cutting /\ r.at > 1 /\ r.at < 5
  <2> DEFINE s == StepOf(r.call, r.at)
  <2> HIDE DEF s
  <2>1. s \in {"first", "second", "split", "store", "deliver"} \cup ProbeSteps
        /\ Places(r.call, r.at, s)
    BY <1>2 DEF s
  <2>2. CASE s \in {"first", "second", "split"}
    BY <1>1, <2>1, <2>2 DEF Places, Cutting
  <2>3. CASE s \in {"store", "deliver"}
    BY <1>1, <2>1, <2>3 DEF Places, Cutting
  <2>4. CASE s = "pre_own" \/ s = "pre_other"
    BY <1>1, <2>1, <2>4 DEF Places, Cutting
  <2>5. CASE s = "post_own" \/ s = "post_other"
    BY <1>1, <2>1, <2>5 DEF Places, Cutting
  <2> QED BY <2>1, <2>2, <2>3, <2>4, <2>5 DEF ProbeSteps
<1>5. Sound(o)
  BY <1>1, <1>3, <1>4, EndValues DEF Sound, HasOther, Cutting
<1>6. \A p \in Pads : HoldsOf(o, p) = HoldsOf(r, p)
  BY <1>1, <1>3, <1>4 DEF HoldsOf, Cutting, Sound
<1>7. ASSUME StepOf(r.call, r.at) \in {"store", "deliver"} \cup ProbeSteps
      PROVE  \A p \in Pads : ~Grips(r, p) /\ ~Grips(o, p)
  BY <1>1, <1>2, <1>3, <1>7 DEF Places, ProbeSteps, Grips, HasFirst, HasBoth, Cutting
<1> QED BY <1>5, <1>6, <1>7 DEF o

LEMMA LengthsFit ==
    \A c \in CallNames : /\ Len(Steps[c]) \in Nat /\ Ends[c] \in Nat
                        /\ Len(Steps[c]) <= Ends[c]
<1> TAKE c \in CallNames
<1> DEFINE n == Len(Steps[c])
           e == Ends[c]
<1> HIDE DEF n, e
<1> SUFFICES n \in Nat /\ e \in Nat /\ n <= e
  BY DEF n, e
<1>1. CASE c \in {"push", "pull", "unlink", "destroy"}
  <2>1. \/ n = 7 /\ e = 7
        \/ n = 5 /\ e = 5
        \/ n = 6 /\ e = 6
    BY <1>1, EndValues, Lengths, Zenon DEF n, e
  <2> QED BY <2>1
<1>2. CASE c \in {"event", "upstream", "link", "idle"}
  <2>1. \/ n = 8 /\ e = 9
        \/ n = 7 /\ e = 8
        \/ n = 12 /\ e = 13
        \/ n = 0 /\ e = 1
    BY <1>2, EndValues, Lengths, Zenon DEF n, e
  <2> QED BY <2>1
<1> QED BY <1>1, <1>2 DEF CallNames

LEMMA JumpLands ==
    ASSUME Threadly, NEW t \in Threads, NEW s \in {"drop", "post_own", "disown"}, NEW j \in Nat,
           th[t].at < j, j <= Len(Steps[th[t].call]), StepOf(th[t].call, j) = s, JumpTo(t, s)
    PROVE  th' = [th EXCEPT ![t] = Landed(th[t], j)]
<1> DEFINE c == th[t].call
           n == Len(Steps[c])
<1>1. c \in CallNames /\ th[t].at \in Nat /\ th[t].at >= 1
  BY DEF Threadly, Sound, ThreadStates
<1>2. n \in Nat /\ Ends[c] \in Nat /\ n <= Ends[c]
  BY <1>1, LengthsFit
<1>3. \A i \in 1..n : Places(c, i, Steps[c][i])
  <2> TAKE i \in 1..n
  <2>1. i \in Nat /\ 1 <= i /\ i <= Ends[c]
    BY <1>2
  <2>2. StepOf(c, i) = Steps[c][i]
    BY <1>2 DEF StepOf
  <2> QED BY <1>1, <2>1, <2>2, StepPlaces
<1>4. j \in 1..n /\ Steps[c][j] = s /\ th[t].at < j
  BY <1>1, <1>2 DEF StepOf
<1>5. \A i \in 1..n : Steps[c][i] = s => i = j
  <2> TAKE i \in 1..n
  <2>1. i \in Nat /\ Places(c, i, Steps[c][i]) /\ Places(c, j, Steps[c][j])
    BY <1>2, <1>3, <1>4
  <2> HIDE DEF c, n
  <2> QED BY <1>1, <1>4, <2>1 DEF Places
<1>6. (CHOOSE i \in 1..n : i > th[t].at /\ Steps[c][i] = s) = j
  BY <1>1, <1>4, <1>5
<1> QED BY <1>6 DEF JumpTo, Set, Landed

-----------------------------------------------------------------------------
(* Steps that leave every reference and every lock where it is.             *)

Calm ==
    /\ Threadly'
    /\ \A u \in Threads, p \in Pads :
          /\ HoldsOf(th'[u], p) = HoldsOf(th[u], p)
          /\ Grips(th'[u], p) <=> Grips(th[u], p)

LEMMA Turn ==
    ASSUME Threadly, NEW t \in Threads, NEW r, Sound(r), th' = [th EXCEPT ![t] = r]
    PROVE  Threadly' /\ th'[t] = r /\ \A u \in Threads \ {t} : th'[u] = th[u]
<1>1. r \in ThreadStates
  BY DEF Sound
<1>2. th' \in [Threads -> ThreadStates] /\ th'[t] = r /\ \A u \in Threads \ {t} : th'[u] = th[u]
  BY <1>1 DEF Threadly
<1> QED BY <1>2 DEF Threadly

LEMMA CalmTurn ==
    ASSUME Threadly, NEW t \in Threads, NEW r, Sound(r), th' = [th EXCEPT ![t] = r],
           \A p \in Pads : HoldsOf(r, p) = HoldsOf(th[t], p) /\ (Grips(r, p) <=> Grips(th[t], p))
    PROVE  Calm
<1>1. Threadly' /\ th'[t] = r /\ \A u \in Threads \ {t} : th'[u] = th[u]
  BY Turn
<1> QED BY <1>1 DEF Calm

LEMMA NothingHeld ==
    ASSUME NEW r, Sound(r), r.other = 0
    PROVE  \A p \in Pads : HoldsOf(r, p) = 0 /\ ~Grips(r, p)
<1>1. 0 \notin Pads
  BY PadAssumption
<1>2. ~HasOther(r) /\ r.at \in Nat /\ 1 <= r.at
  BY DEF Sound, ThreadStates
<1> QED BY <1>1, <1>2 DEF HasOther, HoldsOf, Grips, HasFirst, HasBoth, Cutting

LEMMA NoGrip ==
    ASSUME Threadly, NEW t \in Threads, Step(t) \notin {"second", "join", "split"}
    PROVE  \A p \in Pads : ~Grips(th[t], p)
<1>1. Places(th[t].call, th[t].at, Step(t))
  BY StepIs
<1> QED BY <1>1 DEF Places, Grips, HasFirst, HasBoth, Cutting

LEMMA ForthCalm ==
    ASSUME Threadly, NEW t \in Threads, Step(t) \in {"store", "deliver"} \cup ProbeSteps, Forth(t)
    PROVE  Calm
<1>1. Sound(th[t]) /\ StepOf(th[t].call, th[t].at) \in {"store", "deliver"} \cup ProbeSteps
  BY StepIs DEF Threadly
<1>2. /\ Sound(Onward(th[t]))
      /\ \A p \in Pads : HoldsOf(Onward(th[t]), p) = HoldsOf(th[t], p)
      /\ \A p \in Pads : ~Grips(th[t], p) /\ ~Grips(Onward(th[t]), p)
  BY <1>1, OnwardSound
<1>3. th' = [th EXCEPT ![t] = Onward(th[t])]
  BY DEF Forth, Set, Onward, Landed
<1> QED BY <1>2, <1>3, CalmTurn

LEMMA ReturnCalm ==
    ASSUME Threadly, NEW t \in Threads, th[t].other = 0, Return(t) PROVE Calm
<1>1. \A p \in Pads : HoldsOf(th[t], p) = 0 /\ ~Grips(th[t], p)
  BY NothingHeld DEF Threadly
<1>2. th' = [th EXCEPT ![t] = Idle]
  BY DEF Return, Set
<1> QED BY <1>1, <1>2, IdleSound, CalmTurn

LEMMA WaitsCalm ==
    ASSUME Threadly, NEW t \in Threads, NEW w \in WaitNames \ {"no"}, Waits(t, w),
           IF w \in {"policy", "link"} THEN th[t].call = "push" /\ th[t].at = 1
           ELSE Step(t) \in ProbeSteps
    PROVE  Calm
<1> DEFINE r == [th[t] EXCEPT !.wait = w]
<1>1. Sound(th[t]) /\ th[t] \in ThreadStates /\ Step(t) = StepOf(th[t].call, th[t].at)
  BY StepIs DEF Threadly, Sound
<1>2. /\ r \in ThreadStates /\ r.call = th[t].call /\ r.own = th[t].own /\ r.other = th[t].other
      /\ r.event = th[t].event /\ r.at = th[t].at /\ r.wait = w
  BY <1>1 DEF ThreadStates
<1>3. th' = [th EXCEPT ![t] = r]
  BY DEF Waits, Set
<1> HIDE DEF r
<1>4. Sound(r)
  BY <1>1, <1>2 DEF Sound, HasOther
<1>5. \A p \in Pads : HoldsOf(r, p) = HoldsOf(th[t], p) /\ (Grips(r, p) <=> Grips(th[t], p))
  BY <1>2 DEF HoldsOf, Grips, HasFirst, HasBoth, Lower
<1> QED BY <1>3, <1>4, <1>5, CalmTurn

(* To the end of a push or a pull, and of an event whose peer is dropped *)
LEMMA DropCalm ==
    ASSUME Threadly, NEW t \in Threads, JumpTo(t, "drop"),
           \/ th[t].call \in {"push", "pull"} /\ Step(t) \in {"deliver"} \cup ProbeSteps
           \/ Step(t) = "pre_other"
    PROVE  Calm
<1>1. Sound(th[t]) /\ th[t] \in ThreadStates /\ th[t].at \in Nat /\ 1 <= th[t].at
      /\ th[t].call \in CallNames /\ Places(th[t].call, th[t].at, Step(t))
  BY StepIs DEF Threadly, Sound, ThreadStates
<1>2. \/ th[t].call \in {"push", "pull"} /\ 1 < th[t].at /\ th[t].at < 7
      \/ th[t].call = "upstream" /\ th[t].at = 3
      \/ th[t].call = "event" /\ th[t].at = 4
      \/ th[t].call = "link" /\ th[t].at = 8
  BY <1>1 DEF Places, ProbeSteps
<1>3. PICK j \in Nat :
         \/ th[t].call \in {"push", "pull"} /\ j = 7
         \/ th[t].call = "upstream" /\ j = 6
         \/ th[t].call = "event" /\ j = 7
         \/ th[t].call = "link" /\ j = 11
  BY <1>2
<1>4. th[t].at < j /\ 1 <= j /\ j <= Ends[th[t].call] /\ j <= Len(Steps[th[t].call])
  <2>1. th[t].at < j /\ 1 <= j
    BY <1>1, <1>2, <1>3
  <2> DEFINE n == Len(Steps[th[t].call])
             e == Ends[th[t].call]
  <2>2. \/ n = 7 /\ e = 7 /\ j = 7
        \/ n = 7 /\ e = 8 /\ j = 6
        \/ n = 8 /\ e = 9 /\ j = 7
        \/ n = 12 /\ e = 13 /\ j = 11
    BY <1>3, EndValues, Lengths, Zenon
  <2> HIDE DEF n, e
  <2>3. j <= n /\ j <= e
    BY <2>2
  <2> QED BY <2>1, <2>3 DEF n, e
<1>5. StepOf(th[t].call, j) = "drop"
  <2>1. Places(th[t].call, j, StepOf(th[t].call, j))
    BY <1>1, <1>4, StepPlaces
  <2> QED BY <2>1, <1>3 DEF Places
<1>6. th' = [th EXCEPT ![t] = Landed(th[t], j)]
  BY <1>4, <1>5, JumpLands
<1> DEFINE r == Landed(th[t], j)
<1>7. /\ r \in ThreadStates /\ r.call = th[t].call /\ r.own = th[t].own /\ r.other = th[t].other
      /\ r.event = th[t].event /\ r.at = j /\ r.wait = "no"
  BY <1>1, LandedFields
<1> HIDE DEF r
<1>8. Sound(r)
  BY <1>1, <1>2, <1>3, <1>4, <1>7 DEF Sound, HasOther, Cutting
<1>9. \A p \in Pads : HoldsOf(r, p) = HoldsOf(th[t], p) /\ ~Grips(r, p) /\ ~Grips(th[t], p)
  BY <1>2, <1>3, <1>7 DEF HoldsOf, Grips, HasFirst, HasBoth, Cutting
<1> QED BY <1>6, <1>8, <1>9, CalmTurn DEF r

LEMMA DroppedCalm ==
    ASSUME Threadly, NEW t \in Threads, Step(t) \in ProbeSteps, Dropped(t)
    PROVE  Calm
<1>1. Sound(th[t]) /\ Places(th[t].call, th[t].at, Step(t)) /\ th[t].call \in CallNames
  BY StepIs DEF Threadly, Sound, ThreadStates
<1>2. CASE th[t].call = "push"
  BY <1>2, ForthCalm, DropCalm DEF Dropped
<1>3. CASE th[t].call = "pull"
  BY <1>3, ForthCalm, DropCalm DEF Dropped
<1>4. CASE th[t].call \notin {"push", "pull"}
  <2>1. CASE Step(t) = "pre_own"
    <3>1. th[t].other = 0
      BY <1>1, <1>4, <2>1 DEF Places, Sound, HasOther, Cutting
    <3>2. Return(t)
      BY <1>4, <2>1 DEF Dropped
    <3> QED BY <3>1, <3>2, ReturnCalm
  <2>2. CASE Step(t) = "pre_other"
    BY <1>4, <2>2, DropCalm DEF Dropped
  <2>3. CASE Step(t) \notin {"pre_own", "pre_other"}
    BY <1>4, <2>3, ForthCalm DEF Dropped
  <2> QED BY <2>1, <2>2, <2>3
<1> QED BY <1>2, <1>3, <1>4

(* The states of the pads and of the threads; a link joins a source pad    *)
(* and a sink pad.                                                         *)
Shape ==
    /\ Threadly
    /\ peer \in [Pads -> Pads \cup {0}]
    /\ \A p \in Src : peer[p] \in Sink \cup {0}
    /\ \A p \in Sink : peer[p] \in Src \cup {0}
    /\ lock \in [Pads -> Threads \cup {""}]
    /\ refs \in [Pads -> Int] /\ owned \subseteq Pads
    /\ sticky \in [Src -> Nat] /\ pushed \in [Src -> Nat]
    /\ queued \in [Src -> 0 .. MaxQueued]

LEMMA EnteredFields ==
    ASSUME NEW c \in CallNames, NEW p \in Pads, NEW k \in Pads \cup {0}
    PROVE  /\ Entered(c, p, k) \in ThreadStates
           /\ Entered(c, p, k).call = c /\ Entered(c, p, k).own = p
           /\ Entered(c, p, k).other = k /\ Entered(c, p, k).event = 0
           /\ Entered(c, p, k).at = 1 /\ Entered(c, p, k).wait = "no"
<1>1. Idle \in ThreadStates
  BY IdleSound DEF Sound
<1>2. p \in Pads \cup {0}
  OBVIOUS
<1>3. Entered(c, p, k) \in ThreadStates
  BY <1>1, <1>2, Zenon DEF Entered, ThreadStates
<1>4. Idle.event = 0 /\ Idle.at = 1 /\ Idle.wait = "no"
  BY DEF Idle
<1> QED BY <1>1, <1>3, <1>4 DEF Entered, ThreadStates

LEMMA BeginLinkCalm ==
    ASSUME Threadly, NEW t \in Threads, BeginLink(t)
    PROVE  Calm
<1>1. PICK p \in Src, k \in Sink : th[t].call = "idle" /\ Set(t, Entered("link", p, k))
  BY DEF BeginLink, Begin
<1> DEFINE r == Entered("link", p, k)
<1>2. p \in Pads /\ k \in Pads /\ k # 0
  BY PadAssumption DEF Pads
<1>3. "link" \in CallNames /\ k \in Pads \cup {0}
  BY <1>2 DEF CallNames
<1>4. r \in ThreadStates
  BY <1>2, <1>3, EnteredFields
<1>5. /\ r.call = "link" /\ r.own = p /\ r.other = k /\ r.at = 1 /\ r.wait = "no"
      /\ th' = [th EXCEPT ![t] = r]
  BY <1>1, <1>2, <1>3, EnteredFields DEF Set
<1> HIDE DEF r
<1>6. Sound(r)
  BY <1>2, <1>4, <1>5, EndValues DEF Sound, HasOther, Cutting
<1>7. \A x \in Pads : HoldsOf(r, x) = 0 /\ ~Grips(r, x)
  BY <1>5 DEF HoldsOf, Grips, HasFirst, HasBoth, Cutting
<1>8. th[t].other = 0
  BY <1>1 DEF Threadly, Sound, HasOther, Cutting
<1>9. \A x \in Pads : HoldsOf(th[t], x) = 0 /\ ~Grips(th[t], x)
  BY <1>8, NothingHeld DEF Threadly
<1> QED BY <1>5, <1>6, <1>7, <1>9, CalmTurn

LEMMA EnteredCalm ==
    ASSUME Threadly, NEW t \in Threads, th[t].call = "idle", NEW p \in Pads,
           NEW c \in CallNames \ {"link"}, c \in {"push", "event"} => p \in Src,
           NEW r \in ThreadStates, r.call = c, r.own = p, r.other = 0, r.at = 1, r.wait = "no",
           c \in Cutting => r.event = 0, th' = [th EXCEPT ![t] = r]
    PROVE  Calm
<1>4. Ends[c] \in Nat /\ 1 <= Ends[c] /\ p # 0
  <2> DEFINE e == Ends[c]
  <2>1. e \in {7, 9, 8, 13, 5, 6, 1}
    BY EndValues, Zenon DEF CallNames
  <2> HIDE DEF e
  <2>2. e \in Nat /\ 1 <= e
    BY <2>1
  <2> QED BY <2>2, PadAssumption DEF e
<1>5. Sound(r)
  BY <1>4 DEF Sound, HasOther, Cutting
<1>6. \A x \in Pads : HoldsOf(r, x) = 0 /\ ~Grips(r, x)
  BY <1>5, NothingHeld
<1>7. th[t].other = 0
  BY DEF Threadly, Sound, HasOther, Cutting
<1>8. \A x \in Pads : HoldsOf(th[t], x) = 0 /\ ~Grips(th[t], x)
  BY <1>7, NothingHeld DEF Threadly
<1> QED BY <1>5, <1>6, <1>8, CalmTurn

LEMMA BeginCalm ==
    ASSUME Shape, NEW t \in Threads, BeginCall(t) \/ BeginLink(t) \/ BeginEvent(t)
    PROVE  Calm
<1>1. CASE BeginCall(t)
  <2>1. PICK p \in Pads, call \in {"push", "pull", "upstream", "unlink", "destroy"} :
           /\ th[t].call = "idle" /\ (call = "push" => p \in Src)
           /\ Set(t, Entered(call, p, 0))
    BY <1>1 DEF BeginCall, Begin
  <2>2. call \in CallNames \ {"link"} /\ call # "event" /\ 0 \in Pads \cup {0}
    BY DEF CallNames
  <2> DEFINE r == Entered(call, p, 0)
  <2>3. /\ r \in ThreadStates /\ r.call = call /\ r.own = p /\ r.other = 0 /\ r.event = 0
        /\ r.at = 1 /\ r.wait = "no"
    BY <2>2, EnteredFields
  <2>4. th' = [th EXCEPT ![t] = r]
    BY <2>1 DEF Set
  <2> HIDE DEF r
  <2> QED BY <2>1, <2>2, <2>3, <2>4, EnteredCalm DEF Shape
<1>2. CASE BeginEvent(t)
  <2>1. PICK p \in Src : /\ th[t].call = "idle"
                         /\ Set(t, [Entered("event", p, 0) EXCEPT !.event = pushed[p] + 1])
    BY <1>2 DEF BeginEvent, Begin
  <2>2. pushed[p] + 1 \in Nat /\ p \in Pads /\ "event" \in CallNames \ {"link"}
        /\ "event" \notin Cutting /\ 0 \in Pads \cup {0}
    <3>1. pushed[p] \in Nat
      BY DEF Shape
    <3>2. p \in Pads
      BY DEF Pads
    <3> QED BY <3>1, <3>2 DEF CallNames, Cutting
  <2> DEFINE e == Entered("event", p, 0)
             r == [e EXCEPT !.event = pushed[p] + 1]
  <2>3. /\ e \in ThreadStates /\ e.call = "event" /\ e.own = p /\ e.other = 0
        /\ e.at = 1 /\ e.wait = "no"
    <3>1. "event" \in CallNames
      BY <2>2
    <3> QED BY ONLY <2>2, <3>1, EnteredFields
  <2>4. th' = [th EXCEPT ![t] = r]
    BY <2>1 DEF Set
  <2> HIDE DEF e
  <2>5. /\ r \in ThreadStates /\ r.call = "event" /\ r.own = p /\ r.other = 0
        /\ r.at = 1 /\ r.wait = "no"
    BY <2>2, <2>3 DEF ThreadStates
  <2> HIDE DEF r
  <2> QED BY <2>1, <2>2, <2>4, <2>5, EnteredCalm DEF Shape
<1> QED BY <1>1, <1>2, BeginLinkCalm DEF Shape

(* The sleepers at a pad, woken *)
LEMMA WokenSame ==
    ASSUME Threadly, NEW p, NEW u \in Threads
    PROVE  /\ Sound(Woken(p)[u]) /\ DOMAIN Woken(p) = Threads
           /\ \A x \in Pads : /\ HoldsOf(Woken(p)[u], x) = HoldsOf(th[u], x)
                              /\ Grips(Woken(p)[u], x) <=> Grips(th[u], x)
           /\ th[u].wait # "asleep" => Woken(p)[u] = th[u]
<1> DEFINE r == [th[u] EXCEPT !.wait = "lock"]
<1>1. Sound(th[u]) /\ th[u] \in ThreadStates
  BY DEF Threadly, Sound
<1>2. /\ r \in ThreadStates /\ r.call = th[u].call /\ r.own = th[u].own /\ r.other = th[u].other
      /\ r.event = th[u].event /\ r.at = th[u].at /\ r.wait = "lock"
  BY <1>1 DEF ThreadStates, WaitNames
<1>3. Woken(p)[u] = th[u] \/ (th[u].wait = "asleep" /\ Woken(p)[u] = r)
  BY DEF Woken
<1>4. DOMAIN Woken(p) = Threads
  BY DEF Woken
<1> HIDE DEF r
<1>5. CASE th[u].wait = "asleep" /\ Woken(p)[u] = r
  <2>1. Sound(r)
    BY <1>1, <1>2, <1>5 DEF Sound, HasOther
  <2>2. \A x \in Pads : HoldsOf(r, x) = HoldsOf(th[u], x) /\ (Grips(r, x) <=> Grips(th[u], x))
    BY <1>2 DEF HoldsOf, Grips, HasFirst, HasBoth, Lower
  <2> QED BY <2>1, <2>2, <1>4, <1>5
<1> QED BY <1>1, <1>3, <1>4, <1>5

LEMMA ReplayCalm ==
    ASSUME Shape, NEW t \in Threads, Replay(t) PROVE Calm
<1>0. Threadly /\ sticky \in [Src -> Nat]
  BY DEF Shape
<1>1. Sound(th[t]) /\ th[t] \in ThreadStates /\ Step(t) = "replay"
      /\ Places(th[t].call, th[t].at, Step(t))
  BY <1>0, StepIs DEF Threadly, Sound, Replay, IsAt
<1>2. th[t].call = "link" /\ th[t].at = 4
  BY <1>1 DEF Places
<1>3. th[t].other = 0 /\ th[t].own \in Src /\ th[t].wait = "no"
  BY <1>1, <1>2 DEF Sound, HasOther, Cutting, Replay, IsAt
<1>4. CASE sticky[Own(t)] = 0
  BY <1>0, <1>3, <1>4, ReturnCalm DEF Replay
<1>5. CASE sticky[Own(t)] # 0
  <2> DEFINE e == sticky[Own(t)]
             r == [th[t] EXCEPT !.event = e, !.at = @ + 1]
  <2>1. e \in Nat /\ th[t].at + 1 \in Nat
    BY <1>0, <1>2, <1>3 DEF Own
  <2>2. th' = [th EXCEPT ![t] = r]
    BY <1>5 DEF Replay, Set
  <2> HIDE DEF e
  <2>3. r \in ThreadStates
    BY <1>1, <2>1, Zenon DEF ThreadStates
  <2>4. /\ r.call = "link" /\ r.own = th[t].own /\ r.other = 0 /\ r.at = 5 /\ r.wait = "no"
    BY <1>1, <1>2, <1>3 DEF ThreadStates
  <2> HIDE DEF r
  <2>5. Sound(r)
    BY <1>1, <1>2, <1>3, <2>3, <2>4, EndValues DEF Sound, HasOther, Cutting
  <2>6. \A p \in Pads : /\ HoldsOf(r, p) = 0 /\ ~Grips(r, p)
                        /\ HoldsOf(th[t], p) = 0 /\ ~Grips(th[t], p)
    BY <1>1, <1>3, <2>4, <2>5, NothingHeld
  <2> QED BY <1>0, <2>2, <2>5, <2>6, CalmTurn
<1> QED BY <1>4, <1>5

LEMMA UnlinkedCalm ==
    ASSUME Shape, NEW t \in Threads, Unlinked(t) \/ LinkTimeout(t) \/ Finish(t) PROVE Calm
<1>1. Sound(th[t]) /\ Places(th[t].call, th[t].at, Step(t))
  BY StepIs DEF Shape, Threadly
<1>2. CASE Unlinked(t) \/ LinkTimeout(t)
  <2>1. th[t].call = "push" /\ th[t].at = 1
    BY <1>1, <1>2 DEF Unlinked, LinkTimeout, Sound
  <2>2. th[t].other = 0
    BY <1>1, <2>1 DEF Sound, HasOther, Cutting
  <2>3. Return(t) \/ Waits(t, "link")
    BY <1>2 DEF Unlinked, LinkTimeout
  <2>4. "link" \in WaitNames \ {"no"}
    BY DEF WaitNames
  <2> QED BY <2>1, <2>2, <2>3, <2>4, ReturnCalm, WaitsCalm DEF Shape
<1>3. CASE Finish(t)
  <2>1. th[t].other = 0 /\ Return(t)
    BY <1>1, <1>3 DEF Finish, IsAt, Places, Sound, HasOther, Cutting
  <2> QED BY <2>1, ReturnCalm DEF Shape
<1> QED BY <1>2, <1>3

(* An event that the peer's element refuses goes on as one it takes. *)
LEMMA FailedCalm ==
    ASSUME Shape, NEW t \in Threads, IsAt(t, "deliver"),
           Set(t, [th[t] EXCEPT !.at = @ + 1, !.failed = TRUE])
    PROVE  Calm
<1>1. /\ Threadly /\ Sound(th[t]) /\ th[t] \in ThreadStates /\ Step(t) = "deliver"
      /\ Places(th[t].call, th[t].at, Step(t)) /\ th[t].wait = "no"
  BY StepIs DEF Shape, Threadly, Sound, IsAt
<1> DEFINE r == [th[t] EXCEPT !.at = @ + 1, !.failed = TRUE]
<1>2. th[t].at + 1 \in Nat
  BY <1>1 DEF ThreadStates
<1>3. r \in ThreadStates
  BY <1>1, <1>2, Zenon DEF ThreadStates
<1>4. /\ r.call = th[t].call /\ r.own = th[t].own /\ r.other = th[t].other
      /\ r.event = th[t].event /\ r.at = th[t].at + 1 /\ r.wait = "no"
  BY <1>1 DEF ThreadStates
<1> HIDE DEF r
<1>5. /\ th[t].call \notin Cutting /\ th[t].call # "idle"
      /\ th[t].call = "push" => th[t].at = 4
      /\ th[t].call = "pull" => th[t].at = 2
      /\ th[t].call = "upstream" => th[t].at = 4
      /\ th[t].call = "event" => th[t].at = 5
      /\ th[t].call = "link" => th[t].at = 9
  BY <1>1 DEF Places, Cutting
<1>6. th[t].call \in {"push", "pull", "upstream", "event", "link"}
  BY <1>1, <1>5 DEF ThreadStates, CallNames, Cutting
<1>7. Sound(r)
  BY <1>1, <1>3, <1>4, <1>5, <1>6, EndValues DEF Sound, HasOther, Cutting
<1>8. \A p \in Pads : HoldsOf(r, p) = HoldsOf(th[t], p) /\ (Grips(r, p) <=> Grips(th[t], p))
  BY <1>4, <1>5, <1>6 DEF HoldsOf, Grips, HasFirst, HasBoth, Cutting
<1> QED BY <1>1, <1>7, <1>8, CalmTurn DEF Set, r

LEMMA DeliverCalm ==
    ASSUME Shape, NEW t \in Threads, Store(t) \/ Deliver(t) PROVE Calm
BY ForthCalm, DropCalm, FailedCalm DEF Store, Deliver, IsAt, Shape

LEMMA ProbeCalm ==
    ASSUME Shape, NEW t \in Threads,
           \/ FastExit(t) \/ HandleBlock(t) \/ WaitUnblocked(t) \/ Collect(t)
    PROVE  Calm
<1>1. Step(t) \in ProbeSteps /\ Threadly
  BY DEF FastExit, HandleBlock, WaitUnblocked, Collect, Probing, ProbeSteps, Shape
<1>2. Forth(t) \/ \E w \in WaitNames \ {"no", "policy", "link"} : Waits(t, w)
  BY DEF FastExit, HandleBlock, WaitUnblocked, Collect, Passed, WaitNames
<1> QED BY <1>1, <1>2, ForthCalm, WaitsCalm

LEMMA CallProbeCalm ==
    ASSUME Shape, NEW t \in Threads, CallProbe(t) PROVE Calm
<1>1. Step(t) \in ProbeSteps /\ Threadly
  BY DEF CallProbe, Probing, ProbeSteps, Shape
<1> DEFINE r == [th[t] EXCEPT !.wait = "enter", !.inner = TRUE]
<1>2. CASE Forth(t) \/ Dropped(t)
  BY <1>1, <1>2, ForthCalm, DroppedCalm
<1>3. CASE th' = [th EXCEPT ![t] = r]
  <2>1. Sound(th[t]) /\ th[t] \in ThreadStates /\ Step(t) = StepOf(th[t].call, th[t].at)
    BY <1>1, StepIs DEF Threadly, Sound
  <2>2. "enter" \in WaitNames
    BY DEF WaitNames
  <2>3. r \in ThreadStates
    BY <2>1, <2>2, Zenon DEF ThreadStates
  <2>4. /\ r.call = th[t].call /\ r.own = th[t].own /\ r.other = th[t].other
        /\ r.event = th[t].event /\ r.at = th[t].at /\ r.wait = "enter"
    BY <2>1 DEF ThreadStates
  <2> HIDE DEF r
  <2>5. Sound(r)
    BY <1>1, <2>1, <2>3, <2>4 DEF Sound, HasOther
  <2>6. \A p \in Pads : HoldsOf(r, p) = HoldsOf(th[t], p) /\ (Grips(r, p) <=> Grips(th[t], p))
    BY <2>4 DEF HoldsOf, Grips, HasFirst, HasBoth, Lower
  <2> QED BY <1>1, <1>3, <2>5, <2>6, CalmTurn
<1> QED BY <1>2, <1>3 DEF CallProbe, Set

LEMMA UnblockCalm ==
    ASSUME Shape, NEW t \in Threads, Unblock(t) PROVE Calm
<1>1. Threadly /\ \E p : th' = Woken(p)
  BY DEF Shape, Unblock
<1>2. PICK p : th' = Woken(p)
  BY <1>1
<1>3. /\ DOMAIN th' = Threads /\ \A u \in Threads : Sound(th'[u])
      /\ \A u \in Threads, x \in Pads : /\ HoldsOf(th'[u], x) = HoldsOf(th[u], x)
                                        /\ Grips(th'[u], x) <=> Grips(th[u], x)
  BY <1>1, <1>2, WokenSame
<1>4. th' = [u \in Threads |-> th'[u]]
  BY <1>2 DEF Woken
<1>5. \A u \in Threads : th'[u] \in ThreadStates
  BY <1>3 DEF Sound
<1>6. Threadly'
  BY <1>3, <1>4, <1>5 DEF Threadly
<1> QED BY <1>3, <1>6 DEF Calm

LEMMA BlockCallbackCalm ==
    ASSUME Shape, NEW t \in Threads, BlockCallback(t) PROVE Calm
<1>1. Step(t) \in ProbeSteps /\ Threadly /\ th[t].wait = "callback"
  BY DEF BlockCallback, Probing, ProbeSteps, Shape
<1>2. CASE Dropped(t)
  BY <1>1, <1>2, DroppedCalm
<1>3. CASE Waits(t, "lock")
  <2>1. "lock" \in WaitNames \ {"no"}
    BY DEF WaitNames
  <2> QED BY <1>1, <1>3, <2>1, WaitsCalm
<1>4. CASE th' = [Woken(At(t)) EXCEPT ![t] =
                     IF th[t].inner
                     THEN [th[t] EXCEPT !.at = @ + 1, !.wait = "no", !.inner = FALSE]
                     ELSE [th[t] EXCEPT !.wait = "probes"]]
  <2> DEFINE W == Woken(At(t))
             r == IF th[t].inner THEN Onward(th[t]) ELSE [th[t] EXCEPT !.wait = "probes"]
  <2>1. \A u \in Threads : /\ Sound(W[u])
           /\ \A x \in Pads : /\ HoldsOf(W[u], x) = HoldsOf(th[u], x)
                              /\ Grips(W[u], x) <=> Grips(th[u], x)
    BY <1>1, WokenSame
  <2>2. W[t] = th[t] /\ DOMAIN W = Threads /\ W = [u \in Threads |-> W[u]]
    <3>1. W[t] = th[t]
      BY <1>1, WokenSame
    <3> QED BY <3>1 DEF Woken
  <2> HIDE DEF W
  <2>3. th' = [W EXCEPT ![t] = r]
    BY <1>4 DEF W, Onward, Landed
  <2>4. /\ Sound(r)
        /\ \A x \in Pads : HoldsOf(r, x) = HoldsOf(th[t], x) /\ (Grips(r, x) <=> Grips(th[t], x))
    <3>1. Sound(th[t]) /\ th[t] \in ThreadStates /\ Step(t) = StepOf(th[t].call, th[t].at)
      BY <1>1, StepIs DEF Threadly, Sound
    <3>2. CASE th[t].inner
      BY <1>1, <3>1, <3>2, OnwardSound
    <3>3. CASE ~th[t].inner
      <4> DEFINE s == [th[t] EXCEPT !.wait = "probes"]
      <4>1. /\ s \in ThreadStates /\ s.call = th[t].call /\ s.own = th[t].own
            /\ s.other = th[t].other /\ s.event = th[t].event /\ s.at = th[t].at
            /\ s.wait = "probes"
        BY <3>1 DEF ThreadStates, WaitNames
      <4>2. r = s
        BY <3>3
      <4> HIDE DEF s, r
      <4>3. Sound(s)
        BY <1>1, <3>1, <4>1 DEF Sound, HasOther
      <4>4. \A x \in Pads : HoldsOf(s, x) = HoldsOf(th[t], x) /\ (Grips(s, x) <=> Grips(th[t], x))
        BY <4>1 DEF HoldsOf, Grips, HasFirst, HasBoth, Lower
      <4> QED BY <4>2, <4>3, <4>4
    <3> QED BY <3>2, <3>3
  <2> HIDE DEF r
  <2>5. /\ th' = [u \in Threads |-> th'[u]] /\ th'[t] = r
        /\ \A u \in Threads \ {t} : th'[u] = W[u]
    BY <2>2, <2>3
  <2>6. \A u \in Threads : Sound(th'[u]) /\ th'[u] \in ThreadStates
    BY <2>1, <2>4, <2>5 DEF Sound
  <2>7. Threadly'
    BY <2>5, <2>6 DEF Threadly
  <2> QED BY <2>1, <2>4, <2>5, <2>7 DEF Calm
<1> QED BY <1>2, <1>3, <1>4 DEF BlockCallback

-----------------------------------------------------------------------------
(* The steps that take and drop references and locks.                       *)

LEMMA LockFirstMoves ==
    ASSUME Threadly, NEW t \in Threads, LockFirst(t)
    PROVE  /\ Threadly' /\ \A u \in Threads \ {t} : th'[u] = th[u]
           /\ \A p \in Pads : /\ HoldsOf(th'[t], p) = HoldsOf(th[t], p) /\ ~Grips(th[t], p)
                              /\ Grips(th'[t], p) <=> p = Order(t)[1]
           /\ Order(t)[1] \in Pads
<1>1. /\ Sound(th[t]) /\ Step(t) = "first" /\ Step(t) = StepOf(th[t].call, th[t].at)
      /\ Places(th[t].call, th[t].at, Step(t)) /\ th[t] \in ThreadStates
  BY StepIs DEF Threadly, Sound, LockFirst, IsAt
<1>2. \/ th[t].call = "link" /\ th[t].at = 1
      \/ th[t].call \in Cutting /\ th[t].at = 2
  BY <1>1 DEF Places, Cutting
<1>3. th[t].own \in Pads /\ th[t].other \in Pads
  BY <1>1, <1>2 DEF Sound, HasOther, Cutting, ThreadStates
<1> DEFINE o == Onward(th[t])
<1>4. Sound(o) /\ \A p \in Pads : HoldsOf(o, p) = HoldsOf(th[t], p)
  BY <1>1, OnwardSound
<1>5. /\ o.call = th[t].call /\ o.own = th[t].own /\ o.other = th[t].other
      /\ o.at = th[t].at + 1
  <2>1. th[t].at + 1 \in Nat
    BY <1>2
  <2> QED BY <1>1, <2>1, LandedFields DEF Onward
<1>6. th' = [th EXCEPT ![t] = o]
  BY DEF LockFirst, Forth, Set, Onward, Landed
<1> HIDE DEF o
<1>7. Threadly' /\ th'[t] = o /\ \A u \in Threads \ {t} : th'[u] = th[u]
  BY <1>4, <1>6, Turn
<1>8. Order(t)[1] = Lower(o) /\ Lower(o) \in Pads
  BY <1>3, <1>5 DEF Order, Own, Other, Lower
<1>9. \A p \in Pads : ~Grips(th[t], p) /\ (Grips(o, p) <=> p = Lower(o))
  BY <1>2, <1>5 DEF Grips, HasFirst, HasBoth, Cutting
<1> QED BY <1>4, <1>7, <1>8, <1>9

LEMMA LockSecondMoves ==
    ASSUME Threadly, NEW t \in Threads, LockSecond(t)
    PROVE  /\ Threadly' /\ \A u \in Threads \ {t} : th'[u] = th[u]
           /\ \A p \in Pads : /\ HoldsOf(th'[t], p) = HoldsOf(th[t], p)
                              /\ Grips(th'[t], p) <=> Grips(th[t], p) \/ p = Order(t)[2]
           /\ Order(t)[2] \in Pads
<1>1. /\ Sound(th[t]) /\ Step(t) = "second" /\ Step(t) = StepOf(th[t].call, th[t].at)
      /\ Places(th[t].call, th[t].at, Step(t)) /\ th[t] \in ThreadStates
  BY StepIs DEF Threadly, Sound, LockSecond, IsAt
<1>2. \/ th[t].call = "link" /\ th[t].at = 2
      \/ th[t].call \in Cutting /\ th[t].at = 3
  BY <1>1 DEF Places, Cutting
<1>3. th[t].own \in Pads /\ th[t].other \in Pads
  BY <1>1, <1>2 DEF Sound, HasOther, Cutting, ThreadStates
<1> DEFINE o == Onward(th[t])
<1>4. Sound(o) /\ \A p \in Pads : HoldsOf(o, p) = HoldsOf(th[t], p)
  BY <1>1, OnwardSound
<1>5. /\ o.call = th[t].call /\ o.own = th[t].own /\ o.other = th[t].other
      /\ o.at = th[t].at + 1
  <2>1. th[t].at + 1 \in Nat
    BY <1>2
  <2> QED BY <1>1, <2>1, LandedFields DEF Onward
<1>6. th' = [th EXCEPT ![t] = o]
  BY DEF LockSecond, Forth, Set, Onward, Landed
<1> HIDE DEF o
<1>7. Threadly' /\ th'[t] = o /\ \A u \in Threads \ {t} : th'[u] = th[u]
  BY <1>4, <1>6, Turn
<1>8. /\ Order(t)[2] \in Pads /\ {o.own, o.other} = {Lower(th[t]), Order(t)[2]}
  BY <1>3, <1>5 DEF Order, Own, Other, Lower
<1>9. \A p \in Pads : /\ Grips(th[t], p) <=> p = Lower(th[t])
                      /\ Grips(o, p) <=> p \in {o.own, o.other}
  BY <1>2, <1>5 DEF Grips, HasFirst, HasBoth, Cutting
<1> QED BY <1>4, <1>7, <1>8, <1>9

(* Both locks are released when the link is made or refused. *)
LEMMA JoinMoves ==
    ASSUME Threadly, NEW t \in Threads, Join(t)
    PROVE  /\ Threadly' /\ \A u \in Threads \ {t} : th'[u] = th[u]
           /\ \A p \in Pads : /\ HoldsOf(th'[t], p) = 0 /\ HoldsOf(th[t], p) = 0
                              /\ ~Grips(th'[t], p)
                              /\ Grips(th[t], p) <=> p \in {Own(t), Other(t)}
           /\ Own(t) \in Src /\ Other(t) \in Sink
<1>1. /\ Sound(th[t]) /\ Step(t) = "join" /\ th[t].wait = "no"
      /\ Places(th[t].call, th[t].at, Step(t)) /\ th[t] \in ThreadStates
  BY StepIs DEF Threadly, Sound, Join, IsAt
<1>2. th[t].call = "link" /\ th[t].at = 3
  BY <1>1 DEF Places
<1>3. th[t].own \in Src /\ th[t].other \in Sink
  BY <1>1, <1>2 DEF Sound
<1>4. \A p \in Pads : /\ HoldsOf(th[t], p) = 0
                      /\ Grips(th[t], p) <=> p \in {Own(t), Other(t)}
  BY <1>2 DEF HoldsOf, Grips, HasFirst, HasBoth, Cutting, Own, Other
<1> DEFINE s == [th[t] EXCEPT !.other = 0, !.at = @ + 1]
<1>5. Sound(s) /\ s.other = 0
  <2>1. 0 \in Pads \cup {0} /\ th[t].at + 1 \in Nat
    BY <1>2
  <2>2. s \in ThreadStates
    BY <1>1, <2>1, Zenon DEF ThreadStates
  <2>3. s.call = "link" /\ s.own = th[t].own /\ s.other = 0 /\ s.at = 4 /\ s.wait = "no"
    BY <1>1, <1>2 DEF ThreadStates
  <2> HIDE DEF s
  <2> QED BY <1>1, <1>2, <1>3, <2>2, <2>3, EndValues DEF Sound, HasOther, Cutting
<1>6. PICK r : Sound(r) /\ r.other = 0 /\ th' = [th EXCEPT ![t] = r]
  BY <1>5, IdleSound DEF Join, Return, Set, Idle
<1>7. Threadly' /\ th'[t] = r /\ \A u \in Threads \ {t} : th'[u] = th[u]
  BY <1>6, Turn
<1>8. \A p \in Pads : HoldsOf(r, p) = 0 /\ ~Grips(r, p)
  BY <1>6, NothingHeld
<1> QED BY <1>3, <1>4, <1>7, <1>8 DEF Own, Other

LEMMA AtTake ==
    ASSUME Threadly, NEW t \in Threads, IsAt(t, "take") \/ th[t].wait = "link"
    PROVE  /\ Sound(th[t]) /\ th[t] \in ThreadStates /\ th[t].other = 0 /\ th[t].own \in Pads
           /\ th[t].at \in Nat /\ th[t].wait \in {"no", "link"}
           /\ \/ th[t].call \in {"push", "pull"} /\ th[t].at = 1
              \/ th[t].call \in Cutting /\ th[t].at = 1
              \/ th[t].call = "upstream" /\ th[t].at = 2
              \/ th[t].call = "event" /\ th[t].at = 3
              \/ th[t].call = "link" /\ th[t].at = 7
<1>1. /\ Sound(th[t]) /\ th[t] \in ThreadStates /\ th[t].at \in Nat
      /\ Places(th[t].call, th[t].at, Step(t))
  BY StepIs DEF Threadly, Sound, ThreadStates
<1>2. th[t].wait \in {"no", "link"}
  BY DEF IsAt
<1>3. \/ th[t].call \in {"push", "pull"} /\ th[t].at = 1
      \/ th[t].call \in Cutting /\ th[t].at = 1
      \/ th[t].call = "upstream" /\ th[t].at = 2
      \/ th[t].call = "event" /\ th[t].at = 3
      \/ th[t].call = "link" /\ th[t].at = 7
  <2>1. CASE th[t].wait = "link"
    BY <1>1, <2>1 DEF Sound
  <2>2. CASE Step(t) = "take"
    BY <1>1, <2>2 DEF Places, Cutting
  <2> QED BY <2>1, <2>2 DEF IsAt
<1>4. th[t].other = 0 /\ th[t].own \in Pads
  BY <1>1, <1>3 DEF Sound, HasOther, Cutting
<1> QED BY <1>1, <1>2, <1>3, <1>4

(* With a peer the call holds it from now on. *)
Peered(r, q) == [r EXCEPT !.other = q, !.at = @ + 1, !.wait = "no"]

LEMMA TakeMoves ==
    ASSUME Threadly, NEW t \in Threads, IsAt(t, "take") \/ th[t].wait = "link",
           NEW q \in Pads, q # th[t].own, th' = [th EXCEPT ![t] = Peered(th[t], q)]
    PROVE  /\ Threadly' /\ \A u \in Threads \ {t} : th'[u] = th[u]
           /\ \A p \in Pads : /\ HoldsOf(th[t], p) = 0
                              /\ HoldsOf(th'[t], p) = IF p = q THEN 1 ELSE 0
                              /\ ~Grips(th[t], p) /\ ~Grips(th'[t], p)
<1>1. /\ Sound(th[t]) /\ th[t] \in ThreadStates /\ th[t].other = 0 /\ th[t].own \in Pads
      /\ th[t].at \in Nat
      /\ \/ th[t].call \in {"push", "pull"} /\ th[t].at = 1
         \/ th[t].call \in Cutting /\ th[t].at = 1
         \/ th[t].call = "upstream" /\ th[t].at = 2
         \/ th[t].call = "event" /\ th[t].at = 3
         \/ th[t].call = "link" /\ th[t].at = 7
  BY AtTake
<1> DEFINE r == Peered(th[t], q)
<1>2. /\ r \in ThreadStates /\ r.call = th[t].call /\ r.own = th[t].own /\ r.other = q
      /\ r.event = th[t].event /\ r.at = th[t].at + 1 /\ r.wait = "no"
  <2>1. q \in Pads \cup {0} /\ th[t].at + 1 \in Nat /\ "no" \in WaitNames
    BY <1>1 DEF WaitNames
  <2>2. r \in ThreadStates
    BY <1>1, <2>1, Zenon DEF ThreadStates, Peered
  <2> QED BY <1>1, <2>2 DEF ThreadStates, Peered
<1>3. q # 0
  BY PadAssumption
<1> HIDE DEF r
<1>4. Sound(r)
  BY <1>1, <1>2, <1>3, EndValues DEF Sound, HasOther, Cutting
<1>5. \A p \in Pads : HoldsOf(r, p) = (IF p = q THEN 1 ELSE 0) /\ ~Grips(r, p)
  BY <1>1, <1>2 DEF HoldsOf, Grips, HasFirst, HasBoth, Cutting
<1>6. \A p \in Pads : HoldsOf(th[t], p) = 0 /\ ~Grips(th[t], p)
  BY <1>1, NothingHeld
<1>7. Threadly' /\ th'[t] = r /\ \A u \in Threads \ {t} : th'[u] = th[u]
  BY <1>4, Turn DEF r
<1> QED BY <1>5, <1>6, <1>7

(* Without one it goes to its end. *)
LEMMA NoPeerCalm ==
    ASSUME Threadly, NEW t \in Threads, IsAt(t, "take"), NoPeer(t)
    PROVE  Calm
<1>1. /\ Sound(th[t]) /\ th[t] \in ThreadStates /\ th[t].other = 0 /\ th[t].own \in Pads
      /\ th[t].at \in Nat /\ th[t].call \in CallNames
      /\ \/ th[t].call \in {"push", "pull"} /\ th[t].at = 1
         \/ th[t].call \in Cutting /\ th[t].at = 1
         \/ th[t].call = "upstream" /\ th[t].at = 2
         \/ th[t].call = "event" /\ th[t].at = 3
         \/ th[t].call = "link" /\ th[t].at = 7
  BY AtTake DEF ThreadStates
<1>2. CASE th[t].call = "push"
  <2>1. "policy" \in WaitNames \ {"no"} /\ Waits(t, "policy") /\ th[t].at = 1
    BY <1>1, <1>2 DEF WaitNames, NoPeer, Cutting
  <2> QED BY <1>2, <2>1, WaitsCalm
<1>3. CASE th[t].call \in {"pull", "unlink"}
  BY <1>1, <1>3, ReturnCalm DEF NoPeer
<1>4. ASSUME NEW s \in {"post_own", "disown"}, NEW j \in Nat, JumpTo(t, s),
             \/ th[t].call = "upstream" /\ j = 7 /\ s = "post_own"
             \/ th[t].call = "event" /\ j = 8 /\ s = "post_own"
             \/ th[t].call = "link" /\ j = 12 /\ s = "post_own"
             \/ th[t].call = "destroy" /\ j = 6 /\ s = "disown"
      PROVE  Calm
  <2>1. th[t].at < j /\ 1 <= j /\ j <= Ends[th[t].call] /\ j <= Len(Steps[th[t].call])
    <3>1. th[t].at < j /\ 1 <= j
      BY <1>1, <1>4 DEF Cutting
    <3> DEFINE n == Len(Steps[th[t].call])
               e == Ends[th[t].call]
    <3>2. \/ n = 7 /\ e = 8 /\ j = 7
          \/ n = 8 /\ e = 9 /\ j = 8
          \/ n = 12 /\ e = 13 /\ j = 12
          \/ n = 6 /\ e = 6 /\ j = 6
      BY <1>4, EndValues, Lengths, Zenon
    <3> HIDE DEF n, e
    <3>3. j <= n /\ j <= e
      BY <3>2
    <3> QED BY <3>1, <3>3 DEF n, e
  <2>2. StepOf(th[t].call, j) = s
    <3>1. Places(th[t].call, j, StepOf(th[t].call, j))
      BY <1>1, <2>1, StepPlaces
    <3> QED BY <3>1, <1>4 DEF Places
  <2>3. th' = [th EXCEPT ![t] = Landed(th[t], j)]
    BY <1>4, <2>1, <2>2, JumpLands
  <2> DEFINE r == Landed(th[t], j)
  <2>4. /\ r \in ThreadStates /\ r.call = th[t].call /\ r.own = th[t].own /\ r.other = 0
        /\ r.event = th[t].event /\ r.at = j /\ r.wait = "no"
    BY <1>1, LandedFields
  <2> HIDE DEF r
  <2>5. Sound(r)
    BY <1>1, <1>4, <2>1, <2>4 DEF Sound, HasOther, Cutting
  <2>6. \A p \in Pads : /\ HoldsOf(r, p) = 0 /\ ~Grips(r, p)
                        /\ HoldsOf(th[t], p) = 0 /\ ~Grips(th[t], p)
    BY <1>1, <2>4, <2>5, NothingHeld
  <2> QED BY <2>3, <2>5, <2>6, CalmTurn DEF r
<1>5. CASE th[t].call \in {"event", "upstream", "link"}
  BY <1>4, <1>5 DEF NoPeer
<1>6. CASE th[t].call = "destroy"
  BY <1>4, <1>6 DEF NoPeer
<1> QED BY <1>1, <1>2, <1>3, <1>5, <1>6 DEF Cutting

(* Under both locks a cut link's references become the call's. *)
LEMMA SplitMoves ==
    ASSUME Threadly, NEW t \in Threads, Split(t)
    PROVE  /\ Threadly' /\ \A u \in Threads \ {t} : th'[u] = th[u]
           /\ Own(t) \in Pads /\ Other(t) \in Pads /\ Own(t) # Other(t)
           /\ \A p \in Pads :
                 /\ HoldsOf(th'[t], p) = HoldsOf(th[t], p)
                       + IF StillPeer(t) /\ p \in {Own(t), Other(t)} THEN 1 ELSE 0
                 /\ ~Grips(th'[t], p) /\ (Grips(th[t], p) <=> p \in {Own(t), Other(t)})
<1>1. /\ Sound(th[t]) /\ Step(t) = "split" /\ th[t].wait = "no"
      /\ Step(t) = StepOf(th[t].call, th[t].at)
      /\ Places(th[t].call, th[t].at, Step(t)) /\ th[t] \in ThreadStates
  BY StepIs DEF Threadly, Sound, Split, IsAt
<1>2. th[t].call \in Cutting /\ th[t].at = 4
  BY <1>1 DEF Places, Cutting
<1>3. th[t].own \in Pads /\ th[t].other \in Pads /\ th[t].own # th[t].other /\ th[t].event = 0
  BY <1>1, <1>2 DEF Sound, HasOther, Cutting, ThreadStates
<1>4. \A p \in Pads : /\ HoldsOf(th[t], p) = IF p = th[t].other THEN 1 ELSE 0
                      /\ Grips(th[t], p) <=> p \in {Own(t), Other(t)}
  BY <1>2, <1>3 DEF HoldsOf, Grips, HasFirst, HasBoth, Cutting, Own, Other
<1> DEFINE r == IF StillPeer(t) THEN [th[t] EXCEPT !.at = @ + 1, !.event = 2]
                ELSE Onward(th[t])
<1>5. /\ r \in ThreadStates /\ r.call = th[t].call /\ r.own = th[t].own
      /\ r.other = th[t].other /\ r.at = 5 /\ r.wait = "no"
      /\ r.event = IF StillPeer(t) THEN 2 ELSE 0
  <2>1. th[t].at + 1 \in Nat /\ 2 \in Nat
    BY <1>2
  <2>2. [th[t] EXCEPT !.at = @ + 1, !.event = 2] \in ThreadStates
    BY <1>1, <2>1, Zenon DEF ThreadStates
  <2>3. CASE StillPeer(t)
    BY <1>1, <1>2, <2>2, <2>3 DEF ThreadStates
  <2>4. CASE ~StillPeer(t)
    <3>1. r = Onward(th[t])
      BY <2>4
    <3>2. /\ Onward(th[t]) \in ThreadStates /\ Onward(th[t]).call = th[t].call
          /\ Onward(th[t]).own = th[t].own /\ Onward(th[t]).other = th[t].other
          /\ Onward(th[t]).at = th[t].at + 1 /\ Onward(th[t]).wait = "no"
          /\ Onward(th[t]).event = th[t].event
      BY <1>1, <2>1, LandedFields DEF Onward
    <3> HIDE DEF r
    <3> QED BY <1>2, <1>3, <2>4, <3>1, <3>2
  <2> QED BY <2>3, <2>4
<1>6. th' = [th EXCEPT ![t] = r]
  BY DEF Split, Forth, Set, Onward, Landed
<1> HIDE DEF r
<1>7. Sound(r)
  BY <1>1, <1>2, <1>3, <1>5, EndValues DEF Sound, HasOther, Cutting
<1>8. Threadly' /\ th'[t] = r /\ \A u \in Threads \ {t} : th'[u] = th[u]
  BY <1>6, <1>7, Turn
<1>9. \A p \in Pads : /\ HoldsOf(r, p) = HoldsOf(th[t], p)
                            + IF StillPeer(t) /\ p \in {Own(t), Other(t)} THEN 1 ELSE 0
                      /\ ~Grips(r, p)
  BY <1>2, <1>3, <1>4, <1>5 DEF HoldsOf, Grips, HasFirst, HasBoth, Cutting, Own, Other
<1> QED BY <1>3, <1>4, <1>8, <1>9 DEF Own, Other

(* One of the references of the link that was cut is dropped. *)
LEMMA PartMoves ==
    ASSUME Threadly, refs \in [Pads -> Int], NEW t \in Threads, Release(t), th[t].event # 0
    PROVE  /\ Threadly' /\ \A u \in Threads \ {t} : th'[u] = th[u]
           /\ refs' \in [Pads -> Int]
           /\ \A p \in Pads : /\ refs'[p] = refs[p] + HoldsOf(th'[t], p) - HoldsOf(th[t], p)
                              /\ ~Grips(th'[t], p) /\ ~Grips(th[t], p)
<1>1. /\ Sound(th[t]) /\ Step(t) = "release" /\ th[t].wait = "no"
      /\ Places(th[t].call, th[t].at, Step(t)) /\ th[t] \in ThreadStates
  BY StepIs DEF Threadly, Sound, Release, IsAt
<1>2. th[t].call \in Cutting /\ th[t].at = 5
  BY <1>1 DEF Places, Cutting
<1>3. /\ th[t].own \in Pads /\ th[t].other \in Pads /\ th[t].own # th[t].other
      /\ th[t].event \in {1, 2}
  BY <1>1, <1>2 DEF Sound, HasOther, Cutting, ThreadStates
<1>0. 0 \notin Pads
  BY PadAssumption
<1> DEFINE r == [th[t] EXCEPT !.event = @ - 1]
<1>4. th[t].event - 1 \in Nat
  BY <1>3
<1>5. r \in ThreadStates
  BY <1>1, <1>4, Zenon DEF ThreadStates
<1>6. /\ r.call = th[t].call /\ r.own = th[t].own /\ r.other = th[t].other
      /\ r.event = th[t].event - 1 /\ r.at = 5 /\ r.wait = "no"
  BY <1>1, <1>2 DEF ThreadStates
<1>7. th' = [th EXCEPT ![t] = r]
  BY DEF Release, Set
<1> HIDE DEF r
<1>8. Sound(r)
  BY <1>0, <1>1, <1>2, <1>3, <1>5, <1>6, EndValues DEF Sound, HasOther, Cutting
<1>9. Threadly' /\ th'[t] = r /\ \A u \in Threads \ {t} : th'[u] = th[u]
  BY <1>7, <1>8, Turn
<1>10. \A p \in Pads : ~Grips(r, p) /\ ~Grips(th[t], p)
  BY <1>2, <1>6 DEF Grips, HasFirst, HasBoth, Cutting
<1> DEFINE x == IF th[t].event = 2 THEN th[t].other ELSE th[t].own
<1>11. refs' = Counted(x, 0)
  BY DEF Release, Own, Other
<1>12. \A p \in Pads : HoldsOf(r, p) = HoldsOf(th[t], p) - IF p = x THEN 1 ELSE 0
  <2>1. CASE th[t].event = 2
    BY <1>2, <1>3, <1>6, <2>1 DEF HoldsOf, Cutting
  <2>2. CASE th[t].event = 1
    BY <1>2, <1>3, <1>6, <2>2 DEF HoldsOf, Cutting
  <2> QED BY <1>3, <2>1, <2>2
<1> HIDE DEF x
<1>13. \A p \in Pads : HoldsOf(th[t], p) \in {0, 1, 2}
  BY HoldsIs
<1>14. /\ refs' \in [Pads -> Int]
       /\ \A p \in Pads : refs'[p] = refs[p] - IF p = x THEN 1 ELSE 0
  BY <1>0, <1>3, <1>11 DEF Counted
<1>15. \A p \in Pads : refs'[p] = refs[p] + HoldsOf(r, p) - HoldsOf(th[t], p)
  BY <1>12, <1>13, <1>14
<1> QED BY <1>9, <1>10, <1>14, <1>15

(* What the call holds is dropped. *)
LEMMA ReleaseMoves ==
    ASSUME Threadly, refs \in [Pads -> Int], NEW t \in Threads,
           (Release(t) /\ th[t].event = 0) \/ Drop(t)
    PROVE  /\ Threadly' /\ \A u \in Threads \ {t} : th'[u] = th[u]
           /\ refs' \in [Pads -> Int]
           /\ \A p \in Pads : /\ HoldsOf(th'[t], p) = 0
                              /\ refs'[p] = refs[p] - HoldsOf(th[t], p)
                              /\ ~Grips(th'[t], p) /\ ~Grips(th[t], p)
<1>1. /\ Sound(th[t]) /\ Step(t) \in {"release", "drop"} /\ th[t].wait = "no"
      /\ Places(th[t].call, th[t].at, Step(t)) /\ th[t] \in ThreadStates
  BY StepIs DEF Threadly, Sound, Release, Drop, IsAt
<1>2. \/ Release(t) /\ th[t].event = 0 /\ th[t].call \in Cutting /\ th[t].at = 5
      \/ /\ Drop(t)
         /\ \/ th[t].call \in {"push", "pull"} /\ th[t].at = 7
            \/ th[t].call = "upstream" /\ th[t].at = 6
            \/ th[t].call = "event" /\ th[t].at = 7
            \/ th[t].call = "link" /\ th[t].at = 11
  BY <1>1 DEF Places, Cutting, Release, Drop, IsAt
<1>3. th[t].own \in Pads /\ th[t].other \in Pads
  BY <1>1, <1>2 DEF Sound, HasOther, Cutting, ThreadStates
<1>4. \A p \in Pads : ~Grips(th[t], p)
  BY <1>2 DEF Grips, HasFirst, HasBoth, Cutting
<1>5. /\ refs' \in [Pads -> Int]
      /\ \A p \in Pads : refs'[p] = refs[p] - HoldsOf(th[t], p)
  <2>1. 0 \notin Pads
    BY PadAssumption
  <2>2. CASE Drop(t)
    BY <1>2, <1>3, <2>1, <2>2 DEF Drop, Release, Counted, HoldsOf, Own, Other, Cutting
  <2>3. CASE Release(t) /\ th[t].event = 0 /\ th[t].call \in Cutting /\ th[t].at = 5
    <3>1. refs' = Counted(Other(t), 0)
      BY <2>3 DEF Release
    <3> QED BY <1>3, <2>1, <2>3, <3>1 DEF Counted, HoldsOf, Own, Other, Cutting
  <2> QED BY <1>2, <2>2, <2>3
<1>6. PICK r : Sound(r) /\ r.other = 0 /\ th' = [th EXCEPT ![t] = r]
  <2>1. Sound(Idle) /\ Idle.other = 0
    BY IdleSound DEF Idle
  <2>2. CASE Return(t)
    BY <2>1, <2>2 DEF Return, Set
  <2>3. CASE Drop(t) /\ ~Return(t)
    <3> DEFINE r == [th[t] EXCEPT !.at = @ + 1, !.other = 0]
    <3>1. 0 \in Pads \cup {0} /\ th[t].at + 1 \in Nat
      BY <1>2
    <3>2. r \in ThreadStates
      BY <1>1, <3>1, Zenon DEF ThreadStates
    <3>3. /\ r.call = th[t].call /\ r.own = th[t].own /\ r.other = 0 /\ r.at = th[t].at + 1
          /\ r.wait = "no" /\ r.event = th[t].event
      BY <1>1 DEF ThreadStates
    <3>4. th[t].call \notin {"push", "pull"} /\ th' = [th EXCEPT ![t] = r]
      BY <2>3 DEF Drop, Set
    <3> HIDE DEF r
    <3>5. \/ th[t].call = "upstream" /\ th[t].at = 6
          \/ th[t].call = "event" /\ th[t].at = 7
          \/ th[t].call = "link" /\ th[t].at = 11
      BY <1>1, <2>3, <3>4 DEF Places, Drop, IsAt
    <3>6. Sound(r)
      BY <1>1, <3>2, <3>3, <3>5, EndValues DEF Sound, HasOther, Cutting
    <3> QED BY <3>3, <3>4, <3>6
  <2>4. CASE Release(t) /\ th[t].event = 0 /\ ~Return(t)
    <3> DEFINE r == [th[t] EXCEPT !.at = @ + 1, !.other = 0]
    <3>1. 0 \in Pads \cup {0} /\ th[t].at + 1 \in Nat
      BY <1>2
    <3>2. r \in ThreadStates
      BY <1>1, <3>1, Zenon DEF ThreadStates
    <3>3. /\ r.call = th[t].call /\ r.own = th[t].own /\ r.other = 0 /\ r.at = th[t].at + 1
          /\ r.wait = "no" /\ r.event = 0
      BY <1>1, <2>4 DEF ThreadStates
    <3>4. th[t].call = "destroy" /\ th' = [th EXCEPT ![t] = r]
      BY <2>4 DEF Release, Set
    <3> HIDE DEF r
    <3>5. th[t].at = 5
      BY <1>1, <2>4 DEF Places, Release, IsAt
    <3>6. Sound(r)
      <4>1. 0 \notin Pads /\ th[t].own \in Pads
        BY <1>3, PadAssumption
      <4> QED BY <4>1, <3>2, <3>3, <3>4, <3>5, EndValues DEF Sound, HasOther, Cutting
    <3> QED BY <3>3, <3>4, <3>6
  <2> QED BY <2>2, <2>3, <2>4
<1>7. Threadly' /\ th'[t] = r /\ \A u \in Threads \ {t} : th'[u] = th[u]
  BY <1>6, Turn
<1>8. \A p \in Pads : HoldsOf(r, p) = 0 /\ ~Grips(r, p)
  BY <1>6, NothingHeld
<1> QED BY <1>4, <1>5, <1>7, <1>8

-----------------------------------------------------------------------------
(* The references that the calls hold on a pad, when one thread moves.      *)

LEMMA HoldsIsNext ==
    ASSUME Threadly', NEW t \in Threads, NEW p \in Pads
    PROVE  Holds(t, p)' = HoldsOf(th'[t], p) /\ HoldsOf(th'[t], p) \in {0, 1, 2}
<1>1. Sound(th'[t])
  BY DEF Threadly
<1>2. Step(t)' = StepOf(th'[t].call, th'[t].at)
  BY DEF Step, StepOf
<1>3. /\ th'[t].call \in CallNames /\ th'[t].at \in Nat /\ 1 <= th'[t].at
      /\ th'[t].at <= Ends[th'[t].call]
  BY <1>1 DEF Sound, ThreadStates
<1>4. Places(th'[t].call, th'[t].at, StepOf(th'[t].call, th'[t].at))
  BY <1>3, StepPlaces
<1>5. (Step(t)' = "release") <=> (th'[t].call \in Cutting /\ th'[t].at = 5)
  BY <1>2, <1>4 DEF Places, Cutting
<1> QED BY <1>5 DEF Holds, HoldsOf, Cutting

Sum(f) == Cardinality({u \in Threads : f[u] = 1}) + 2 * Cardinality({u \in Threads : f[u] = 2})

LEMMA SumSplit ==
    ASSUME NEW f \in [Threads -> {0, 1, 2}], NEW t \in Threads
    PROVE  LET A == {u \in Threads \ {t} : f[u] = 1}
               B == {u \in Threads \ {t} : f[u] = 2}
           IN  /\ Cardinality(A) \in Nat /\ Cardinality(B) \in Nat
               /\ Sum(f) = Cardinality(A) + 2 * Cardinality(B) + f[t]
<1> DEFINE A == {u \in Threads \ {t} : f[u] = 1}
           B == {u \in Threads \ {t} : f[u] = 2}
           C == {u \in Threads : f[u] = 1}
           D == {u \in Threads : f[u] = 2}
<1>1. IsFiniteSet(A) /\ IsFiniteSet(B)
  <2>1. A \subseteq Threads /\ B \subseteq Threads
    OBVIOUS
  <2> QED BY <2>1, PadAssumption, FS_Subset
<1>2. Cardinality(A) \in Nat /\ Cardinality(B) \in Nat
  BY <1>1, FS_CardinalityType
<1>3. t \notin A /\ t \notin B
  OBVIOUS
<1>4. Cardinality(A \cup {t}) = Cardinality(A) + 1 /\ Cardinality(B \cup {t}) = Cardinality(B) + 1
  <2> HIDE DEF A, B
  <2> QED BY <1>1, <1>3, FS_AddElement
<1>5. /\ C = IF f[t] = 1 THEN A \cup {t} ELSE A
      /\ D = IF f[t] = 2 THEN B \cup {t} ELSE B
  OBVIOUS
<1>6. f[t] \in {0, 1, 2} /\ Sum(f) = Cardinality(C) + 2 * Cardinality(D)
  BY DEF Sum
<1> HIDE DEF A, B, C, D
<1>7. Sum(f) = Cardinality(A) + 2 * Cardinality(B) + f[t]
  BY <1>2, <1>4, <1>5, <1>6
<1> QED BY <1>2, <1>7 DEF A, B

Held(p) == Cardinality(HeldBy(p)) + 2 * Cardinality(HeldTwiceBy(p))

LEMMA HeldTurn ==
    ASSUME Threadly, Threadly', NEW t \in Threads, NEW p \in Pads,
           \A u \in Threads \ {t} : HoldsOf(th'[u], p) = HoldsOf(th[u], p)
    PROVE  /\ Held(p) \in Nat /\ Held(p)' \in Nat
           /\ Held(p)' = Held(p) + HoldsOf(th'[t], p) - HoldsOf(th[t], p)
<1> DEFINE f == [u \in Threads |-> HoldsOf(th[u], p)]
           g == [u \in Threads |-> HoldsOf(th'[u], p)]
<1>1. f \in [Threads -> {0, 1, 2}] /\ Held(p) = Sum(f)
  <2>1. \A u \in Threads : Holds(u, p) = HoldsOf(th[u], p) /\ HoldsOf(th[u], p) \in {0, 1, 2}
    BY HoldsIs
  <2>2. \A u \in Threads : f[u] = Holds(u, p)
    BY <2>1
  <2>3. HeldBy(p) = {u \in Threads : f[u] = 1} /\ HeldTwiceBy(p) = {u \in Threads : f[u] = 2}
    BY <2>2 DEF HeldBy, HeldTwiceBy
  <2>4. f \in [Threads -> {0, 1, 2}]
    BY <2>1
  <2> HIDE DEF f
  <2> QED BY <2>3, <2>4 DEF Held, Sum
<1>2. g \in [Threads -> {0, 1, 2}] /\ Held(p)' = Sum(g)
  <2>1. \A u \in Threads : Holds(u, p)' = HoldsOf(th'[u], p) /\ HoldsOf(th'[u], p) \in {0, 1, 2}
    BY HoldsIsNext
  <2>2. \A u \in Threads : g[u] = Holds(u, p)'
    BY <2>1
  <2>3. HeldBy(p)' = {u \in Threads : g[u] = 1} /\ HeldTwiceBy(p)' = {u \in Threads : g[u] = 2}
    BY <2>2 DEF HeldBy, HeldTwiceBy
  <2>4. g \in [Threads -> {0, 1, 2}]
    BY <2>1
  <2> HIDE DEF g
  <2> QED BY <2>3, <2>4 DEF Held, Sum
<1>3. \A u \in Threads \ {t} : f[u] = g[u]
  OBVIOUS
<1>4. f[t] = HoldsOf(th[t], p) /\ g[t] = HoldsOf(th'[t], p)
  OBVIOUS
<1> HIDE DEF f, g
<1>5. f[t] \in {0, 1, 2} /\ g[t] \in {0, 1, 2}
  BY <1>1, <1>2
<1> DEFINE A == {u \in Threads \ {t} : f[u] = 1}
           B == {u \in Threads \ {t} : f[u] = 2}
<1>6. /\ Cardinality(A) \in Nat /\ Cardinality(B) \in Nat
      /\ Sum(f) = Cardinality(A) + 2 * Cardinality(B) + f[t]
  BY <1>1, SumSplit
<1>7. A = {u \in Threads \ {t} : g[u] = 1} /\ B = {u \in Threads \ {t} : g[u] = 2}
  BY <1>3
<1>8. Sum(g) = Cardinality(A) + 2 * Cardinality(B) + g[t]
  BY <1>2, <1>7, SumSplit
<1> HIDE DEF A, B
<1>9. /\ Sum(f) \in Nat /\ Sum(g) \in Nat /\ Sum(g) = Sum(f) + g[t] - f[t]
  BY <1>5, <1>6, <1>8
<1> QED BY <1>1, <1>2, <1>4, <1>9

LEMMA HeldCalm ==
    ASSUME Threadly, Calm, NEW p \in Pads PROVE Held(p)' = Held(p)
<1>1. \A u \in Threads : Holds(u, p) = HoldsOf(th[u], p) /\ Holds(u, p)' = HoldsOf(th'[u], p)
  BY HoldsIs, HoldsIsNext DEF Calm
<1>2. \A u \in Threads : Holds(u, p)' = Holds(u, p)
  BY <1>1 DEF Calm
<1>3. HeldBy(p)' = HeldBy(p) /\ HeldTwiceBy(p)' = HeldTwiceBy(p)
  BY <1>2 DEF HeldBy, HeldTwiceBy
<1> QED BY <1>3 DEF Held

-----------------------------------------------------------------------------
(* The inductive invariant: a lock's holder is at a step that has it, two   *)
(* pads point at each other, and a pad's count is what it is made of.       *)

Locks == \A p \in Pads, u \in Threads : (lock[p] = u) <=> Grips(th[u], p)

Paired == \A p \in Pads : peer[p] # 0 => peer[peer[p]] = p

OwnerOf(p) == IF p \in owned THEN 1 ELSE 0
LinkOf(p)  == IF peer[p] # 0 THEN 1 ELSE 0

RefsRight == \A p \in Pads : refs[p] = OwnerOf(p) + LinkOf(p) + Held(p)

PadInv == Shape /\ Locks /\ Paired /\ RefsRight

LEMMA CalmKeeps ==
    ASSUME PadInv, Calm, UNCHANGED links,
           sticky' \in [Src -> Nat], pushed' \in [Src -> Nat], queued' \in [Src -> 0 .. MaxQueued]
    PROVE  PadInv'
<1>1. Shape'
  BY DEF PadInv, Shape, Calm, links
<1>2. Locks'
  BY DEF PadInv, Locks, Calm, links
<1>3. Paired'
  BY DEF PadInv, Paired, links
<1>4. \A p \in Pads : Held(p)' = Held(p)
  BY HeldCalm DEF PadInv, Shape
<1>5. \A p \in Pads : OwnerOf(p)' = OwnerOf(p) /\ LinkOf(p)' = LinkOf(p) /\ refs'[p] = refs[p]
  BY DEF OwnerOf, LinkOf, links
<1>6. RefsRight'
  BY <1>4, <1>5 DEF PadInv, RefsRight
<1> QED BY <1>1, <1>2, <1>3, <1>6 DEF PadInv

(* A step that moves references: what the thread holds, the links and the  *)
(* owners change together with the counts.                                 *)
LEMMA CountsKept ==
    ASSUME PadInv, Threadly', NEW t \in Threads, \A u \in Threads \ {t} : th'[u] = th[u],
           \A p \in Pads : refs'[p] = refs[p] + (OwnerOf(p)' - OwnerOf(p))
                              + (LinkOf(p)' - LinkOf(p)) + (HoldsOf(th'[t], p) - HoldsOf(th[t], p))
    PROVE  RefsRight'
<1> SUFFICES ASSUME NEW p \in Pads
             PROVE  refs'[p] = OwnerOf(p)' + LinkOf(p)' + Held(p)'
  BY DEF RefsRight
<1>1. /\ Held(p) \in Nat /\ Held(p)' \in Nat
      /\ Held(p)' = Held(p) + HoldsOf(th'[t], p) - HoldsOf(th[t], p)
  BY HeldTurn DEF PadInv, Shape
<1>2. OwnerOf(p) \in {0, 1} /\ LinkOf(p) \in {0, 1} /\ OwnerOf(p)' \in {0, 1} /\ LinkOf(p)' \in {0, 1}
  BY DEF OwnerOf, LinkOf
<1>3. HoldsOf(th[t], p) \in {0, 1, 2} /\ HoldsOf(th'[t], p) \in {0, 1, 2}
  BY HoldsIs, HoldsIsNext DEF PadInv, Shape
<1>4. refs[p] = OwnerOf(p) + LinkOf(p) + Held(p)
  BY DEF PadInv, RefsRight
<1> QED BY <1>1, <1>2, <1>3, <1>4

LEMMA LockKeeps ==
    ASSUME PadInv, NEW t \in Threads, LockFirst(t) \/ LockSecond(t)
    PROVE  PadInv'
<1>0. /\ Threadly /\ lock \in [Pads -> Threads \cup {""}] /\ Locks /\ "" \notin Threads
      /\ UNCHANGED <<peer, refs, owned, sticky, pushed, queued>>
  BY PadAssumption DEF PadInv, Shape, LockFirst, LockSecond, events
<1>1. PICK q \in Pads : lock[q] = "" /\ lock' = [lock EXCEPT ![q] = t]
      /\ Threadly' /\ (\A u \in Threads \ {t} : th'[u] = th[u])
      /\ \A p \in Pads : /\ HoldsOf(th'[t], p) = HoldsOf(th[t], p)
                         /\ Grips(th'[t], p) <=> Grips(th[t], p) \/ p = q
  <2>1. CASE LockFirst(t)
    BY <1>0, <2>1, LockFirstMoves DEF LockFirst
  <2>2. CASE LockSecond(t)
    BY <1>0, <2>2, LockSecondMoves DEF LockSecond
  <2> QED BY <2>1, <2>2
<1>2. Shape'
  BY <1>0, <1>1 DEF PadInv, Shape
<1>3. Locks'
  <2> SUFFICES ASSUME NEW p \in Pads, NEW u \in Threads
               PROVE  (lock'[p] = u) <=> Grips(th'[u], p)
    BY DEF Locks
  <2>1. (lock[p] = u) <=> Grips(th[u], p)
    BY <1>0 DEF Locks
  <2>2. CASE p = q
    BY <1>0, <1>1, <2>1, <2>2
  <2>3. CASE p # q
    BY <1>0, <1>1, <2>1, <2>3
  <2> QED BY <2>2, <2>3
<1>4. Paired'
  BY <1>0 DEF PadInv, Paired
<1>5. RefsRight'
  <2>1. \A p \in Pads : OwnerOf(p)' = OwnerOf(p) /\ LinkOf(p)' = LinkOf(p) /\ refs'[p] = refs[p]
    BY <1>0 DEF OwnerOf, LinkOf
  <2>2. \A p \in Pads : Held(p)' = Held(p)
    <3> TAKE p \in Pads
    <3>1. /\ Held(p) \in Nat
          /\ Held(p)' = Held(p) + HoldsOf(th'[t], p) - HoldsOf(th[t], p)
      BY <1>0, <1>1, HeldTurn
    <3>2. HoldsOf(th[t], p) \in {0, 1, 2} /\ HoldsOf(th'[t], p) = HoldsOf(th[t], p)
      BY <1>0, <1>1, HoldsIs
    <3> QED BY <3>1, <3>2
  <2> QED BY <2>1, <2>2 DEF PadInv, RefsRight
<1> QED BY <1>2, <1>3, <1>4, <1>5 DEF PadInv

(* Both locks go back. *)
LEMMA UnlockLocks ==
    ASSUME PadInv, NEW t \in Threads, Unlock(t), \A u \in Threads \ {t} : th'[u] = th[u],
           \A p \in Pads : ~Grips(th'[t], p) /\ (Grips(th[t], p) <=> p \in {Own(t), Other(t)})
    PROVE  Locks' /\ lock' \in [Pads -> Threads \cup {""}]
<1>0. /\ lock \in [Pads -> Threads \cup {""}] /\ Locks /\ "" \notin Threads
  BY PadAssumption DEF PadInv, Shape
<1>1. /\ lock' \in [Pads -> Threads \cup {""}]
      /\ \A p \in Pads : lock'[p] = IF p \in {Own(t), Other(t)} THEN "" ELSE lock[p]
  BY <1>0 DEF Unlock
<1>2. ASSUME NEW p \in Pads, NEW u \in Threads
      PROVE  (lock'[p] = u) <=> Grips(th'[u], p)
  <2>1. ((lock[p] = u) <=> Grips(th[u], p)) /\ ((lock[p] = t) <=> Grips(th[t], p))
    BY <1>0 DEF Locks
  <2>2. CASE p \in {Own(t), Other(t)}
    BY <1>0, <1>1, <2>1, <2>2
  <2>3. CASE p \notin {Own(t), Other(t)}
    BY <1>0, <1>1, <2>1, <2>3
  <2> QED BY <2>2, <2>3
<1> QED BY <1>1, <1>2 DEF Locks

LEMMA JoinKeeps ==
    ASSUME PadInv, NEW t \in Threads, Join(t)
    PROVE  PadInv'
<1> DEFINE a == Own(t)
           b == Other(t)
<1>0. /\ Shape /\ UNCHANGED <<owned, sticky, pushed, queued>> /\ Unlock(t) /\ Threadly
  BY DEF PadInv, Shape, Join
<1>1. /\ Threadly' /\ (\A u \in Threads \ {t} : th'[u] = th[u])
      /\ \A p \in Pads : /\ HoldsOf(th'[t], p) = 0 /\ HoldsOf(th[t], p) = 0 /\ ~Grips(th'[t], p)
                         /\ Grips(th[t], p) <=> p \in {Own(t), Other(t)}
      /\ a \in Src /\ b \in Sink
  BY <1>0, JoinMoves
<1>2. a \in Pads /\ b \in Pads /\ a # b /\ a # 0 /\ b # 0
  BY <1>1, PadAssumption DEF Pads
<1>3. Locks' /\ lock' \in [Pads -> Threads \cup {""}]
  BY <1>0, <1>1, UnlockLocks
<1>4. /\ peer \in [Pads -> Pads \cup {0}] /\ refs \in [Pads -> Int]
      /\ \A p \in Src : peer[p] \in Sink \cup {0}
      /\ \A p \in Sink : peer[p] \in Src \cup {0}
  BY DEF PadInv, Shape
<1>5. CASE MayLink(a, b)
  <2>1. /\ peer' = [peer EXCEPT ![a] = b, ![b] = a]
        /\ refs' = [refs EXCEPT ![a] = @ + 1, ![b] = @ + 1] /\ peer[a] = 0 /\ peer[b] = 0
    BY <1>5 DEF Join, MayLink
  <2> HIDE DEF a, b
  <2>2. /\ peer' \in [Pads -> Pads \cup {0}]
        /\ \A p \in Pads : peer'[p] = IF p = a THEN b ELSE IF p = b THEN a ELSE peer[p]
    BY <1>2, <1>4, <2>1
  <2>3. /\ \A p \in Src : peer'[p] \in Sink \cup {0}
        /\ \A p \in Sink : peer'[p] \in Src \cup {0}
    BY <1>1, <1>4, <2>2, PadAssumption DEF Pads
  <2>4. /\ refs' \in [Pads -> Int]
        /\ \A p \in Pads : refs'[p] = refs[p] + IF p \in {a, b} THEN 1 ELSE 0
    BY <1>2, <1>4, <2>1
  <2>5. Shape'
    BY <1>0, <1>1, <1>3, <2>2, <2>3, <2>4 DEF Shape
  <2>6. Paired'
    <3> SUFFICES ASSUME NEW p \in Pads, peer'[p] # 0 PROVE peer'[peer'[p]] = p
      BY DEF Paired
    <3>1. CASE p \in {a, b}
      BY <1>2, <2>2, <3>1
    <3>2. CASE p \notin {a, b}
      <4>1. peer'[p] = peer[p] /\ peer[p] \in Pads /\ peer[peer[p]] = p
        BY <1>4, <2>2, <3>2 DEF PadInv, Paired
      <4>2. peer[p] \notin {a, b}
        BY <1>2, <2>1, <4>1, PadAssumption
      <4> QED BY <2>2, <4>1, <4>2
    <3> QED BY <3>1, <3>2
  <2>7. \A p \in Pads : /\ OwnerOf(p)' = OwnerOf(p)
                        /\ LinkOf(p)' = LinkOf(p) + IF p \in {a, b} THEN 1 ELSE 0
    BY <1>0, <1>2, <2>1, <2>2 DEF OwnerOf, LinkOf
  <2>8. RefsRight'
    <3>1. \A p \in Pads : refs'[p] = refs[p] + (OwnerOf(p)' - OwnerOf(p))
                  + (LinkOf(p)' - LinkOf(p)) + (HoldsOf(th'[t], p) - HoldsOf(th[t], p))
      <4> TAKE p \in Pads
      <4>1. OwnerOf(p) \in {0, 1} /\ LinkOf(p) \in {0, 1} /\ refs[p] \in Int
        BY <1>4 DEF OwnerOf, LinkOf
      <4> QED BY <1>1, <2>4, <2>7, <4>1
    <3> QED BY <1>1, <3>1, CountsKept
  <2> QED BY <1>3, <2>5, <2>6, <2>8 DEF PadInv
<1>6. CASE ~MayLink(a, b)
  <2>1. UNCHANGED <<peer, refs>>
    BY <1>6 DEF Join
  <2>2. Shape'
    BY <1>0, <1>1, <1>3, <2>1 DEF Shape
  <2>3. Paired'
    BY <2>1 DEF PadInv, Paired
  <2>4. RefsRight'
    <3>1. \A p \in Pads : refs'[p] = refs[p] + (OwnerOf(p)' - OwnerOf(p))
                  + (LinkOf(p)' - LinkOf(p)) + (HoldsOf(th'[t], p) - HoldsOf(th[t], p))
      <4> TAKE p \in Pads
      <4>1. /\ OwnerOf(p) \in {0, 1} /\ LinkOf(p) \in {0, 1} /\ refs[p] \in Int
            /\ OwnerOf(p)' = OwnerOf(p) /\ LinkOf(p)' = LinkOf(p) /\ refs'[p] = refs[p]
        BY <1>0, <1>4, <2>1 DEF OwnerOf, LinkOf
      <4> QED BY <1>1, <4>1
    <3> QED BY <1>1, <3>1, CountsKept
  <2> QED BY <1>3, <2>2, <2>3, <2>4 DEF PadInv
<1> QED BY <1>5, <1>6

LEMMA SplitKeeps ==
    ASSUME PadInv, NEW t \in Threads, Split(t)
    PROVE  PadInv'
<1> DEFINE a == Own(t)
           b == Other(t)
<1>0. /\ Shape /\ UNCHANGED <<refs, owned, sticky, pushed, queued>> /\ Unlock(t) /\ Threadly
  BY DEF PadInv, Shape, Split, events
<1>1. /\ Threadly' /\ (\A u \in Threads \ {t} : th'[u] = th[u])
      /\ a \in Pads /\ b \in Pads /\ a # b
      /\ \A p \in Pads :
            /\ HoldsOf(th'[t], p) = HoldsOf(th[t], p)
                  + IF StillPeer(t) /\ p \in {Own(t), Other(t)} THEN 1 ELSE 0
            /\ ~Grips(th'[t], p) /\ (Grips(th[t], p) <=> p \in {Own(t), Other(t)})
  BY <1>0, SplitMoves
<1>2. Locks' /\ lock' \in [Pads -> Threads \cup {""}]
  BY <1>0, <1>1, UnlockLocks
<1>3. /\ peer \in [Pads -> Pads \cup {0}] /\ refs \in [Pads -> Int] /\ Paired
      /\ \A p \in Src : peer[p] \in Sink \cup {0}
      /\ \A p \in Sink : peer[p] \in Src \cup {0}
      /\ 0 \notin Pads
  BY PadAssumption DEF PadInv, Shape
<1>4. \A p \in Pads : HoldsOf(th[t], p) \in {0, 1, 2}
  BY <1>0, HoldsIs
<1>5. CASE StillPeer(t)
  <2>1. peer[a] = b /\ peer[b] = a /\ peer' = Cut(a, b)
    BY <1>1, <1>3, <1>5 DEF Split, StillPeer, Paired
  <2> HIDE DEF a, b
  <2>2. /\ peer' \in [Pads -> Pads \cup {0}]
        /\ \A p \in Pads : peer'[p] = IF p \in {a, b} THEN 0 ELSE peer[p]
    BY <1>1, <1>3, <2>1 DEF Cut
  <2>3. /\ \A p \in Src : peer'[p] \in Sink \cup {0}
        /\ \A p \in Sink : peer'[p] \in Src \cup {0}
    BY <1>3, <2>2 DEF Pads
  <2>4. Shape'
    BY <1>0, <1>1, <1>2, <2>2, <2>3 DEF Shape
  <2>5. Paired'
    <3> SUFFICES ASSUME NEW p \in Pads, peer'[p] # 0 PROVE peer'[peer'[p]] = p
      BY DEF Paired
    <3>1. /\ p \notin {a, b} /\ peer'[p] = peer[p] /\ peer[p] \in Pads /\ peer[peer[p]] = p
      BY <1>3, <2>2 DEF Paired
    <3>2. peer[p] \notin {a, b}
      BY <2>1, <3>1
    <3> QED BY <2>2, <3>1, <3>2
  <2>6. \A p \in Pads : /\ OwnerOf(p)' = OwnerOf(p)
                        /\ LinkOf(p)' = LinkOf(p) - IF p \in {a, b} THEN 1 ELSE 0
    BY <1>0, <1>1, <1>3, <2>1, <2>2 DEF OwnerOf, LinkOf
  <2>7. RefsRight'
    <3>1. \A p \in Pads : refs'[p] = refs[p] + (OwnerOf(p)' - OwnerOf(p))
                  + (LinkOf(p)' - LinkOf(p)) + (HoldsOf(th'[t], p) - HoldsOf(th[t], p))
      <4> TAKE p \in Pads
      <4>1. OwnerOf(p) \in {0, 1} /\ LinkOf(p) \in {0, 1} /\ refs[p] \in Int /\ refs'[p] = refs[p]
        BY <1>0, <1>3 DEF OwnerOf, LinkOf
      <4>2. HoldsOf(th'[t], p) = HoldsOf(th[t], p) + IF p \in {a, b} THEN 1 ELSE 0
        BY <1>1, <1>5 DEF a, b
      <4> QED BY <1>4, <2>6, <4>1, <4>2
    <3> QED BY <1>1, <3>1, CountsKept
  <2> QED BY <1>2, <2>4, <2>5, <2>7 DEF PadInv
<1>6. CASE ~StillPeer(t)
  <2>1. UNCHANGED peer
    BY <1>6 DEF Split
  <2>2. Shape'
    BY <1>0, <1>1, <1>2, <2>1 DEF Shape
  <2>3. Paired'
    BY <2>1 DEF PadInv, Paired
  <2>4. RefsRight'
    <3>1. \A p \in Pads : refs'[p] = refs[p] + (OwnerOf(p)' - OwnerOf(p))
                  + (LinkOf(p)' - LinkOf(p)) + (HoldsOf(th'[t], p) - HoldsOf(th[t], p))
      <4> TAKE p \in Pads
      <4>1. /\ OwnerOf(p) \in {0, 1} /\ LinkOf(p) \in {0, 1} /\ refs[p] \in Int
            /\ OwnerOf(p)' = OwnerOf(p) /\ LinkOf(p)' = LinkOf(p) /\ refs'[p] = refs[p]
        BY <1>0, <1>3, <2>1 DEF OwnerOf, LinkOf
      <4> QED BY <1>1, <1>4, <1>6, <4>1
    <3> QED BY <1>1, <3>1, CountsKept
  <2> QED BY <1>2, <2>2, <2>3, <2>4 DEF PadInv
<1> QED BY <1>5, <1>6

(* A step of one thread that leaves locks and links alone *)
LEMMA RefsOnly ==
    ASSUME PadInv, NEW t \in Threads, Threadly', \A u \in Threads \ {t} : th'[u] = th[u],
           \A p \in Pads : ~Grips(th[t], p) /\ ~Grips(th'[t], p),
           UNCHANGED <<peer, owned, lock, sticky, pushed, queued>>, refs' \in [Pads -> Int],
           \A p \in Pads : refs'[p] = refs[p] + HoldsOf(th'[t], p) - HoldsOf(th[t], p)
    PROVE  PadInv'
<1>1. Shape'
  BY DEF PadInv, Shape
<1>2. Locks'
  BY DEF PadInv, Locks
<1>3. Paired'
  BY DEF PadInv, Paired
<1>4. \A p \in Pads : refs'[p] = refs[p] + (OwnerOf(p)' - OwnerOf(p))
                  + (LinkOf(p)' - LinkOf(p)) + (HoldsOf(th'[t], p) - HoldsOf(th[t], p))
  <2> TAKE p \in Pads
  <2>1. /\ OwnerOf(p) \in {0, 1} /\ LinkOf(p) \in {0, 1}
        /\ OwnerOf(p)' = OwnerOf(p) /\ LinkOf(p)' = LinkOf(p)
    BY DEF OwnerOf, LinkOf
  <2>2. HoldsOf(th[t], p) \in {0, 1, 2} /\ HoldsOf(th'[t], p) \in {0, 1, 2} /\ refs[p] \in Int
    BY HoldsIs, HoldsIsNext DEF PadInv, Shape
  <2> QED BY <2>1, <2>2
<1>5. RefsRight'
  BY <1>4, CountsKept
<1> QED BY <1>1, <1>2, <1>3, <1>5 DEF PadInv

LEMMA ReleaseKeeps ==
    ASSUME PadInv, NEW t \in Threads, Release(t) \/ Drop(t)
    PROVE  PadInv'
<1>1. Threadly /\ refs \in [Pads -> Int]
  BY DEF PadInv, Shape
<1>2. UNCHANGED <<peer, owned, lock, sticky, pushed, queued>>
  BY DEF Release, Drop, events
<1>5. CASE Release(t) /\ th[t].event # 0
  BY <1>1, <1>2, <1>5, PartMoves, RefsOnly
<1>6. CASE (Release(t) /\ th[t].event = 0) \/ Drop(t)
  <2>3. /\ Threadly' /\ (\A u \in Threads \ {t} : th'[u] = th[u]) /\ refs' \in [Pads -> Int]
        /\ \A p \in Pads : /\ HoldsOf(th'[t], p) = 0
                           /\ refs'[p] = refs[p] - HoldsOf(th[t], p)
                           /\ ~Grips(th'[t], p) /\ ~Grips(th[t], p)
    BY <1>1, <1>6, ReleaseMoves
  <2>4. \A p \in Pads : refs'[p] = refs[p] + HoldsOf(th'[t], p) - HoldsOf(th[t], p)
    <3> TAKE p \in Pads
    <3>1. HoldsOf(th[t], p) \in {0, 1, 2} /\ refs[p] \in Int
      BY <1>1, HoldsIs
    <3> QED BY <2>3, <3>1
  <2> QED BY <1>2, <2>3, <2>4, RefsOnly
<1> QED BY <1>5, <1>6

LEMMA TakeKeeps ==
    ASSUME PadInv, NEW t \in Threads, Take(t) \/ Linked(t)
    PROVE  PadInv'
<1>1. /\ Threadly /\ refs \in [Pads -> Int] /\ Shape /\ peer \in [Pads -> Pads \cup {0}]
      /\ sticky \in [Src -> Nat] /\ pushed \in [Src -> Nat] /\ queued \in [Src -> 0 .. MaxQueued]
  BY DEF PadInv, Shape
<1>2. UNCHANGED <<peer, owned, lock, sticky, pushed, queued>>
  BY DEF Take, Linked, events
<1>3. IsAt(t, "take") \/ th[t].wait = "link"
  BY DEF Take, Linked
<1>4. /\ th[t] \in ThreadStates /\ th[t].own \in Pads /\ th[t].wait \in {"no", "link"}
  BY <1>1, <1>3, AtTake
<1> DEFINE q == peer[Own(t)]
<1>5. CASE q = 0
  <2>1. IsAt(t, "take") /\ NoPeer(t) /\ UNCHANGED links
    BY <1>2, <1>5 DEF Take, Linked, links
  <2>2. Calm
    BY <1>1, <2>1, NoPeerCalm
  <2> QED BY <1>1, <1>2, <2>1, <2>2, CalmKeeps
<1>6. CASE q # 0
  <2>1. q \in Pads /\ q # th[t].own
    <3>1. q \in Pads
      BY <1>1, <1>4, <1>6 DEF Own
    <3>2. \/ th[t].own \in Src /\ q \in Sink
          \/ th[t].own \in Sink /\ q \in Src
      BY <1>1, <1>4, <1>6 DEF Own, Pads, Shape
    <3> QED BY <3>1, <3>2, PadAssumption
  <2>2. /\ refs' = [refs EXCEPT ![q] = @ + 1]
        /\ \/ th' = [th EXCEPT ![t] = [th[t] EXCEPT !.other = q, !.at = @ + 1, !.wait = "no"]]
           \/ th' = [th EXCEPT ![t] = [th[t] EXCEPT !.other = q, !.at = @ + 1]] /\ th[t].wait = "no"
    BY <1>6 DEF Take, Linked, Set, IsAt
  <2>3. th' = [th EXCEPT ![t] = Peered(th[t], q)]
    <3>1. CASE th[t].wait = "no"
      <4>1. [th[t] EXCEPT !.other = q, !.at = @ + 1, !.wait = "no"]
               = [th[t] EXCEPT !.other = q, !.at = @ + 1]
        BY <1>4, <3>1 DEF ThreadStates
      <4> QED BY <2>2, <4>1 DEF Peered
    <3>2. CASE th[t].wait # "no"
      BY <2>2, <3>2 DEF Peered
    <3> QED BY <3>1, <3>2
  <2> HIDE DEF q
  <2>4. /\ Threadly' /\ (\A u \in Threads \ {t} : th'[u] = th[u])
        /\ \A p \in Pads : /\ HoldsOf(th[t], p) = 0
                           /\ HoldsOf(th'[t], p) = IF p = q THEN 1 ELSE 0
                           /\ ~Grips(th[t], p) /\ ~Grips(th'[t], p)
    BY <1>1, <1>3, <2>1, <2>3, TakeMoves
  <2>5. /\ refs' \in [Pads -> Int]
        /\ \A p \in Pads : refs'[p] = refs[p] + HoldsOf(th'[t], p) - HoldsOf(th[t], p)
    BY <1>1, <2>1, <2>2, <2>4
  <2> QED BY <1>2, <2>4, <2>5, RefsOnly
<1> QED BY <1>5, <1>6

-----------------------------------------------------------------------------
(* A pad that is being removed still has its element's reference, and is    *)
(* removed by one call.                                                     *)

Removing(u, p) == th[u].call = "destroy" /\ th[u].own = p

RemovedOnce ==
    /\ \A u \in Threads : th[u].call = "destroy" => th[u].own \in owned
    /\ \A u, v \in Threads : \A p \in Pads : Removing(u, p) /\ Removing(v, p) => u = v

(* A call that has begun keeps its name and its pad until it returns. *)
SameCall == \A u \in Threads : \/ th'[u].call = "idle"
                               \/ th'[u].call = th[u].call /\ th'[u].own = th[u].own

LEMMA SetSame ==
    ASSUME Threadly, NEW t \in Threads, NEW r, Set(t, r),
           r.call = "idle" \/ (r.call = th[t].call /\ r.own = th[t].own)
    PROVE  SameCall
BY DEF Set, SameCall, Threadly

LEMMA MovesSame ==
    ASSUME Threadly, NEW t \in Threads,
           \/ Forth(t) \/ Return(t)
           \/ \E s : JumpTo(t, s)
           \/ \E w : Waits(t, w)
    PROVE  SameCall
<1>1. th[t] \in ThreadStates
  BY DEF Threadly
<1>2. CASE Forth(t)
  <2> DEFINE r == [th[t] EXCEPT !.at = @ + 1, !.wait = "no", !.inner = FALSE]
  <2>1. r.call = th[t].call /\ r.own = th[t].own
    BY <1>1 DEF ThreadStates
  <2> QED BY <1>2, <2>1, SetSame DEF Forth
<1>3. CASE Return(t)
  <2>1. Idle.call = "idle"
    BY DEF Idle
  <2> QED BY <1>3, <2>1, SetSame DEF Return
<1>4. ASSUME NEW s, JumpTo(t, s) PROVE SameCall
  <2> DEFINE j == CHOOSE i \in 1 .. Len(Steps[th[t].call]) :
                     i > th[t].at /\ Steps[th[t].call][i] = s
             r == [th[t] EXCEPT !.wait = "no", !.inner = FALSE, !.at = j]
  <2>1. Set(t, r)
    BY <1>4 DEF JumpTo
  <2> HIDE DEF j
  <2>2. r.call = th[t].call /\ r.own = th[t].own
    BY <1>1 DEF ThreadStates
  <2> QED BY <2>1, <2>2, SetSame
<1>5. ASSUME NEW w, Waits(t, w) PROVE SameCall
  <2> DEFINE r == [th[t] EXCEPT !.wait = w]
  <2>1. r.call = th[t].call /\ r.own = th[t].own
    BY <1>1 DEF ThreadStates
  <2> QED BY <1>5, <2>1, SetSame DEF Waits
<1> QED BY <1>2, <1>3, <1>4, <1>5

LEMMA WokenCalls ==
    ASSUME Threadly, NEW p
    PROVE  \A u \in Threads : /\ Woken(p)[u].call = th[u].call /\ Woken(p)[u].own = th[u].own
                              /\ Woken(p)[u].wait = "asleep" => Woken(p)[u] = th[u]
<1> TAKE u \in Threads
<1>1. th[u] \in ThreadStates
  BY DEF Threadly
<1> DEFINE r == [th[u] EXCEPT !.wait = "lock"]
<1>2. r.call = th[u].call /\ r.own = th[u].own /\ r.wait = "lock"
  BY <1>1 DEF ThreadStates
<1>3. Woken(p)[u] \in {th[u], r}
  BY DEF Woken
<1> QED BY <1>2, <1>3

LEMMA GoOnSame ==
    ASSUME Threadly, NEW t \in Threads, GoOn(t)
    PROVE  SameCall
<1>1. th[t] \in ThreadStates
  BY DEF Threadly
<1>2. ASSUME NEW q
      PROVE  /\ [th[t] EXCEPT !.other = q, !.at = @ + 1].call = th[t].call
             /\ [th[t] EXCEPT !.other = q, !.at = @ + 1].own = th[t].own
             /\ [th[t] EXCEPT !.event = q, !.at = @ + 1].call = th[t].call
             /\ [th[t] EXCEPT !.event = q, !.at = @ + 1].own = th[t].own
             /\ [th[t] EXCEPT !.at = @ + 1, !.event = q].call = th[t].call
             /\ [th[t] EXCEPT !.at = @ + 1, !.event = q].own = th[t].own
             /\ [th[t] EXCEPT !.at = @ + 1, !.other = q].call = th[t].call
             /\ [th[t] EXCEPT !.at = @ + 1, !.other = q].own = th[t].own
             /\ [th[t] EXCEPT !.event = q].call = th[t].call
             /\ [th[t] EXCEPT !.event = q].own = th[t].own
             /\ [th[t] EXCEPT !.at = @ + 1, !.failed = q].call = th[t].call
             /\ [th[t] EXCEPT !.at = @ + 1, !.failed = q].own = th[t].own
             /\ [th[t] EXCEPT !.other = q, !.at = @ + 1, !.wait = "no"].call = th[t].call
             /\ [th[t] EXCEPT !.other = q, !.at = @ + 1, !.wait = "no"].own = th[t].own
             /\ [th[t] EXCEPT !.wait = "enter", !.inner = TRUE].call = th[t].call
             /\ [th[t] EXCEPT !.wait = "enter", !.inner = TRUE].own = th[t].own
  BY <1>1 DEF ThreadStates
<1>3. CASE LockFirst(t) \/ LockSecond(t) \/ Finish(t) \/ LinkTimeout(t) \/ Store(t) \/ Disown(t)
  BY <1>3, MovesSame DEF LockFirst, LockSecond, Finish, LinkTimeout, Store, Disown
<1>4. CASE Join(t)
  BY <1>2, <1>4, MovesSame, SetSame DEF Join
<1>5. CASE Replay(t)
  BY <1>2, <1>5, MovesSame, SetSame DEF Replay
<1>6. CASE Take(t)
  <2>1. CASE NoPeer(t)
    <3>1. th[t].call \in CallNames /\ th[t].call # "idle"
      BY <1>1, <1>6 DEF Take, IsAt, ThreadStates
    <3> QED BY <2>1, <3>1, MovesSame DEF NoPeer, CallNames
  <2>2. CASE Set(t, [th[t] EXCEPT !.other = peer[Own(t)], !.at = @ + 1])
    BY <1>2, <2>2, SetSame
  <2> QED BY <1>6, <2>1, <2>2 DEF Take
<1>7. CASE Split(t)
  BY <1>2, <1>7, MovesSame, SetSame DEF Split
<1>8. CASE Release(t)
  BY <1>2, <1>8, MovesSame, SetSame DEF Release
<1>9. CASE Drop(t)
  BY <1>2, <1>9, MovesSame, SetSame DEF Drop
<1>10. CASE Unlinked(t)
  BY <1>10, MovesSame DEF Unlinked
<1>11. CASE Linked(t)
  BY <1>2, <1>11, SetSame DEF Linked
<1>12. CASE Deliver(t)
  BY <1>2, <1>12, MovesSame, SetSame DEF Deliver
<1>13. CASE FastExit(t) \/ HandleBlock(t) \/ WaitUnblocked(t) \/ Collect(t)
  BY <1>13, MovesSame DEF FastExit, HandleBlock, WaitUnblocked, Collect, Passed
<1>14. Dropped(t) => SameCall
  BY MovesSame DEF Dropped
<1>15. CASE CallProbe(t)
  BY <1>2, <1>14, <1>15, MovesSame, SetSame DEF CallProbe
<1>16. CASE BlockCallback(t)
  <2> DEFINE W == Woken(At(t))
             r == IF th[t].inner THEN Landed(th[t], th[t].at + 1)
                  ELSE [th[t] EXCEPT !.wait = "probes"]
  <2>1. r.call = th[t].call /\ r.own = th[t].own
    BY <1>1 DEF ThreadStates, Landed
  <2>2. /\ \A u \in Threads : W[u].call = th[u].call /\ W[u].own = th[u].own
        /\ DOMAIN W = Threads
    BY WokenCalls DEF Woken
  <2>3. CASE th' = [W EXCEPT ![t] = r]
    <3> HIDE DEF W, r
    <3>1. th'[t] = r /\ \A u \in Threads \ {t} : th'[u] = W[u]
      BY <2>2, <2>3
    <3> QED BY <2>1, <2>2, <3>1 DEF SameCall
  <2> QED BY <1>14, <1>16, <2>3, MovesSame DEF BlockCallback, Landed
<1> QED BY <1>3, <1>4, <1>5, <1>6, <1>7, <1>8, <1>9, <1>10, <1>11, <1>12, <1>13, <1>15, <1>16
        DEF GoOn

LEMMA DisownKeeps ==
    ASSUME PadInv, RemovedOnce, NEW t \in Threads, Disown(t)
    PROVE  PadInv' /\ RemovedOnce'
<1>0. /\ Threadly /\ refs \in [Pads -> Int] /\ owned \subseteq Pads
      /\ UNCHANGED <<peer, lock, sticky, pushed, queued>>
  BY DEF PadInv, Shape, Disown, events
<1>1. /\ Sound(th[t]) /\ Step(t) = "disown" /\ Places(th[t].call, th[t].at, Step(t))
  BY <1>0, StepIs DEF Threadly, Disown, IsAt
<1>2. th[t].call = "destroy" /\ th[t].at = 6
  BY <1>1 DEF Places
<1>3. th[t].other = 0 /\ th[t].own \in owned
  BY <1>1, <1>2 DEF Sound, HasOther, Cutting, RemovedOnce
<1>4. Calm
  BY <1>0, <1>3, ReturnCalm DEF Disown
<1> DEFINE a == Own(t)
<1>5. /\ a \in Pads /\ a \in owned /\ owned' = owned \ {a} /\ 0 \notin Pads
      /\ refs' \in [Pads -> Int] /\ \A p \in Pads : refs'[p] = refs[p] - IF p = a THEN 1 ELSE 0
  <2>1. a \in Pads /\ a \in owned /\ 0 \notin Pads
    BY <1>0, <1>3, PadAssumption DEF Own
  <2>2. owned' = owned \ {a} /\ refs' = Counted(a, 0)
    BY DEF Disown
  <2> HIDE DEF a
  <2>3. /\ refs' \in [Pads -> Int]
        /\ \A p \in Pads : refs'[p] = refs[p] - IF p = a THEN 1 ELSE 0
    BY <1>0, <2>1, <2>2 DEF Counted
  <2> QED BY <2>1, <2>2, <2>3
<1>6. Shape'
  BY <1>0, <1>4, <1>5 DEF PadInv, Shape, Calm
<1>7. Locks'
  BY <1>0, <1>4 DEF PadInv, Locks, Calm
<1>8. Paired'
  BY <1>0 DEF PadInv, Paired
<1>9. RefsRight'
  <2> SUFFICES ASSUME NEW p \in Pads
               PROVE  refs'[p] = OwnerOf(p)' + LinkOf(p)' + Held(p)'
    BY DEF RefsRight
  <2>1. Held(p)' = Held(p)
    BY <1>0, <1>4, HeldCalm
  <2>2. Held(p) \in Nat
    <3>1. \A u \in Threads \ {t} : HoldsOf(th'[u], p) = HoldsOf(th[u], p)
      BY <1>4 DEF Calm
    <3> QED BY <1>0, <1>4, <3>1, HeldTurn DEF Calm
  <2>3. /\ OwnerOf(p)' = OwnerOf(p) - (IF p = a THEN 1 ELSE 0) /\ LinkOf(p)' = LinkOf(p)
        /\ OwnerOf(p) \in {0, 1} /\ LinkOf(p) \in {0, 1}
    <3> HIDE DEF a
    <3> QED BY <1>0, <1>5 DEF OwnerOf, LinkOf
  <2>4. refs[p] = OwnerOf(p) + LinkOf(p) + Held(p)
    BY DEF PadInv, RefsRight
  <2> HIDE DEF a
  <2> QED BY <1>5, <2>1, <2>2, <2>3, <2>4
<1>10. RemovedOnce'
  <2>1. /\ th'[t] = Idle /\ Idle.call = "idle" /\ \A u \in Threads \ {t} : th'[u] = th[u]
    BY <1>0, IdleSound, Turn DEF Disown, Return, Set, Idle
  <2>2. ASSUME NEW u \in Threads, th'[u].call = "destroy" PROVE th'[u].own \in owned'
    <3>1. u # t /\ th'[u] = th[u] /\ th[u].call = "destroy" /\ th[u].own \in owned
      BY <2>1, <2>2 DEF RemovedOnce
    <3>2. th[u].own # a
      BY <1>2, <1>5, <3>1 DEF RemovedOnce, Removing, Own
    <3> QED BY <1>5, <3>1, <3>2
  <2>3. \A u, v \in Threads : \A p \in Pads : Removing(u, p)' /\ Removing(v, p)' => u = v
    BY <2>1 DEF RemovedOnce, Removing
  <2> QED BY <2>2, <2>3 DEF RemovedOnce
<1> QED BY <1>6, <1>7, <1>8, <1>9, <1>10 DEF PadInv

LEMMA SameCallKeeps ==
    ASSUME RemovedOnce, SameCall, UNCHANGED owned PROVE RemovedOnce'
BY DEF RemovedOnce, SameCall, Removing

LEMMA BeginKeepsRemoved ==
    ASSUME RemovedOnce, Threadly, NEW t \in Threads, BeginCall(t) \/ BeginLink(t) \/ BeginEvent(t)
    PROVE  RemovedOnce'
<1>1. owned' = owned
  BY DEF BeginCall, BeginLink, BeginEvent, links
<1>2. PICK r : /\ Set(t, r)
               /\ \/ r.call # "destroy"
                  \/ /\ r.own \in owned
                     /\ \A u \in Threads : ~(th[u].call = "destroy" /\ th[u].own = r.own)
  <2>1. CASE BeginLink(t)
    <3>1. PICK p \in Src, k \in Sink : Set(t, Entered("link", p, k))
      BY <2>1 DEF BeginLink
    <3>2. Entered("link", p, k).call = "link"
      BY DEF Entered, Idle
    <3> QED BY <3>1, <3>2
  <2>2. CASE BeginEvent(t)
    <3>1. PICK p \in Src : Set(t, [Entered("event", p, 0) EXCEPT !.event = pushed[p] + 1])
      BY <2>2 DEF BeginEvent
    <3>2. [Entered("event", p, 0) EXCEPT !.event = pushed[p] + 1].call = "event"
      BY DEF Entered, Idle
    <3> QED BY <3>1, <3>2
  <2>3. CASE BeginCall(t)
    <3>1. PICK p \in Pads, call \in {"push", "pull", "upstream", "unlink", "destroy"} :
             Begin(t, call, p) /\ Set(t, Entered(call, p, 0))
      BY <2>3 DEF BeginCall
    <3>2. Entered(call, p, 0).call = call /\ Entered(call, p, 0).own = p
      BY DEF Entered, Idle
    <3>3. p \in owned /\ \A u \in Threads : ~(th[u].call = "destroy" /\ th[u].own = p)
      BY <3>1 DEF Begin
    <3> QED BY <3>1, <3>2, <3>3
  <2> QED BY <2>1, <2>2, <2>3
<1>3. th'[t] = r /\ \A u \in Threads \ {t} : th'[u] = th[u]
  BY <1>2 DEF Set, Threadly
<1>4. ASSUME NEW u \in Threads, th'[u].call = "destroy" PROVE th'[u].own \in owned'
  BY <1>1, <1>2, <1>3, <1>4 DEF RemovedOnce
<1>5. ASSUME NEW u \in Threads, NEW v \in Threads, NEW p \in Pads,
             Removing(u, p)', Removing(v, p)'
      PROVE  u = v
  BY <1>2, <1>3, <1>5 DEF RemovedOnce, Removing
<1> QED BY <1>4, <1>5 DEF RemovedOnce

-----------------------------------------------------------------------------
Inv == PadInv /\ RemovedOnce

LEMMA QueueRoom == MaxQueued \in Nat /\ 0 \in 0 .. MaxQueued
<1>1. MaxQueued \in Nat
  BY PadAssumption
<1> QED BY ONLY <1>1

LEMMA PadInit == Init => Inv
<1> SUFFICES ASSUME Init PROVE Inv
  OBVIOUS
<1>1. PICK q \in Src, k \in Sink :
         peer = [p \in Pads |-> IF p = q THEN k ELSE IF p = k THEN q ELSE 0]
  BY DEF Init
<1>2. /\ q \in Pads /\ k \in Pads /\ q # k /\ 0 \notin Pads /\ q \notin Sink /\ k \notin Src
  BY PadAssumption DEF Pads
<1>3. th = [t \in Threads |-> Idle] /\ Sound(Idle) /\ Idle.call = "idle" /\ Idle \in ThreadStates
  BY IdleSound DEF Init, Idle, Sound
<1>4. Threadly /\ \A t \in Threads, p \in Pads : HoldsOf(th[t], p) = 0 /\ ~Grips(th[t], p)
  <2>1. th \in [Threads -> ThreadStates] /\ \A t \in Threads : th[t] = Idle
    BY <1>3
  <2> QED BY <1>3, <2>1, IdleSound DEF Threadly
<1>5. /\ peer \in [Pads -> Pads \cup {0}]
      /\ \A p \in Src : peer[p] \in Sink \cup {0}
      /\ \A p \in Sink : peer[p] \in Src \cup {0}
  BY <1>1, <1>2 DEF Pads
<1>6. Shape
  <2>1. 0 \in 0 .. MaxQueued
    BY QueueRoom
  <2>2. lock \in [Pads -> Threads \cup {""}] /\ owned \subseteq Pads /\ refs \in [Pads -> Int]
    <3>1. lock = [p \in Pads |-> ""] /\ owned = Pads
      BY DEF Init
    <3>2. refs = [p \in Pads |-> IF peer[p] = 0 THEN 1 ELSE 2]
      BY DEF Init
    <3>3. refs \in [Pads -> Int]
      <4>1. \A p \in Pads : (IF peer[p] = 0 THEN 1 ELSE 2) \in Int
        OBVIOUS
      <4> QED BY ONLY <3>2, <4>1
    <3> QED BY <3>1, <3>3
  <2>3. /\ sticky \in [Src -> Nat] /\ pushed \in [Src -> Nat] /\ queued \in [Src -> 0 .. MaxQueued]
    <3>1. /\ sticky = [p \in Src |-> 0] /\ pushed = [p \in Src |-> 0]
          /\ queued = [p \in Src |-> 0]
      BY DEF Init
    <3> QED BY <2>1, <3>1
  <2> QED BY <1>4, <1>5, <2>2, <2>3 DEF Shape
<1>7. Locks
  <2>1. \A p \in Pads : lock[p] = ""
    BY DEF Init
  <2> QED BY <2>1, <1>4, PadAssumption DEF Locks
<1>8. Paired
  BY <1>1, <1>2 DEF Paired
<1>9. RefsRight
  <2> SUFFICES ASSUME NEW p \in Pads PROVE refs[p] = OwnerOf(p) + LinkOf(p) + Held(p)
    BY DEF RefsRight
  <2>1. \A t \in Threads : Holds(t, p) = 0
    BY <1>4, HoldsIs
  <2>2. HeldBy(p) = {} /\ HeldTwiceBy(p) = {}
    BY <2>1 DEF HeldBy, HeldTwiceBy
  <2>3. Held(p) = 0
    BY <2>2, FS_EmptySet DEF Held
  <2>4. refs[p] = (IF peer[p] = 0 THEN 1 ELSE 2) /\ p \in owned
    BY DEF Init
  <2> QED BY <2>3, <2>4 DEF OwnerOf, LinkOf
<1>10. RemovedOnce
  BY <1>3 DEF RemovedOnce, Removing
<1> QED BY <1>6, <1>7, <1>8, <1>9, <1>10 DEF Inv, PadInv

LEMMA PadStep == Inv /\ [Next]_vars => Inv'
<1> SUFFICES ASSUME Inv, [Next]_vars PROVE Inv'
  OBVIOUS
<1>0. PadInv /\ RemovedOnce /\ Shape /\ Threadly
      /\ sticky \in [Src -> Nat] /\ pushed \in [Src -> Nat] /\ queued \in [Src -> 0 .. MaxQueued]
  BY DEF Inv, PadInv, Shape
<1>1. CASE UNCHANGED vars
  <2>1. Calm
    BY <1>0, <1>1 DEF Calm, Threadly, vars
  <2>2. UNCHANGED <<links, sticky, pushed, queued, owned, th>>
    BY <1>1 DEF vars, links
  <2>3. PadInv'
    BY <1>0, <2>1, <2>2, CalmKeeps
  <2>4. RemovedOnce'
    BY <1>0, <2>2 DEF RemovedOnce, Removing
  <2> QED BY <2>3, <2>4 DEF Inv
<1>2. ASSUME NEW t \in Threads, GoOn(t) PROVE Inv'
  <2>0. SameCall
    BY <1>0, <1>2, GoOnSame
  <2>1. CASE Disown(t)
    BY <1>0, <2>1, DisownKeeps DEF Inv
  <2>2. owned' = owned => RemovedOnce'
    BY <1>0, <2>0, SameCallKeeps
  <2>3. CASE LockFirst(t) \/ LockSecond(t)
    BY <1>0, <2>2, <2>3, LockKeeps DEF Inv, LockFirst, LockSecond
  <2>4. CASE Join(t)
    BY <1>0, <2>2, <2>4, JoinKeeps DEF Inv, Join
  <2>5. CASE Split(t)
    BY <1>0, <2>2, <2>5, SplitKeeps DEF Inv, Split
  <2>6. CASE Release(t) \/ Drop(t)
    BY <1>0, <2>2, <2>6, ReleaseKeeps DEF Inv, Release, Drop
  <2>7. CASE Take(t) \/ Linked(t)
    BY <1>0, <2>2, <2>7, TakeKeeps DEF Inv, Take, Linked
  <2>8. ASSUME Calm, UNCHANGED links, sticky' \in [Src -> Nat], pushed' \in [Src -> Nat],
               queued' \in [Src -> 0 .. MaxQueued]
        PROVE  Inv'
    BY <1>0, <2>2, <2>8, CalmKeeps DEF Inv, links
  <2>9. CASE Replay(t)
    BY <1>0, <2>8, <2>9, ReplayCalm DEF Replay, events
  <2>10. CASE LinkTimeout(t) \/ Finish(t)
    BY <1>0, <2>8, <2>10, UnlinkedCalm DEF LinkTimeout, Finish, events
  <2>11. CASE Unlinked(t)
    <3>1. Calm /\ UNCHANGED <<links, sticky, pushed>>
      BY <1>0, <2>11, UnlinkedCalm DEF Unlinked, events
    <3>2. queued' \in [Src -> 0 .. MaxQueued]
      <4>1. queued' = queued \/ (MayQueue(Own(t)) /\ queued' = [queued EXCEPT ![Own(t)] = @ + 1])
        BY <2>11 DEF Unlinked
      <4>2. Own(t) \in Src
        BY <1>0, <2>11 DEF Unlinked, Threadly, Sound, Own
      <4>3. MaxQueued \in Nat
        BY PadAssumption
      <4> QED BY <1>0, <4>1, <4>2, <4>3 DEF MayQueue
    <3> QED BY <1>0, <2>8, <3>1, <3>2
  <2>12. CASE Store(t)
    <3>1. Calm /\ UNCHANGED <<links, pushed, queued>>
      BY <1>0, <2>12, DeliverCalm DEF Store
    <3>2. sticky' \in [Src -> Nat]
      <4>1. th[t].event \in Nat
        BY <1>0 DEF Threadly, ThreadStates
      <4> QED BY <1>0, <2>12, <4>1 DEF Store
    <3> QED BY <1>0, <2>8, <3>1, <3>2
  <2>13. CASE Deliver(t)
    BY <1>0, <2>8, <2>13, DeliverCalm DEF Deliver
  <2>14. CASE FastExit(t) \/ HandleBlock(t) \/ WaitUnblocked(t) \/ Collect(t)
    BY <1>0, <2>8, <2>14, ProbeCalm DEF FastExit, HandleBlock, WaitUnblocked, Collect, events
  <2>15. CASE BlockCallback(t)
    BY <1>0, <2>8, <2>15, BlockCallbackCalm DEF BlockCallback, events
  <2>16. CASE CallProbe(t)
    BY <1>0, <2>8, <2>16, CallProbeCalm DEF CallProbe, events
  <2> QED BY <1>2, <2>1, <2>3, <2>4, <2>5, <2>6, <2>7, <2>9, <2>10, <2>11, <2>12, <2>13, <2>14,
             <2>15, <2>16 DEF GoOn
<1>3. ASSUME NEW t \in Threads, BeginCall(t) \/ BeginLink(t) \/ BeginEvent(t) PROVE Inv'
  <2>1. Calm /\ RemovedOnce'
    BY <1>0, <1>3, BeginCalm, BeginKeepsRemoved
  <2>2. UNCHANGED <<links, sticky, queued>>
    BY <1>3 DEF BeginCall, BeginLink, BeginEvent, events
  <2>3. pushed' \in [Src -> Nat]
    <3>1. CASE BeginEvent(t)
      <4>1. PICK p \in Src : pushed' = [pushed EXCEPT ![p] = @ + 1]
        BY <3>1 DEF BeginEvent
      <4> QED BY <1>0, <4>1
    <3>2. CASE BeginCall(t) \/ BeginLink(t)
      BY <1>0, <3>2 DEF BeginCall, BeginLink, events
    <3> QED BY <1>3, <3>1, <3>2
  <2> QED BY <1>0, <2>1, <2>2, <2>3, CalmKeeps DEF Inv
<1>4. ASSUME NEW t \in Threads, Block(t) \/ SetBlockCallback(t) \/ ChangeProbes(t) \/ SetPolicy(t)
      PROVE  Inv'
  <2>1. UNCHANGED <<links, owned, events, th>>
    BY <1>4 DEF Block, SetBlockCallback, ChangeProbes, SetPolicy, links
  <2>2. Calm /\ RemovedOnce'
    BY <1>0, <2>1 DEF Calm, Threadly, RemovedOnce, Removing
  <2>3. queued' \in [Src -> 0 .. MaxQueued]
    <3>1. 0 \in 0 .. MaxQueued
      BY QueueRoom
    <3>2. queued' = queued \/ \E p \in Src : queued' = [queued EXCEPT ![p] = 0]
      BY <1>4 DEF Block, SetBlockCallback, ChangeProbes, SetPolicy
    <3> QED BY <1>0, <3>1, <3>2
  <2> QED BY <1>0, <2>1, <2>2, <2>3, CalmKeeps DEF Inv, events
<1>5. ASSUME NEW t \in Threads, Unblock(t) PROVE Inv'
  <2>1. UNCHANGED <<links, owned, queued, sticky, pushed>> /\ Calm
    BY <1>0, <1>5, UnblockCalm DEF Unblock, links, events
  <2>2. \A u \in Threads : th'[u].call = th[u].call /\ th'[u].own = th[u].own
    BY <1>0, <1>5, WokenCalls DEF Unblock
  <2>3. RemovedOnce'
    BY <1>0, <2>1, <2>2 DEF RemovedOnce, Removing
  <2> QED BY <1>0, <2>1, <2>3, CalmKeeps DEF Inv
<1> QED BY <1>1, <1>2, <1>3, <1>4, <1>5 DEF Next

(* The counts as PeersExact states them *)
LEMMA RefsBound ==
    ASSUME Threadly, NEW p \in Pads
    PROVE  Held(p) \in 0 .. 2 * Cardinality(Threads)
<1> DEFINE A == HeldBy(p)
           B == HeldTwiceBy(p)
<1>1. A \subseteq Threads /\ B \subseteq Threads /\ A \cap B = {}
  BY DEF HeldBy, HeldTwiceBy
<1>2. IsFiniteSet(Threads) /\ IsFiniteSet(A) /\ IsFiniteSet(B) /\ A \cup B \subseteq Threads
  BY <1>1, PadAssumption, FS_Subset
<1> HIDE DEF A, B
<1>3. Cardinality(A) \in Nat /\ Cardinality(B) \in Nat /\ Cardinality(Threads) \in Nat
  BY <1>2, FS_CardinalityType
<1>4. Cardinality(A \cup B) <= Cardinality(Threads)
  BY <1>2, FS_Subset
<1>5. Cardinality(A \cup B) = Cardinality(A) + Cardinality(B)
  <2>1. Cardinality(A \cup B) = Cardinality(A) + Cardinality(B) - Cardinality(A \cap B)
    BY <1>2, FS_Union
  <2>2. Cardinality(A \cap B) = 0
    BY <1>1, FS_EmptySet
  <2> QED BY <2>1, <2>2, <1>3
<1>6. Held(p) = Cardinality(A) + 2 * Cardinality(B)
  BY DEF Held, A, B
<1> QED BY <1>3, <1>4, <1>5, <1>6

LEMMA PadInvImplies == PadInv => PeersExact
<1> SUFFICES ASSUME PadInv PROVE PeersExact
  OBVIOUS
<1>0. Threadly /\ Shape /\ Cardinality(Threads) \in Nat
  BY PadAssumption, FS_CardinalityType DEF PadInv, Shape
<1>1. \A p \in Pads : /\ refs[p] = OwnerOf(p) + LinkOf(p) + Held(p)
                      /\ OwnerOf(p) \in {0, 1} /\ LinkOf(p) \in {0, 1}
                      /\ Held(p) \in 0 .. 2 * Cardinality(Threads)
  BY <1>0, RefsBound DEF PadInv, RefsRight, OwnerOf, LinkOf
<1>2. TypeOK
  <2>1. \A p \in Pads : refs[p] \in 0 .. 2 + 2 * Cardinality(Threads)
    BY <1>0, <1>1
  <2> QED BY <2>1 DEF TypeOK, PadInv, Shape
<1>3. RefsExact
  <2> SUFFICES ASSUME NEW p \in Pads
               PROVE  refs[p] = Cardinality({p} \cap owned) + (IF peer[p] # 0 THEN 1 ELSE 0)
                         + Cardinality(HeldBy(p)) + 2 * Cardinality(HeldTwiceBy(p))
    BY DEF RefsExact
  <2>1. Cardinality({p} \cap owned) = OwnerOf(p)
    <3>1. CASE p \in owned
      <4>1. {p} \cap owned = {p}
        BY <3>1
      <4> QED BY <3>1, <4>1, FS_Singleton DEF OwnerOf
    <3>2. CASE p \notin owned
      <4>1. {p} \cap owned = {}
        BY <3>2
      <4> QED BY <3>2, <4>1, FS_EmptySet DEF OwnerOf
    <3> QED BY <3>1, <3>2
  <2>2. Cardinality(HeldBy(p)) \in Nat /\ Cardinality(HeldTwiceBy(p)) \in Nat
    <3>1. HeldBy(p) \subseteq Threads /\ HeldTwiceBy(p) \subseteq Threads
      BY DEF HeldBy, HeldTwiceBy
    <3> QED BY <3>1, PadAssumption, FS_Subset, FS_CardinalityType
  <2> QED BY <1>1, <2>1, <2>2 DEF LinkOf, Held
<1>4. Symmetric
  <2> SUFFICES ASSUME NEW p \in Pads, peer[p] # 0 PROVE peer[peer[p]] = p /\ refs[p] > 0
    BY DEF Symmetric
  <2>1. LinkOf(p) = 1
    BY DEF LinkOf
  <2> QED BY <1>0, <1>1, <2>1 DEF PadInv, Paired
<1> QED BY <1>2, <1>3, <1>4 DEF PeersExact

(* Two linked pads point at each other, and every pad's refcount is its    *)
(* element, its link and the calls that hold it, through every race of     *)
(* links, unlinks, pushes, pulls, events and removals of any number of     *)
(* threads (zst_pad.c: zst_pad_link, zst_pad_unlink, pad_take_peer).       *)
THEOREM PeersAlwaysExact == Spec => []PeersExact
<1>1. Init => Inv
  BY PadInit
<1>2. Inv /\ [Next]_vars => Inv'
  BY PadStep
<1>3. Inv => PeersExact
  BY PadInvImplies DEF Inv
<1> QED BY <1>1, <1>2, <1>3, PTL DEF Spec

-----------------------------------------------------------------------------
(* Waiting for link locks.                                                  *)

(* A finite set of numbers has a greatest one: the one with the fewest     *)
(* above it.                                                               *)
LEMMA GreatestExists ==
    ASSUME NEW T, T \subseteq Nat, IsFiniteSet(T), T # {}
    PROVE  \E x \in T : \A y \in T : y <= x
<1> DEFINE Above(x) == {y \in T : y > x}
           C == {Cardinality(Above(x)) : x \in T}
<1>1. \A x \in T : IsFiniteSet(Above(x)) /\ Cardinality(Above(x)) \in Nat
  <2> TAKE x \in T
  <2>1. Above(x) \subseteq T
    OBVIOUS
  <2> HIDE DEF Above
  <2> QED BY <2>1, FS_Subset, FS_CardinalityType
<1>2. C \subseteq Nat /\ C # {}
  <2> HIDE DEF Above
  <2> QED BY <1>1
<1>3. PICK n \in C : \A m \in C : ~(<<m, n>> \in OpToRel(<, Nat))
  <2> HIDE DEF C
  <2>1. IsWellFoundedOn(OpToRel(<, Nat), Nat)
    BY NatLessThanWellFounded
  <2> DEFINE R == OpToRel(<, Nat)
  <2> HIDE DEF R
  <2>2. IsWellFoundedOn(R, Nat)
    BY <2>1 DEF R
  <2>3. \E x \in C : \A y \in C : ~(<<y, x>> \in R)
    BY ONLY <2>2, <1>2, WFMin
  <2> QED BY <2>3 DEF R
<1>4. \A m \in C : n <= m
  <2> HIDE DEF C
  <2> TAKE m \in C
  <2>1. <<m, n>> \in Nat \X Nat /\ m \in Nat /\ n \in Nat
    BY <1>2
  <2>2. ~(m < n)
    BY <1>3, <2>1 DEF OpToRel
  <2> QED BY <2>1, <2>2
<1>5. PICK x \in T : n = Cardinality(Above(x))
  BY <1>3
<1>6. SUFFICES ASSUME NEW y \in T, y > x PROVE FALSE
  OBVIOUS
<1>7. Above(y) \subseteq Above(x) /\ Above(y) # Above(x)
  <2>1. y \in Above(x) /\ y \notin Above(y)
    <3>1. y \in Nat /\ x \in Nat
      OBVIOUS
    <3>2. ~(y > y)
      BY <3>1
    <3> QED BY <1>6, <3>2
  <2>2. Above(y) \subseteq Above(x)
    <3>1. \A z \in T : z \in Nat /\ y \in Nat /\ x \in Nat
      OBVIOUS
    <3>2. \A z \in T : z > y => z > x
      BY <1>6, <3>1
    <3> QED BY <3>2
  <2> HIDE DEF Above
  <2> QED BY <2>1, <2>2
<1>8. Cardinality(Above(y)) < Cardinality(Above(x))
  <2> HIDE DEF Above
  <2> QED BY ONLY <1>1, <1>5, <1>7, FS_Subset
<1>9. Cardinality(Above(y)) \in C
  <2> HIDE DEF Above
  <2> QED OBVIOUS
<1> HIDE DEF Above, C
<1> QED BY <1>1, <1>4, <1>5, <1>8, <1>9

(* The lock a thread waits for is one of a pad's; a thread that waits while *)
(* it has a lock has the lower one of its two pads and waits for the other. *)
LEMMA NeedsPad ==
    ASSUME Threadly, NEW t \in Threads, Needs(t) # 0
    PROVE  /\ Needs(t) \in Pads
           /\ \A p \in Pads : Grips(th[t], p) => p < Needs(t)
<1>1. /\ Sound(th[t]) /\ th[t] \in ThreadStates /\ Places(th[t].call, th[t].at, Step(t))
      /\ Step(t) = StepOf(th[t].call, th[t].at)
  BY StepIs DEF Threadly
<1>2. Pads \subseteq Nat /\ 0 \notin Pads /\ Src \cap Sink = {}
  BY PadAssumption
<1>3. Order(t)[1] = Lower(th[t]) /\ Order(t)[2] = Upper(th[t])
  BY DEF Order, Lower, Upper, Own, Other
<1>4. CASE IsAt(t, "first")
  <2>1. Needs(t) = Lower(th[t])
    <3>1. ~IsAt(t, "second") /\ ~IsAt(t, "take") /\ th[t].wait # "link"
      BY <1>4 DEF IsAt
    <3> QED BY <1>3, <1>4, <3>1 DEF Needs
  <2>2. (th[t].call = "link" /\ th[t].at = 1) \/ (th[t].call \in Cutting /\ th[t].at = 2)
    BY <1>1, <1>4 DEF IsAt, Places, Cutting
  <2>3. \A p \in Pads : ~Grips(th[t], p)
    BY <2>2 DEF Grips, HasFirst, HasBoth, Cutting
  <2>4. th[t].own \in Pads /\ th[t].other \in Pads \cup {0}
    BY <1>1, <2>2 DEF Sound, ThreadStates, Cutting
  <2> QED BY <2>1, <2>3, <2>4 DEF Lower
<1>5. CASE IsAt(t, "second")
  <2>1. Needs(t) = Upper(th[t])
    <3>1. ~IsAt(t, "first") /\ ~IsAt(t, "take") /\ th[t].wait # "link"
      BY <1>5 DEF IsAt
    <3> QED BY <1>3, <1>5, <3>1 DEF Needs
  <2>2. HasFirst(th[t]) /\ ~HasBoth(th[t])
    BY <1>1, <1>5 DEF IsAt, Places, Cutting, HasFirst, HasBoth
  <2>3. th[t].own \in Pads /\ th[t].other \in Pads /\ th[t].own # th[t].other
    <3>1. th[t].call \in Cutting \cup {"link"} /\ th[t].at \in Nat /\ HasOther(th[t])
      BY <1>1, <2>2 DEF HasFirst, Cutting, HasOther, ThreadStates
    <3>2. th[t].own \in Pads /\ th[t].other \in Pads
      BY <1>1, <3>1 DEF Sound, ThreadStates, Cutting
    <3>3. CASE th[t].call = "link"
      BY <1>1, <1>2, <2>2, <3>2, <3>3 DEF Sound, HasFirst, Cutting
    <3>4. CASE th[t].call \in Cutting
      BY <1>1, <3>2, <3>4 DEF Sound
    <3> QED BY <3>1, <3>2, <3>3, <3>4
  <2>4. th[t].own \in Nat /\ th[t].other \in Nat
    BY <1>2, <2>3
  <2>5. Upper(th[t]) \in Pads /\ Lower(th[t]) < Upper(th[t])
    BY <2>3, <2>4 DEF Lower, Upper
  <2> QED BY <2>1, <2>2, <2>5 DEF Grips
<1>6. CASE (IsAt(t, "take") \/ th[t].wait = "link") /\ ~IsAt(t, "first") /\ ~IsAt(t, "second")
  <2>1. Needs(t) = th[t].own
    BY <1>6 DEF Needs, Own
  <2>2. th[t].call # "idle" /\ Step(t) = "take"
    BY <1>1, <1>6 DEF IsAt, Sound, Places
  <2> QED BY <1>1, <2>1, <2>2, NoGrip DEF Sound
<1> QED BY <1>4, <1>5, <1>6 DEF Needs

LEMMA LocksOrdered == PadInv => NoLockCycle
<1> SUFFICES ASSUME PadInv, NEW S \in (SUBSET Threads) \ {{}},
                    \A t \in S : Needs(t) # 0 /\ lock[Needs(t)] \in S
             PROVE  FALSE
  BY DEF NoLockCycle
<1>0. Threadly /\ S \subseteq Threads /\ S # {} /\ Locks /\ Pads \subseteq Nat /\ IsFiniteSet(Pads)
  BY PadAssumption DEF PadInv, Shape
<1> DEFINE T == {Needs(t) : t \in S}
<1>1. T \subseteq Pads /\ T # {}
  BY <1>0, NeedsPad
<1>2. T \subseteq Nat /\ IsFiniteSet(T)
  BY <1>0, <1>1, FS_Subset
<1>3. PICK x \in T : \A y \in T : y <= x
  <2> HIDE DEF T
  <2> QED BY ONLY <1>1, <1>2, GreatestExists
<1>4. PICK t \in S : x = Needs(t)
  BY <1>3
<1>5. lock[x] \in S /\ x \in Pads
  BY <1>1, <1>4
<1>6. Grips(th[lock[x]], x)
  BY <1>0, <1>5 DEF Locks
<1>7. x < Needs(lock[x])
  BY <1>0, <1>5, <1>6, NeedsPad
<1>8. Needs(lock[x]) \in T
  BY <1>5
<1>9. Needs(lock[x]) <= x /\ Needs(lock[x]) \in Nat /\ x \in Nat
  BY <1>2, <1>3, <1>8
<1> QED BY <1>7, <1>9

(* Threads never wait for each other's link locks in a circle, whatever    *)
(* pads they link, unlink, push on and remove: pad_lock_pair takes the two *)
(* locks in the order of the addresses, so along a chain of waiters the    *)
(* awaited pad only grows (zst_pad.c: pad_lock_pair).                      *)
THEOREM LocksNeverCycle == Spec => []NoLockCycle
<1>1. Inv => NoLockCycle
  BY LocksOrdered DEF Inv
<1> QED BY <1>1, PadInit, PadStep, PTL DEF Spec

-----------------------------------------------------------------------------
(* Sleepers at a blocked pad.                                               *)

(* Who is asleep after the step was asleep before it, at the same pad. *)
Still == \A u \in Threads : th'[u].wait = "asleep" => th'[u] = th[u]

LEMMA SetStill ==
    ASSUME Threadly, NEW t \in Threads, NEW r, Set(t, r), r.wait # "asleep" PROVE Still
BY DEF Set, Still, Threadly

LEMMA MovesStill ==
    ASSUME Threadly, NEW t \in Threads,
           \/ Forth(t) \/ Return(t)
           \/ \E s : JumpTo(t, s)
           \/ \E w : w # "asleep" /\ Waits(t, w)
    PROVE  Still
<1>1. th[t] \in ThreadStates
  BY DEF Threadly
<1>2. CASE Forth(t)
  <2> DEFINE r == [th[t] EXCEPT !.at = @ + 1, !.wait = "no", !.inner = FALSE]
  <2>1. r.wait = "no"
    BY <1>1 DEF ThreadStates
  <2> QED BY <1>2, <2>1, SetStill DEF Forth
<1>3. CASE Return(t)
  <2>1. Idle.wait = "no"
    BY DEF Idle
  <2> QED BY <1>3, <2>1, SetStill DEF Return
<1>4. ASSUME NEW s, JumpTo(t, s) PROVE Still
  <2> DEFINE j == CHOOSE i \in 1 .. Len(Steps[th[t].call]) :
                     i > th[t].at /\ Steps[th[t].call][i] = s
             r == [th[t] EXCEPT !.wait = "no", !.inner = FALSE, !.at = j]
  <2>1. Set(t, r)
    BY <1>4 DEF JumpTo
  <2> HIDE DEF j
  <2>2. r.wait = "no"
    BY <1>1 DEF ThreadStates
  <2> QED BY <2>1, <2>2, SetStill
<1>5. ASSUME NEW w, w # "asleep", Waits(t, w) PROVE Still
  <2> DEFINE r == [th[t] EXCEPT !.wait = w]
  <2>1. r.wait = w
    BY <1>1 DEF ThreadStates
  <2> QED BY <1>5, <2>1, SetStill DEF Waits
<1> QED BY <1>2, <1>3, <1>4, <1>5

LEMMA GoOnStill ==
    ASSUME Threadly, NEW t \in Threads, GoOn(t), ~WaitUnblocked(t), ~BlockCallback(t)
    PROVE  Still
<1>1. th[t] \in ThreadStates
  BY DEF Threadly
<1>2. ASSUME NEW q, th[t].wait = "no"
      PROVE  /\ [th[t] EXCEPT !.other = q, !.at = @ + 1].wait = "no"
             /\ [th[t] EXCEPT !.event = q, !.at = @ + 1].wait = "no"
             /\ [th[t] EXCEPT !.at = @ + 1, !.event = q].wait = "no"
             /\ [th[t] EXCEPT !.at = @ + 1, !.other = q].wait = "no"
             /\ [th[t] EXCEPT !.event = q].wait = "no"
             /\ [th[t] EXCEPT !.at = @ + 1, !.failed = q].wait = "no"
  BY <1>1, <1>2 DEF ThreadStates
<1>3. CASE LockFirst(t) \/ LockSecond(t) \/ Finish(t) \/ LinkTimeout(t) \/ Store(t) \/ Disown(t)
  BY <1>3, MovesStill DEF LockFirst, LockSecond, Finish, LinkTimeout, Store, Disown
<1>4. CASE Join(t)
  BY <1>2, <1>4, MovesStill, SetStill DEF Join, IsAt
<1>5. CASE Replay(t)
  BY <1>2, <1>5, MovesStill, SetStill DEF Replay, IsAt
<1>6. CASE Take(t)
  <2>0. th[t].wait = "no"
    BY <1>6 DEF Take, IsAt
  <2>1. CASE NoPeer(t)
    <3>1. th[t].call \in CallNames /\ th[t].call # "idle"
      BY <1>1, <1>6 DEF Take, IsAt, ThreadStates
    <3> QED BY <2>1, <3>1, MovesStill DEF NoPeer, CallNames
  <2>2. CASE Set(t, [th[t] EXCEPT !.other = peer[Own(t)], !.at = @ + 1])
    BY <1>2, <2>0, <2>2, SetStill
  <2> QED BY <1>6, <2>1, <2>2 DEF Take
<1>7. CASE Split(t)
  BY <1>2, <1>7, MovesStill, SetStill DEF Split, IsAt
<1>8. CASE Release(t)
  BY <1>2, <1>8, MovesStill, SetStill DEF Release, IsAt
<1>9. CASE Drop(t)
  BY <1>2, <1>9, MovesStill, SetStill DEF Drop, IsAt
<1>10. CASE Unlinked(t)
  BY <1>10, MovesStill DEF Unlinked
<1>11. CASE Linked(t)
  <2> DEFINE r == [th[t] EXCEPT !.other = peer[Own(t)], !.at = @ + 1, !.wait = "no"]
  <2>1. r.wait = "no"
    BY <1>1 DEF ThreadStates
  <2> QED BY <1>11, <2>1, SetStill DEF Linked
<1>12. CASE Deliver(t)
  BY <1>2, <1>12, MovesStill, SetStill DEF Deliver, IsAt
<1>13. CASE FastExit(t) \/ HandleBlock(t) \/ Collect(t)
  BY <1>13, MovesStill DEF FastExit, HandleBlock, Collect, Passed
<1>14. Dropped(t) => Still
  BY MovesStill DEF Dropped
<1>15. CASE CallProbe(t)
  <2> DEFINE r == [th[t] EXCEPT !.wait = "enter", !.inner = TRUE]
  <2>1. r.wait = "enter"
    BY <1>1 DEF ThreadStates
  <2> QED BY <1>14, <1>15, <2>1, MovesStill, SetStill DEF CallProbe
<1> QED BY <1>3, <1>4, <1>5, <1>6, <1>7, <1>8, <1>9, <1>10, <1>11, <1>12, <1>13, <1>15 DEF GoOn

LEMMA BeginStill ==
    ASSUME Threadly, NEW t \in Threads, BeginCall(t) \/ BeginLink(t) \/ BeginEvent(t)
    PROVE  Still
<1>1. \A call, p, k : Entered(call, p, k).wait = "no"
  BY DEF Entered, Idle
<1>2. \A p, e : [Entered("event", p, 0) EXCEPT !.event = e].wait = "no"
  BY DEF Entered, Idle
<1> QED BY <1>1, <1>2, SetStill DEF BeginCall, BeginLink, BeginEvent

(* Waking the sleepers of a pad leaves nobody asleep there. *)
LEMMA WokenAll ==
    ASSUME Threadly, NEW p, NEW u \in Threads, Woken(p)[u].wait = "asleep"
    PROVE  Woken(p)[u] = th[u] /\ At(u) # p
<1>1. Woken(p)[u] = th[u]
  BY WokenCalls
<1> DEFINE r == [th[u] EXCEPT !.wait = "lock"]
<1>2. r.wait = "lock"
  BY DEF Threadly, ThreadStates
<1>3. Woken(p)[u] = IF th[u].wait = "asleep" /\ p = At(u) THEN r ELSE th[u]
  BY DEF Woken, At
<1> QED BY <1>1, <1>2, <1>3

(* A thread asleep is at a pad. *)
LEMMA AsleepAt ==
    ASSUME Threadly, NEW u \in Threads, th[u].wait \notin {"no", "policy", "link"}
    PROVE  At(u) \in Pads
<1>1. /\ Sound(th[u]) /\ Places(th[u].call, th[u].at, Step(u)) /\ Step(u) \in ProbeSteps
  BY StepIs DEF Threadly, Sound
<1>2. th[u].call # "idle" /\ th[u].other \in Pads \cup {0} /\ th[u].call \in CallNames
      /\ th[u].own \in Pads /\ th[u].at \in Nat
  BY <1>1 DEF Sound, ThreadStates, Places, ProbeSteps
<1>3. CASE Step(u) \in {"pre_own", "post_own"}
  BY <1>2, <1>3 DEF At, Own
<1>4. CASE Step(u) \in {"pre_other", "post_other"}
  <2>1. HasOther(th[u])
    BY <1>1, <1>4 DEF Places, HasOther, Cutting
  <2>2. Step(u) \notin {"pre_own", "post_own"}
    BY <1>4
  <2> QED BY <1>1, <1>2, <2>1, <2>2 DEF At, Other, Sound
<1> QED BY <1>1, <1>3, <1>4 DEF ProbeSteps

Guarded == blocked \in [Pads -> BOOLEAN] /\ NoLostUnblock

LEMMA StillGuarded ==
    ASSUME Threadly, Guarded, Still, blocked' \in [Pads -> BOOLEAN],
           \A u \in Threads : th[u].wait = "asleep" /\ th'[u] = th[u] /\ blocked[At(u)]
                                 => blocked'[At(u)]
    PROVE  Guarded'
<1>1. ASSUME NEW u \in Threads, th'[u].wait = "asleep" PROVE blocked'[At(u)']
  <2>1. th'[u] = th[u] /\ th[u].wait = "asleep"
    BY <1>1 DEF Still
  <2>2. At(u)' = At(u)
    BY <2>1 DEF At, Step, Own, Other
  <2>3. blocked[At(u)]
    BY <2>1 DEF Guarded, NoLostUnblock
  <2> QED BY <2>1, <2>2, <2>3
<1> QED BY <1>1 DEF Guarded, NoLostUnblock

LEMMA GuardedStep == Inv /\ Guarded /\ [Next]_vars => Guarded'
<1> SUFFICES ASSUME Inv, Guarded, [Next]_vars PROVE Guarded'
  OBVIOUS
<1>0. /\ Threadly /\ blocked \in [Pads -> BOOLEAN]
  BY DEF Inv, PadInv, Shape, Guarded
<1>1. \A u \in Threads : th[u].wait = "asleep" => At(u) \in Pads
  BY <1>0, AsleepAt
<1>2. ASSUME Still, UNCHANGED blocked PROVE Guarded'
  BY <1>0, <1>2, StillGuarded
<1>3. ASSUME NEW p \in Pads, Still, blocked' = [blocked EXCEPT ![p] = TRUE] PROVE Guarded'
  <2>1. blocked' \in [Pads -> BOOLEAN]
    BY <1>0, <1>3
  <2>2. \A q \in Pads : blocked[q] => blocked'[q]
    BY <1>0, <1>3
  <2> QED BY <1>0, <1>1, <1>3, <2>1, <2>2, StillGuarded
<1>4. ASSUME NEW p \in Pads, blocked' = [blocked EXCEPT ![p] = FALSE], Still,
             \A u \in Threads : th'[u] = th[u] /\ th[u].wait = "asleep" => At(u) # p
      PROVE  Guarded'
  <2>1. blocked' \in [Pads -> BOOLEAN]
    BY <1>0, <1>4
  <2>2. \A q \in Pads \ {p} : blocked'[q] = blocked[q]
    BY <1>0, <1>4
  <2> QED BY <1>0, <1>1, <1>4, <2>1, <2>2, StillGuarded
<1>5. CASE UNCHANGED vars
  BY <1>2, <1>5 DEF vars, Still
<1>6. ASSUME NEW t \in Threads, GoOn(t) PROVE Guarded'
  <2>1. CASE WaitUnblocked(t)
    <3>1. CASE ~MustWait(At(t))
      BY <1>0, <1>2, <2>1, <3>1, MovesStill DEF WaitUnblocked
    <3>2. CASE MustWait(At(t))
      <4> DEFINE r == [th[t] EXCEPT !.wait = "asleep"]
      <4>1. th' = [th EXCEPT ![t] = r] /\ blocked[At(t)] /\ blocked' = blocked
        BY <2>1, <3>2 DEF WaitUnblocked, MustWait, Waits, Set
      <4>2. r.call = th[t].call /\ r.own = th[t].own /\ r.other = th[t].other /\ r.at = th[t].at
        BY <1>0 DEF Threadly, ThreadStates
      <4> HIDE DEF r
      <4>3. th'[t] = r /\ \A u \in Threads \ {t} : th'[u] = th[u]
        BY <1>0, <4>1 DEF Threadly
      <4>4. At(t)' = At(t) /\ \A u \in Threads \ {t} : At(u)' = At(u)
        BY <4>2, <4>3 DEF At, Step, Own, Other
      <4> QED BY <1>0, <4>1, <4>3, <4>4 DEF Guarded, NoLostUnblock
    <3> QED BY <3>1, <3>2
  <2>2. CASE BlockCallback(t)
    <3>0. At(t) \in Pads /\ th[t].wait = "callback"
      BY <1>0, <2>2, AsleepAt DEF BlockCallback
    <3>1. Dropped(t) \/ Waits(t, "lock") => Still
      BY <1>0, MovesStill DEF Dropped
    <3> DEFINE W == Woken(At(t))
               r == IF th[t].inner THEN Landed(th[t], th[t].at + 1)
                    ELSE [th[t] EXCEPT !.wait = "probes"]
    <3>2. r.wait # "asleep"
      BY <1>0 DEF Threadly, ThreadStates, Landed
    <3>3. CASE th' = [W EXCEPT ![t] = r] /\ blocked' = [blocked EXCEPT ![At(t)] = FALSE]
      <4>1. DOMAIN W = Threads
        BY DEF Woken
      <4>2. \A u \in Threads : W[u].wait = "asleep" => W[u] = th[u] /\ At(u) # At(t)
        BY <1>0, WokenAll
      <4> HIDE DEF W, r
      <4>3. th'[t] = r /\ \A u \in Threads \ {t} : th'[u] = W[u]
        BY <3>3, <4>1
      <4>4. Still
        BY <3>2, <4>2, <4>3 DEF Still
      <4>5. \A u \in Threads : th'[u] = th[u] /\ th[u].wait = "asleep" => At(u) # At(t)
        BY <3>2, <4>2, <4>3
      <4> QED BY <1>4, <3>0, <3>3, <4>4, <4>5
    <3> QED BY <1>2, <2>2, <3>1, <3>3 DEF BlockCallback, Landed
  <2>3. CASE ~WaitUnblocked(t) /\ ~BlockCallback(t)
    <3>1. Still
      BY <1>0, <1>6, <2>3, GoOnStill
    <3>2. CASE CallProbe(t)
      <4>1. At(t) \in Pads
        BY <1>0, <3>2, AsleepAt DEF CallProbe
      <4> QED BY <1>2, <1>3, <3>1, <3>2, <4>1 DEF CallProbe
    <3>3. CASE ~CallProbe(t)
      <4>1. UNCHANGED blocked
        BY <1>6, <2>3, <3>3 DEF GoOn, LockFirst, LockSecond, Join, Replay, Take, Split, Release,
              Disown, Drop, Finish, Unlinked, Linked, LinkTimeout, Store, Deliver, FastExit,
              HandleBlock, Collect, blocks
      <4> QED BY <1>2, <3>1, <4>1
    <3> QED BY <3>2, <3>3
  <2> QED BY <2>1, <2>2, <2>3
<1>7. ASSUME NEW t \in Threads, BeginCall(t) \/ BeginLink(t) \/ BeginEvent(t) PROVE Guarded'
  <2>1. Still
    BY <1>0, <1>7, BeginStill
  <2>2. UNCHANGED blocked
    BY <1>7 DEF BeginCall, BeginLink, BeginEvent, blocks
  <2> QED BY <1>2, <2>1, <2>2
<1>8. ASSUME NEW t \in Threads, SetBlockCallback(t) \/ ChangeProbes(t) \/ SetPolicy(t)
      PROVE  Guarded'
  <2>1. UNCHANGED <<blocked, th>>
    BY <1>8 DEF SetBlockCallback, ChangeProbes, SetPolicy, blocks
  <2> QED BY <1>2, <2>1 DEF Still
<1>9. ASSUME NEW t \in Threads, Block(t) PROVE Guarded'
  <2>1. PICK p \in Watched : blocked' = [blocked EXCEPT ![p] = TRUE] /\ th' = th
    BY <1>9 DEF Block
  <2>2. p \in Pads
    BY PadAssumption
  <2> QED BY <1>3, <2>1, <2>2 DEF Still
<1>10. ASSUME NEW t \in Threads, Unblock(t) PROVE Guarded'
  <2>1. PICK p \in Watched : blocked' = [blocked EXCEPT ![p] = FALSE] /\ th' = Woken(p)
    BY <1>10 DEF Unblock
  <2>2. p \in Pads
    BY PadAssumption
  <2>3. \A u \in Threads : th'[u].wait = "asleep" => th'[u] = th[u] /\ At(u) # p
    BY <1>0, <2>1, WokenAll
  <2>4. Still /\ \A u \in Threads : th'[u] = th[u] /\ th[u].wait = "asleep" => At(u) # p
    BY <2>3 DEF Still
  <2> QED BY <1>4, <2>1, <2>2, <2>4
<1> QED BY <1>5, <1>6, <1>7, <1>8, <1>9, <1>10 DEF Next

(* No push, pull or event sleeps at a pad that is not blocked: the wait,   *)
(* zst_pad_unblock and a block callback's PROBE_OK meet at probe_lock, so  *)
(* no wakeup falls between the look at blocked and the wait (zst_pad.c:    *)
(* pad_handle_block, zst_pad_unblock).                                     *)
THEOREM UnblockNeverLost == Spec => []NoLostUnblock
<1>1. Init => Inv /\ Guarded
  <2>1. ASSUME Init PROVE Guarded
    <3>1. blocked = [p \in Pads |-> FALSE] /\ th = [t \in Threads |-> Idle]
      BY <2>1 DEF Init
    <3>2. Idle.wait = "no"
      BY DEF Idle
    <3> QED BY <3>1, <3>2 DEF Guarded, NoLostUnblock
  <2> QED BY <2>1, PadInit
<1>2. Inv /\ Guarded /\ [Next]_vars => Inv' /\ Guarded'
  BY PadStep, GuardedStep
<1>3. Guarded => NoLostUnblock
  BY DEF Guarded
<1> QED BY <1>1, <1>2, <1>3, PTL DEF Spec
=============================================================================
