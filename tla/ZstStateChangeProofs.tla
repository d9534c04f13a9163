----------------------- MODULE ZstStateChangeProofs -----------------------
(***************************************************************************)
(* The hooks, the locks and the undoing of a state change (zst_pipeline.c, *)
(* zst_element.c, zst_bin.c), for every pipeline, every nesting of calls   *)
(* and any failures.                                                       *)
(*                                                                         *)
(* ChangeInv is about the stack of calls as such: where each function may  *)
(* be, who holds the lock, what the hooks have established.  UndoInv says  *)
(* of every frame where it has left its element, and of a frame and its    *)
(* caller what the one wants of the other, so that a rollback finds what   *)
(* it has to undo.  A step goes on in the top frame, calls or returns      *)
(* (UndoGoes, UndoGrows, UndoReturns); one lemma per action says which.    *)
(***************************************************************************)
EXTENDS ZstStateChange, SequenceTheorems, FiniteSetTheorems, TLAPS

-----------------------------------------------------------------------------
(* The stack of calls.                                                      *)

WalkingPc  == {"walk", "walked", "rollback"}
CallingPc  == {"first", "second", "undo"}         \* waiting for a call of the same function
WaitingPc  == CallingPc \cup {"walked", "rollback", "bin"}

\* Where each function may be, and what its frame says there
Placed(f) ==
    /\ f.fn = "pipeline" =>
          /\ f.pc \in {"enter"} \cup CallingPc \cup WalkingPc
          /\ f.pc = "walked" => f.i \in DOMAIN Elements
    /\ f.fn = "element" =>
          /\ f.el \in All /\ f.pc \in {"enter", "hook", "bin", "store"} \cup CallingPc
          /\ f.pc = "bin" => f.el \in Bins
    /\ f.fn = "bin" =>
          /\ f.el \in Bins /\ f.pc \in WalkingPc
          /\ f.pc = "walked" => f.i \in DOMAIN Children[f.el]
          /\ f.pc = "rollback" => f.i \in Nat \ {0} /\ f.lim \in DOMAIN Children[f.el]

Walks(f) == f.fn = "pipeline" /\ f.pc \in WalkingPc

\* Below the top every frame waits; below a frame of zst_pipeline_set_state are
\* only frames of it that are not walking over the elements.
Stacked(s) ==
    /\ s \in Seq(FrameType)
    /\ \A k \in 1 .. Len(s) : Placed(s[k])
    /\ \A k \in 2 .. Len(s) : s[k].pc \in WaitingPc
    /\ \A j, k \in 1 .. Len(s) : j < k /\ s[j].fn = "pipeline" =>
          s[k].fn = "pipeline" /\ s[k].pc \in CallingPc

SomeWalks(s) == \E k \in 1 .. Len(s) : Walks(s[k])

LEMMA SequencesGiven ==
    /\ Len(Elements) \in Nat /\ DOMAIN Elements = 1 .. Len(Elements)
    /\ \A k \in DOMAIN Elements : Elements[k] \in All
    /\ \A b \in Bins : /\ Len(Children[b]) \in Nat /\ DOMAIN Children[b] = 1 .. Len(Children[b])
                       /\ \A k \in DOMAIN Children[b] : Children[b][k] \in All
<1>1. Len(Elements) \in Nat /\ DOMAIN Elements = 1 .. Len(Elements)
  BY TopologyAssumption, LenProperties
<1>2. \A k \in DOMAIN Elements : Elements[k] \in All
  BY DEF All, ToSet
<1>3. ASSUME NEW b \in Bins
      PROVE  /\ Len(Children[b]) \in Nat /\ DOMAIN Children[b] = 1 .. Len(Children[b])
             /\ \A k \in DOMAIN Children[b] : Children[b][k] \in All
  <2>1. Children[b] \in Seq(ToSet(Children[b]))
    BY TopologyAssumption
  <2>2. Len(Children[b]) \in Nat /\ DOMAIN Children[b] = 1 .. Len(Children[b])
    BY <2>1, LenProperties
  <2>3. ToSet(Children[b]) \subseteq All
    BY DEF All
  <2> QED BY <2>2, <2>3 DEF ToSet
<1> QED BY <1>1, <1>2, <1>3

LEMMA TopRest ==
    ASSUME NEW S, NEW s \in Seq(S), s # <<>>
    PROVE  /\ Len(s) \in Nat \ {0} /\ Head(s) = s[1] /\ s[1] \in S
           /\ Tail(s) \in Seq(S) /\ Len(Tail(s)) = Len(s) - 1
           /\ \A k \in 1 .. Len(s) - 1 : Tail(s)[k] = s[k + 1]
BY EmptySeq, HeadTailProperties, ElementOfSeq, LenProperties

LEMMA Replaced ==
    ASSUME NEW S, NEW s \in Seq(S), s # <<>>, NEW a \in S
    PROVE  LET t == <<a>> \o Tail(s)
           IN  /\ t \in Seq(S) /\ Len(t) = Len(s) /\ t[1] = a
               /\ \A k \in 2 .. Len(s) : t[k] = s[k]
<1> DEFINE u == <<a>>
<1>1. u \in Seq(S) /\ Len(u) = 1 /\ u[1] = a
  OBVIOUS
<1> HIDE DEF u
<1>2. /\ Len(s) \in Nat \ {0} /\ Tail(s) \in Seq(S) /\ Len(Tail(s)) = Len(s) - 1
      /\ \A k \in 1 .. Len(s) - 1 : Tail(s)[k] = s[k + 1]
  BY TopRest
<1>3. /\ u \o Tail(s) \in Seq(S) /\ Len(u \o Tail(s)) = Len(u) + Len(Tail(s))
      /\ \A k \in 1 .. (Len(u) + Len(Tail(s))) :
            (u \o Tail(s))[k] = IF k <= Len(u) THEN u[k] ELSE Tail(s)[k - Len(u)]
  BY <1>1, <1>2, ConcatProperties
<1>4. \A k \in 2 .. Len(s) : k - 1 \in 1 .. Len(s) - 1 /\ (k - 1) + 1 = k
  BY <1>2
<1>5. (u \o Tail(s))[1] = a /\ Len(u \o Tail(s)) = Len(s)
  BY <1>1, <1>2, <1>3
<1>6. \A k \in 2 .. Len(s) : (u \o Tail(s))[k] = s[k]
  BY <1>1, <1>2, <1>3, <1>4
<1> QED BY <1>3, <1>5, <1>6 DEF u

LEMMA Called ==
    ASSUME NEW S, NEW s \in Seq(S), s # <<>>, NEW a \in S, NEW c \in S
    PROVE  LET t == <<c, a>> \o Tail(s)
           IN  /\ t \in Seq(S) /\ Len(t) = Len(s) + 1 /\ t[1] = c /\ t[2] = a
               /\ \A k \in 3 .. Len(s) + 1 : t[k] = s[k - 1]
<1> DEFINE u == <<c, a>>
<1>1. u \in Seq(S) /\ Len(u) = 2 /\ u[1] = c /\ u[2] = a
  OBVIOUS
<1> HIDE DEF u
<1>2. /\ Len(s) \in Nat \ {0} /\ Tail(s) \in Seq(S) /\ Len(Tail(s)) = Len(s) - 1
      /\ \A k \in 1 .. Len(s) - 1 : Tail(s)[k] = s[k + 1]
  BY TopRest
<1>3. /\ u \o Tail(s) \in Seq(S) /\ Len(u \o Tail(s)) = Len(u) + Len(Tail(s))
      /\ \A k \in 1 .. (Len(u) + Len(Tail(s))) :
            (u \o Tail(s))[k] = IF k <= Len(u) THEN u[k] ELSE Tail(s)[k - Len(u)]
  BY <1>1, <1>2, ConcatProperties
<1>4. \A k \in 3 .. Len(s) + 1 : k - 2 \in 1 .. Len(s) - 1 /\ (k - 2) + 1 = k - 1
  BY <1>2
<1>5. (u \o Tail(s))[1] = c /\ (u \o Tail(s))[2] = a /\ Len(u \o Tail(s)) = Len(s) + 1
  BY <1>1, <1>2, <1>3
<1>6. \A k \in 3 .. Len(s) + 1 : (u \o Tail(s))[k] = s[k - 1]
  BY <1>1, <1>2, <1>3, <1>4
<1> QED BY <1>3, <1>5, <1>6 DEF u

\* The top goes on: it stays of its function.
LEMMA StackGoes ==
    ASSUME NEW s, Stacked(s), s # <<>>, NEW a \in FrameType, Placed(a), a.fn = s[1].fn
    PROVE  /\ Stacked(<<a>> \o Tail(s))
           /\ s[1].fn = "pipeline" => (SomeWalks(<<a>> \o Tail(s)) <=> Walks(a))
           /\ s[1].fn = "pipeline" => (SomeWalks(s) <=> Walks(s[1]))
           /\ s[1].fn # "pipeline" => (SomeWalks(<<a>> \o Tail(s)) <=> SomeWalks(s))
<1> DEFINE t == <<a>> \o Tail(s)
<1>1. /\ s \in Seq(FrameType) /\ t \in Seq(FrameType) /\ Len(t) = Len(s) /\ t[1] = a
      /\ \A k \in 2 .. Len(s) : t[k] = s[k]
  BY Replaced DEF Stacked
<1>2. Len(s) \in Nat \ {0}
  BY <1>1, TopRest
<1> HIDE DEF t
<1>3. \A k \in 1 .. Len(s) : k = 1 \/ k \in 2 .. Len(s)
  BY <1>2
<1>4. Stacked(t)
  <2>1. \A k \in 1 .. Len(t) : Placed(t[k])
    BY <1>1, <1>3 DEF Stacked
  <2>2. \A k \in 2 .. Len(t) : t[k].pc \in WaitingPc
    BY <1>1 DEF Stacked
  <2>3. ASSUME NEW j \in 1 .. Len(t), NEW k \in 1 .. Len(t), j < k, t[j].fn = "pipeline"
        PROVE  t[k].fn = "pipeline" /\ t[k].pc \in CallingPc
    <3>1. k \in 2 .. Len(s) /\ t[k] = s[k] /\ t[j].fn = s[j].fn
      BY <2>3, <1>1, <1>2, <1>3
    <3> QED BY <3>1, <2>3, <1>1 DEF Stacked
  <2> QED BY <1>1, <2>1, <2>2, <2>3 DEF Stacked
<1>5. ASSUME s[1].fn = "pipeline"
      PROVE  (SomeWalks(t) <=> Walks(a)) /\ (SomeWalks(s) <=> Walks(s[1]))
  <2>1. \A k \in 2 .. Len(s) : ~Walks(s[k])
    BY <1>2, <1>5 DEF Stacked, Walks, CallingPc, WalkingPc
  <2> QED BY <1>1, <1>2, <1>3, <2>1 DEF SomeWalks
<1>6. ASSUME s[1].fn # "pipeline" PROVE SomeWalks(t) <=> SomeWalks(s)
  <2>1. ~Walks(s[1]) /\ ~Walks(a)
    BY <1>6 DEF Walks
  <2> QED BY <1>1, <1>2, <1>3, <2>1 DEF SomeWalks
<1> QED BY <1>4, <1>5, <1>6 DEF t

\* A call: of zst_pipeline_set_state by itself, or of another function.
LEMMA StackGrows ==
    ASSUME NEW s, Stacked(s), s # <<>>, NEW a \in FrameType, Placed(a), a.fn = s[1].fn,
           NEW c \in FrameType, Placed(c), a.pc \in WaitingPc, ~Walks(c),
           c.fn = "pipeline" => a.fn = "pipeline" /\ a.pc \in CallingPc
    PROVE  /\ Stacked(<<c, a>> \o Tail(s))
           /\ SomeWalks(<<c, a>> \o Tail(s)) <=> SomeWalks(<<a>> \o Tail(s))
<1> DEFINE t == <<c, a>> \o Tail(s)
           u == <<a>> \o Tail(s)
<1>1. /\ s \in Seq(FrameType) /\ t \in Seq(FrameType) /\ Len(t) = Len(s) + 1
      /\ t[1] = c /\ t[2] = a
      /\ \A k \in 3 .. Len(s) + 1 : t[k] = s[k - 1]
  BY Called DEF Stacked
<1>2. Len(s) \in Nat \ {0}
  BY <1>1, TopRest
<1>3. /\ Stacked(u) /\ Len(u) = Len(s) /\ u[1] = a /\ \A k \in 2 .. Len(s) : u[k] = s[k]
  BY <1>1, StackGoes, Replaced
<1> HIDE DEF t, u
<1>4. \A k \in 2 .. Len(t) : k - 1 \in 1 .. Len(u) /\ t[k] = u[k - 1]
  <2> TAKE k \in 2 .. Len(t)
  <2>1. k = 2 \/ k \in 3 .. Len(s) + 1
    BY <1>1, <1>2
  <2>2. CASE k = 2
    BY <2>2, <1>1, <1>2, <1>3
  <2>3. CASE k \in 3 .. Len(s) + 1
    <3>1. k - 1 \in 2 .. Len(s) /\ k - 1 \in 1 .. Len(s)
      BY <2>3, <1>2
    <3> QED BY <3>1, <2>3, <1>1, <1>3
  <2> QED BY <2>1, <2>2, <2>3
<1>5. \A k \in 1 .. Len(t) : k = 1 \/ k \in 2 .. Len(t)
  BY <1>1, <1>2
<1>6. Stacked(t)
  <2>1. \A k \in 1 .. Len(t) : Placed(t[k])
    BY <1>1, <1>3, <1>4, <1>5 DEF Stacked
  <2>2. ASSUME NEW k \in 2 .. Len(t) PROVE t[k].pc \in WaitingPc
    <3>1. CASE k = 2
      BY <3>1, <1>1
    <3>2. CASE k # 2
      <4>1. k - 1 \in 2 .. Len(u)
        BY <3>2, <1>1, <1>2, <1>3
      <4> QED BY <4>1, <1>3, <1>4 DEF Stacked
    <3> QED BY <3>1, <3>2
  <2>3. ASSUME NEW j \in 1 .. Len(t), NEW k \in 1 .. Len(t), j < k, t[j].fn = "pipeline"
        PROVE  t[k].fn = "pipeline" /\ t[k].pc \in CallingPc
    <3>1. k \in 2 .. Len(t) /\ k - 1 \in 1 .. Len(u) /\ t[k] = u[k - 1]
      BY <2>3, <1>4, <1>5
    <3>2. CASE j = 1
      <4>1. a.fn = "pipeline" /\ a.pc \in CallingPc
        BY <2>3, <3>2, <1>1
      <4>2. CASE k = 2
        BY <4>1, <4>2, <1>1
      <4>3. CASE k # 2
        <5>1. 1 \in 1 .. Len(u) /\ 1 < k - 1
          BY <4>3, <3>1, <1>2, <1>3
        <5> QED BY <5>1, <3>1, <4>1, <1>3 DEF Stacked
      <4> QED BY <4>2, <4>3
    <3>3. CASE j # 1
      <4>1. j - 1 \in 1 .. Len(u) /\ t[j] = u[j - 1] /\ j - 1 < k - 1
        BY <3>3, <2>3, <1>4, <1>5, <1>1, <1>2
      <4> QED BY <4>1, <3>1, <2>3, <1>3 DEF Stacked
    <3> QED BY <3>2, <3>3
  <2> QED BY <1>1, <2>1, <2>2, <2>3 DEF Stacked
<1>7. SomeWalks(t) <=> SomeWalks(u)
  <2>1. \A k \in 1 .. Len(u) : k + 1 \in 2 .. Len(t) /\ k + 1 \in 1 .. Len(t) /\ (k + 1) - 1 = k
    BY <1>1, <1>2, <1>3
  <2> QED BY <1>1, <1>4, <1>5, <2>1 DEF SomeWalks
<1> QED BY <1>6, <1>7 DEF t, u

LEMMA StackShrinks ==
    ASSUME NEW s, Stacked(s), s # <<>>
    PROVE  /\ Stacked(Tail(s)) /\ (Tail(s) # <<>> => Tail(s)[1].pc \in WaitingPc)
           /\ s[1].fn = "pipeline" => ~SomeWalks(Tail(s))
           /\ ~Walks(s[1]) => (SomeWalks(Tail(s)) <=> SomeWalks(s))
<1> DEFINE t == Tail(s)
<1>1. /\ s \in Seq(FrameType) /\ Len(s) \in Nat \ {0} /\ t \in Seq(FrameType)
      /\ Len(t) = Len(s) - 1 /\ \A k \in 1 .. Len(s) - 1 : t[k] = s[k + 1]
  BY TopRest DEF Stacked
<1> HIDE DEF t
<1>2. \A k \in 1 .. Len(t) : k + 1 \in 2 .. Len(s) /\ k + 1 \in 1 .. Len(s) /\ t[k] = s[k + 1]
  BY <1>1
<1>3. Stacked(t)
  <2>1. \A k \in 2 .. Len(t) : k \in 1 .. Len(t)
    BY <1>1
  <2>2. \A j, k \in 1 .. Len(t) : j < k => j + 1 < k + 1
    BY <1>1
  <2>3. \A k \in 1 .. Len(t) : Placed(t[k])
    BY <1>2 DEF Stacked
  <2>4. \A k \in 2 .. Len(t) : t[k].pc \in WaitingPc
    BY <1>2, <2>1 DEF Stacked
  <2>5. \A j, k \in 1 .. Len(t) : j < k /\ t[j].fn = "pipeline" =>
            t[k].fn = "pipeline" /\ t[k].pc \in CallingPc
    BY <1>2, <2>2 DEF Stacked
  <2> QED BY <1>1, <2>3, <2>4, <2>5 DEF Stacked
<1>4. ASSUME t # <<>> PROVE t[1].pc \in WaitingPc
  <2>1. 1 \in 1 .. Len(t)
    BY <1>1, <1>4, EmptySeq
  <2> QED BY <2>1, <1>2 DEF Stacked
<1>5. ASSUME s[1].fn = "pipeline" PROVE ~SomeWalks(t)
  <2>1. \A k \in 2 .. Len(s) : ~Walks(s[k])
    BY <1>1, <1>5 DEF Stacked, Walks, CallingPc, WalkingPc
  <2> QED BY <1>2, <2>1 DEF SomeWalks
<1>6. ASSUME ~Walks(s[1]) PROVE SomeWalks(t) <=> SomeWalks(s)
  <2>1. \A k \in 1 .. Len(s) : k = 1 \/ (k - 1 \in 1 .. Len(t) /\ (k - 1) + 1 = k)
    BY <1>1
  <2> QED BY <1>2, <1>6, <2>1 DEF SomeWalks
<1> QED BY <1>3, <1>4, <1>5, <1>6 DEF t

-----------------------------------------------------------------------------
(* The inductive invariant.                                                 *)

Values ==
    /\ ret \in {"OK", "ERROR"} /\ pipeState \in States
    /\ state \in [All -> States] /\ level \in [Leafs -> States]
    /\ transition \in BOOLEAN /\ clock \in BOOLEAN /\ errors \in BOOLEAN
    /\ working \subseteq Sources /\ ended \subseteq Sources
    /\ subject \in Loose \cup {None}
    /\ before \in States /\ failures \in 0 .. MaxFailures /\ dirty \in BOOLEAN

\* state_transition_active and the read lock belong to the walking frame.
Bracket ==
    /\ transition <=> SomeWalks(stack)
    /\ readers = IF transition THEN 1 ELSE 0

Top(pc) == stack # <<>> /\ stack[1].fn = "element" /\ stack[1].pc = pc

\* el->state tells what the hooks did, but between a hook and the store that
\* follows it; a hook runs on the state its call has read.
Paired ==
    /\ \A e \in Leafs \ ended :
          level[e] = IF Top("store") /\ stack[1].el = e THEN stack[1].to ELSE state[e]
    /\ Top("hook") => stack[1].el \in ended \/ stack[1].from = state[stack[1].el]

ChangeInv == Stacked(stack) /\ Values /\ Bracket /\ Paired

LEMMA NewFrames ==
    ASSUME NEW s \in States
    PROVE  /\ PipelineFrame(s) \in FrameType /\ PipelineFrame(s).fn = "pipeline"
           /\ PipelineFrame(s).pc = "enter" /\ Placed(PipelineFrame(s))
           /\ \A e \in All :
                 /\ ElementFrame(e, s) \in FrameType /\ ElementFrame(e, s).fn = "element"
                 /\ ElementFrame(e, s).pc = "enter" /\ Placed(ElementFrame(e, s))
           /\ \A b \in Bins, old \in States : b \in All =>
                 /\ BinFrame(b, old, s) \in FrameType /\ BinFrame(b, old, s).fn = "bin"
                 /\ BinFrame(b, old, s).pc = "walk" /\ Placed(BinFrame(b, old, s))
<1>1. /\ PipelineFrame(s) \in FrameType /\ PipelineFrame(s).fn = "pipeline"
      /\ PipelineFrame(s).pc = "enter" /\ Placed(PipelineFrame(s))
  BY DEF PipelineFrame, FrameType, Placed
<1>2. ASSUME NEW e \in All
      PROVE  /\ ElementFrame(e, s) \in FrameType /\ ElementFrame(e, s).fn = "element"
             /\ ElementFrame(e, s).pc = "enter" /\ Placed(ElementFrame(e, s))
  BY DEF ElementFrame, PipelineFrame, FrameType, Placed
<1>3. ASSUME NEW b \in Bins, NEW old \in States, b \in All
      PROVE  /\ BinFrame(b, old, s) \in FrameType /\ BinFrame(b, old, s).fn = "bin"
             /\ BinFrame(b, old, s).pc = "walk" /\ Placed(BinFrame(b, old, s))
  BY <1>3 DEF BinFrame, PipelineFrame, FrameType, Placed, WalkingPc
<1> QED BY <1>1, <1>2, <1>3

LEMMA BinsAll == Bins \subseteq All
BY TopologyAssumption DEF All

\* The top frame
LEMMA TopFrame ==
    ASSUME Stacked(stack), ~Idle
    PROVE  /\ stack # <<>> /\ Frame = stack[1] /\ Frame \in FrameType /\ Placed(Frame)
           /\ stack \in Seq(FrameType)
<1>1. stack \in Seq(FrameType) /\ stack # <<>>
  BY DEF Stacked, Idle
<1>2. Len(stack) \in Nat \ {0} /\ Head(stack) = stack[1] /\ stack[1] \in FrameType
  BY <1>1, TopRest
<1> QED BY <1>1, <1>2 DEF Stacked, Frame

LEMMA GoesOn ==
    ASSUME ChangeInv, ~Idle, NEW a \in FrameType, Placed(a), a.fn = Frame.fn, Goto(a),
           Walks(a) <=> Walks(Frame), UNCHANGED <<transition, readers>>
    PROVE  Stacked(stack)' /\ Bracket' /\ stack' # <<>> /\ stack'[1] = a
<1>1. /\ Stacked(stack) /\ stack # <<>> /\ Frame = stack[1] /\ stack \in Seq(FrameType)
  BY TopFrame DEF ChangeInv
<1>2. stack' = <<a>> \o Tail(stack)
  BY DEF Goto
<1>3. stack' \in Seq(FrameType) /\ Len(stack') = Len(stack) /\ stack'[1] = a
  BY <1>1, <1>2, Replaced
<1>4. stack' # <<>>
  BY <1>1, <1>3, EmptySeq
<1>5. Stacked(stack') /\ (SomeWalks(stack') <=> SomeWalks(stack))
  BY <1>1, <1>2, StackGoes
<1> QED BY <1>3, <1>4, <1>5 DEF ChangeInv, Bracket

LEMMA CallsDown ==
    ASSUME ChangeInv, ~Idle, NEW a \in FrameType, Placed(a), a.fn = Frame.fn,
           NEW c \in FrameType, Placed(c), Call(a, c), a.pc \in WaitingPc, ~Walks(c),
           c.fn = "pipeline" => a.fn = "pipeline" /\ a.pc \in CallingPc,
           Walks(a) <=> Walks(Frame), UNCHANGED <<transition, readers>>
    PROVE  Stacked(stack)' /\ Bracket' /\ stack' # <<>> /\ stack'[1] = c
<1>1. /\ Stacked(stack) /\ stack # <<>> /\ Frame = stack[1] /\ stack \in Seq(FrameType)
  BY TopFrame DEF ChangeInv
<1>2. stack' = <<c, a>> \o Tail(stack)
  BY DEF Call
<1>3. stack' \in Seq(FrameType) /\ Len(stack') = Len(stack) + 1 /\ stack'[1] = c
  BY <1>1, <1>2, Called
<1>4. stack' # <<>>
  BY <1>1, <1>3, EmptySeq, LenProperties
<1>5. SomeWalks(<<a>> \o Tail(stack)) <=> SomeWalks(stack)
  BY <1>1, StackGoes
<1>6. Stacked(stack') /\ (SomeWalks(stack') <=> SomeWalks(<<a>> \o Tail(stack)))
  BY <1>1, <1>2, StackGrows
<1> QED BY <1>3, <1>4, <1>5, <1>6 DEF ChangeInv, Bracket

LEMMA Returns ==
    ASSUME ChangeInv, ~Idle, stack' = Tail(stack), ~Walks(Frame), UNCHANGED <<transition, readers>>
    PROVE  Stacked(stack)' /\ Bracket' /\ (stack' # <<>> => stack'[1].pc \in WaitingPc)
<1>1. /\ Stacked(stack) /\ stack # <<>> /\ Frame = stack[1]
  BY TopFrame DEF ChangeInv
<1> QED BY <1>1, StackShrinks DEF ChangeInv, Bracket

\* A step aside of the hooks
LEMMA NoHook ==
    ASSUME Paired, UNCHANGED <<state, level, ended>>, ~Top("store"),
           stack' # <<>> => stack'[1].fn # "element" \/ stack'[1].pc \notin {"hook", "store"}
    PROVE  Paired'
BY DEF Paired, Top

LEMMA WaitingAside ==
    ASSUME NEW p \in WaitingPc \cup {"enter", "walk"} PROVE p \notin {"hook", "store"}
BY DEF WaitingPc, CallingPc

-----------------------------------------------------------------------------
(* zst_pipeline_set_state *)

LEMMA TowardStates ==
    ASSUME NEW a \in States, NEW b \in States, a # b PROVE Toward(a, b) \in States
BY DEF Toward, States, NULL, PLAYING

LEMMA PipelineCalls ==
    ASSUME ChangeInv, PipelineDecompose \/ PipelineFirst \/ PipelineSecond, stack' # Tail(stack)
    PROVE  ChangeInv'
<1>1. /\ ~Idle /\ Frame.fn = "pipeline" /\ Frame.pc \in {"enter", "first", "second"}
      /\ Frame = stack[1] /\ Frame \in FrameType
  BY TopFrame DEF ChangeInv, PipelineDecompose, PipelineFirst, PipelineSecond, At
<1>2. /\ ret \in {"OK", "ERROR"} /\ pipeState \in States /\ Frame.to \in States /\ Frame.from \in States
  BY <1>1 DEF ChangeInv, Values, FrameType
<1>3. PICK a, s : /\ Call(a, PipelineFrame(s)) /\ s \in States /\ a \in FrameType
                  /\ a.fn = "pipeline" /\ a.pc \in CallingPc
  <2>1. CASE PipelineDecompose
    <3>1. Call([Frame EXCEPT !.from = pipeState, !.pc = "first"],
               PipelineFrame(Toward(pipeState, Frame.to)))
      BY <2>1 DEF PipelineDecompose
    <3>2. Toward(pipeState, Frame.to) \in States
      BY <2>1, <1>2, TowardStates DEF PipelineDecompose
    <3>3. /\ [Frame EXCEPT !.from = pipeState, !.pc = "first"] \in FrameType
          /\ [Frame EXCEPT !.from = pipeState, !.pc = "first"].fn = "pipeline"
          /\ [Frame EXCEPT !.from = pipeState, !.pc = "first"].pc \in CallingPc
      BY <1>1, <1>2 DEF FrameType, CallingPc
    <3> QED BY <3>1, <3>2, <3>3
  <2>2. CASE PipelineFirst
    <3>1. Call([Frame EXCEPT !.pc = "second"], PipelineFrame(Frame.to))
      BY <2>2 DEF PipelineFirst, Return
    <3>2. /\ [Frame EXCEPT !.pc = "second"] \in FrameType
          /\ [Frame EXCEPT !.pc = "second"].fn = "pipeline"
          /\ [Frame EXCEPT !.pc = "second"].pc \in CallingPc
      BY <1>1, <1>2 DEF FrameType, CallingPc
    <3> QED BY <3>1, <3>2, <1>2
  <2>3. CASE PipelineSecond
    <3>1. Call([Frame EXCEPT !.pc = "undo", !.r = ret], PipelineFrame(Frame.from))
      BY <2>3 DEF PipelineSecond, Return
    <3>2. /\ [Frame EXCEPT !.pc = "undo", !.r = ret] \in FrameType
          /\ [Frame EXCEPT !.pc = "undo", !.r = ret].fn = "pipeline"
          /\ [Frame EXCEPT !.pc = "undo", !.r = ret].pc \in CallingPc
      BY <1>1, <1>2 DEF FrameType, CallingPc
    <3> QED BY <3>1, <3>2, <1>2
  <2> QED BY <2>1, <2>2, <2>3
<1>4. Placed(a) /\ a.pc \in WaitingPc /\ ~Walks(a) /\ ~Walks(Frame)
  BY <1>1, <1>3 DEF Placed, CallingPc, WaitingPc, WalkingPc, Walks
<1>5. /\ PipelineFrame(s) \in FrameType /\ PipelineFrame(s).fn = "pipeline"
      /\ PipelineFrame(s).pc = "enter" /\ Placed(PipelineFrame(s))
  BY <1>3, NewFrames
<1>6. ~Walks(PipelineFrame(s))
  BY <1>5 DEF Walks, WalkingPc
<1>7. /\ UNCHANGED <<pipeState, state, level, transition, readers, clock, errors, working, histories>>
      /\ UNCHANGED ret
  BY DEF PipelineDecompose, PipelineFirst, PipelineSecond, Return
<1>8. Stacked(stack)' /\ Bracket' /\ stack' # <<>> /\ stack'[1] = PipelineFrame(s)
  BY <1>1, <1>3, <1>4, <1>5, <1>6, <1>7, CallsDown
<1>9. Paired'
  BY <1>1, <1>5, <1>7, <1>8, NoHook DEF ChangeInv, Top, histories
<1>10. Values'
  BY <1>7 DEF ChangeInv, Values, histories
<1> QED BY <1>8, <1>9, <1>10 DEF ChangeInv

\* A return that changes nothing but its result, from a frame that is not
\* walking over the pipeline's elements or storing a state
LEMMA PlainReturn ==
    ASSUME ChangeInv, ~Idle, stack' = Tail(stack), ~Walks(Frame), ~Top("store"),
           ret' \in {"OK", "ERROR"}, errors' \in BOOLEAN, failures' \in 0 .. MaxFailures,
           dirty' \in BOOLEAN,
           UNCHANGED <<pipeState, state, level, transition, readers, clock, working, subject,
                       before, ended>>
    PROVE  ChangeInv'
<1>1. Stacked(stack)' /\ Bracket' /\ (stack' # <<>> => stack'[1].pc \in WaitingPc)
  BY Returns
<1>2. Paired'
  BY <1>1, WaitingAside, NoHook DEF ChangeInv
<1>3. Values'
  BY DEF ChangeInv, Values
<1> QED BY <1>1, <1>2, <1>3 DEF ChangeInv

LEMMA PipelineReturns ==
    ASSUME ChangeInv,
           PipelineSame \/ PipelineUndone \/ ((PipelineFirst \/ PipelineSecond) /\ stack' = Tail(stack))
    PROVE  ChangeInv'
<1>1. /\ ~Idle /\ Frame.fn = "pipeline" /\ Frame.pc \in {"enter", "first", "second", "undo"}
      /\ Frame = stack[1] /\ Frame \in FrameType
  BY TopFrame DEF ChangeInv, PipelineSame, PipelineUndone, PipelineFirst, PipelineSecond, At
<1>2. ret \in {"OK", "ERROR"} /\ Frame.r \in {"OK", "ERROR"}
  BY <1>1 DEF ChangeInv, Values, FrameType
<1>3. ~Walks(Frame) /\ ~Top("store")
  BY <1>1 DEF Walks, WalkingPc, Top
<1>4. /\ stack' = Tail(stack) /\ ret' \in {"OK", "ERROR"}
      /\ UNCHANGED <<pipeState, state, level, transition, readers, clock, errors, working, histories>>
  BY <1>2 DEF PipelineSame, PipelineUndone, PipelineFirst, PipelineSecond, Return
<1> QED BY <1>1, <1>3, <1>4, PlainReturn DEF ChangeInv, Values, histories

LEMMA PipelineEnters ==
    ASSUME ChangeInv, PipelineEnter PROVE ChangeInv'
<1>1. /\ ~Idle /\ Frame.fn = "pipeline" /\ Frame.pc = "enter" /\ stack # <<>>
      /\ Frame = stack[1] /\ Frame \in FrameType /\ Stacked(stack) /\ stack \in Seq(FrameType)
  BY TopFrame DEF ChangeInv, PipelineEnter, At
<1>2. pipeState \in States
  BY DEF ChangeInv, Values
<1> DEFINE a == [Frame EXCEPT !.from = pipeState, !.pc = "walk", !.i = 1]
<1>3. a \in FrameType /\ a.fn = "pipeline" /\ a.pc = "walk"
  BY <1>1, <1>2 DEF FrameType
<1>4. stack' = <<a>> \o Tail(stack)
  BY DEF PipelineEnter, Goto
<1> HIDE DEF a
<1>5. Placed(a) /\ Walks(a) /\ ~Walks(Frame)
  BY <1>1, <1>3 DEF Placed, Walks, WalkingPc
<1>6. Stacked(stack') /\ SomeWalks(stack') /\ ~SomeWalks(stack)
  BY <1>1, <1>3, <1>4, <1>5, StackGoes
<1>7. stack'[1] = a
  BY <1>1, <1>3, <1>4, Replaced
<1>8. transition = FALSE /\ readers = 0
  BY <1>6 DEF ChangeInv, Bracket, Values
<1>9. transition' = TRUE /\ readers' = readers + 1
  BY DEF PipelineEnter
<1>10. Bracket'
  BY <1>6, <1>8, <1>9 DEF Bracket
<1>11. UNCHANGED <<ret, pipeState, state, level, errors, working, histories>>
       /\ clock' \in BOOLEAN
  BY DEF PipelineEnter, ChangeInv, Values
<1>12. Paired'
  BY <1>1, <1>3, <1>7, <1>11, NoHook DEF ChangeInv, Top, histories
<1>13. Values'
  BY <1>9, <1>11 DEF ChangeInv, Values, histories
<1> QED BY <1>6, <1>10, <1>12, <1>13 DEF ChangeInv

LEMMA PipelineLeaves ==
    ASSUME ChangeInv, PipelineFail \/ PipelineDone PROVE ChangeInv'
<1>1. /\ ~Idle /\ Frame.fn = "pipeline" /\ Frame.pc \in WalkingPc /\ stack # <<>>
      /\ Frame = stack[1] /\ Frame \in FrameType /\ Stacked(stack)
  BY TopFrame DEF ChangeInv, PipelineFail, PipelineDone, At, WalkingPc
<1>2. Frame.to \in States /\ Frame.r \in {"OK", "ERROR"}
  BY <1>1 DEF FrameType
<1>3. /\ stack' = Tail(stack) /\ ret' \in {"OK", "ERROR"} /\ pipeState' \in States
      /\ readers' = readers - 1 /\ transition' = FALSE /\ errors' \in BOOLEAN
      /\ UNCHANGED <<state, level, clock, working, histories>>
  BY <1>2 DEF PipelineFail, PipelineDone, Return, ChangeInv, Values
<1>4. Walks(Frame) /\ 1 \in 1 .. Len(stack)
  BY <1>1, EmptySeq, LenProperties DEF Walks, Stacked
<1>5. Stacked(stack') /\ (stack' # <<>> => stack'[1].pc \in WaitingPc) /\ ~SomeWalks(stack')
  BY <1>1, <1>3, StackShrinks
<1>6. transition /\ readers = 1
  BY <1>1, <1>4 DEF ChangeInv, Bracket, SomeWalks
<1>7. Bracket'
  BY <1>3, <1>5, <1>6 DEF Bracket
<1>8. Paired'
  BY <1>1, <1>3, <1>5, WaitingAside, NoHook DEF ChangeInv, Top, histories
<1>9. Values'
  BY <1>3 DEF ChangeInv, Values, histories
<1> QED BY <1>5, <1>7, <1>8, <1>9 DEF ChangeInv

LEMMA PipelineGoes ==
    ASSUME ChangeInv, PipelineWalked PROVE ChangeInv'
<1>1. /\ ~Idle /\ Frame.fn = "pipeline" /\ Frame.pc = "walked" /\ Frame = stack[1]
      /\ Frame \in FrameType /\ Placed(Frame) /\ ret \in {"OK", "ERROR"}
  BY TopFrame DEF ChangeInv, PipelineWalked, At, Values
<1>2. Frame.i \in Nat \ {0}
  BY <1>1, SequencesGiven DEF Placed
<1>3. PICK a : Goto(a) /\ a \in FrameType /\ a.fn = "pipeline" /\ a.pc \in {"walk", "rollback"}
  <2>0. Frame.i + 1 \in Nat /\ Frame.i - 1 \in Nat
    BY <1>2
  <2>1. /\ [Frame EXCEPT !.pc = "walk", !.i = @ + 1] \in FrameType
        /\ [Frame EXCEPT !.pc = "walk", !.i = @ + 1].fn = "pipeline"
        /\ [Frame EXCEPT !.pc = "walk", !.i = @ + 1].pc = "walk"
    BY <1>1, <2>0, Zenon DEF FrameType
  <2>2. /\ [Frame EXCEPT !.pc = "rollback", !.i = @ - 1, !.r = ret] \in FrameType
        /\ [Frame EXCEPT !.pc = "rollback", !.i = @ - 1, !.r = ret].fn = "pipeline"
        /\ [Frame EXCEPT !.pc = "rollback", !.i = @ - 1, !.r = ret].pc = "rollback"
    BY <1>1, <2>0, Zenon DEF FrameType
  <2> QED BY <2>1, <2>2 DEF PipelineWalked
<1>4. Placed(a) /\ Walks(a) /\ Walks(Frame)
  BY <1>1, <1>3 DEF Placed, Walks, WalkingPc
<1>5. UNCHANGED <<ret, pipeState, state, level, transition, readers, clock, errors, working, histories>>
  BY DEF PipelineWalked
<1>6. Stacked(stack)' /\ Bracket' /\ stack' # <<>> /\ stack'[1] = a
  BY <1>1, <1>3, <1>4, <1>5, GoesOn
<1>7. Paired'
  BY <1>1, <1>3, <1>5, <1>6, NoHook DEF ChangeInv, Top, histories
<1>8. Values'
  BY <1>5 DEF ChangeInv, Values, histories
<1> QED BY <1>6, <1>7, <1>8 DEF ChangeInv

LEMMA NthAll ==
    ASSUME NEW up, NEW k \in DOMAIN Elements PROVE Nth(up, k) \in All
<1>1. k \in 1 .. Len(Elements) /\ Len(Elements) \in Nat
  BY SequencesGiven
<1>2. (Len(Elements) + 1 - k) \in DOMAIN Elements
  BY <1>1, SequencesGiven
<1> QED BY <1>2, SequencesGiven DEF Nth

\* The calls of zst_element_set_state: a frame is pushed, nothing else happens.
LEMMA ElementCalled ==
    ASSUME ChangeInv, ~Idle, NEW a \in FrameType, Placed(a), a.fn = Frame.fn, a.pc \in WaitingPc,
           NEW e \in All, NEW s \in States, Call(a, ElementFrame(e, s)), ~Top("store"),
           Walks(a) <=> Walks(Frame),
           UNCHANGED <<ret, pipeState, state, level, transition, readers, clock, errors,
                       working, histories>>
    PROVE  ChangeInv'
<1>1. /\ ElementFrame(e, s) \in FrameType /\ ElementFrame(e, s).fn = "element"
      /\ ElementFrame(e, s).pc = "enter" /\ Placed(ElementFrame(e, s))
  BY NewFrames
<1>2. ~Walks(ElementFrame(e, s))
  BY <1>1 DEF Walks
<1>3. Stacked(stack)' /\ Bracket' /\ stack' # <<>> /\ stack'[1] = ElementFrame(e, s)
  BY <1>1, <1>2, CallsDown
<1>4. Paired'
  BY <1>1, <1>3, NoHook DEF ChangeInv, histories
<1>5. Values'
  BY DEF ChangeInv, Values, histories
<1> QED BY <1>3, <1>4, <1>5 DEF ChangeInv

LEMMA PipelineWalks ==
    ASSUME ChangeInv, PipelineWalk \/ PipelineRollback PROVE ChangeInv'
<1>1. /\ ~Idle /\ Frame.fn = "pipeline" /\ Frame.pc \in {"walk", "rollback"} /\ Frame = stack[1]
      /\ Frame \in FrameType /\ Frame.i \in DOMAIN Elements
  BY TopFrame DEF ChangeInv, PipelineWalk, PipelineRollback, At
<1>2. /\ Frame.i \in Nat \ {0} /\ Frame.to \in States /\ Frame.from \in States
  BY <1>1, SequencesGiven DEF FrameType
<1>3. Nth(Up, Frame.i) \in All
  BY <1>1, NthAll
<1>4. Walks(Frame) /\ ~Top("store")
  BY <1>1 DEF Walks, WalkingPc, Top
<1>5. UNCHANGED <<ret, pipeState, state, level, transition, readers, clock, errors, working, histories>>
  BY DEF PipelineWalk, PipelineRollback
<1>6. CASE PipelineWalk
  <2> DEFINE a == [Frame EXCEPT !.pc = "walked"]
  <2>1. /\ a \in FrameType /\ a.fn = "pipeline" /\ a.pc = "walked" /\ a.i = Frame.i
    BY <1>1 DEF FrameType
  <2>2. Call(a, ElementFrame(Nth(Up, Frame.i), Frame.to))
    BY <1>6 DEF PipelineWalk
  <2> HIDE DEF a
  <2>3. Placed(a) /\ Walks(a) /\ a.pc \in WaitingPc
    BY <1>1, <2>1 DEF Placed, Walks, WalkingPc, WaitingPc
  <2> QED BY <1>1, <1>2, <1>3, <1>4, <1>5, <2>1, <2>2, <2>3, ElementCalled
<1>7. CASE PipelineRollback
  <2> DEFINE a == [Frame EXCEPT !.i = @ - 1]
  <2>1. /\ a \in FrameType /\ a.fn = "pipeline" /\ a.pc = Frame.pc
    BY <1>1, <1>2 DEF FrameType
  <2>2. Call(a, ElementFrame(Nth(Up, Frame.i), Frame.from)) /\ Frame.pc = "rollback"
    BY <1>7 DEF PipelineRollback, At
  <2> HIDE DEF a
  <2>3. Placed(a) /\ Walks(a) /\ a.pc \in WaitingPc
    BY <2>1, <2>2 DEF Placed, Walks, WalkingPc, WaitingPc
  <2> QED BY <1>1, <1>2, <1>3, <1>4, <1>5, <2>1, <2>2, <2>3, ElementCalled
<1> QED BY <1>6, <1>7

-----------------------------------------------------------------------------
(* zst_element_set_state and bin_change_state *)

LEMMA ViaStates ==
    ASSUME NEW a \in States, NEW b \in States PROVE Via(a, b) \in States
BY DEF Via, States, NULL, READY, PAUSED, PLAYING

\* What the actions of an element start from
LEMMA ElementTop ==
    ASSUME ChangeInv, ~Idle, Frame.fn = "element"
    PROVE  /\ Frame = stack[1] /\ stack # <<>> /\ Frame \in FrameType /\ Placed(Frame)
           /\ Frame.el \in All /\ Frame.to \in States /\ Frame.from \in States
           /\ Frame.r \in {"OK", "ERROR"} /\ ret \in {"OK", "ERROR"}
           /\ state \in [All -> States] /\ state[Frame.el] \in States /\ ~Walks(Frame)
<1>1. Frame = stack[1] /\ stack # <<>> /\ Frame \in FrameType /\ Placed(Frame)
  BY TopFrame DEF ChangeInv
<1>2. Frame.el \in All
  BY <1>1 DEF Placed
<1>3. Frame.to \in States /\ Frame.from \in States /\ Frame.r \in {"OK", "ERROR"}
  BY <1>1 DEF FrameType
<1>4. ret \in {"OK", "ERROR"} /\ state \in [All -> States]
  BY DEF ChangeInv, Values
<1>5. ~Walks(Frame)
  BY DEF Walks
<1> QED BY <1>1, <1>2, <1>3, <1>4, <1>5

\* An element's frame that calls zst_element_set_state again
LEMMA ElementCallsItself ==
    ASSUME ChangeInv, ~Idle, Frame.fn = "element", Frame.pc # "store",
           NEW a \in FrameType, a.fn = "element", a.el = Frame.el, a.pc \in CallingPc,
           NEW s \in States, Call(a, ElementFrame(Frame.el, s)),
           UNCHANGED <<ret, pipeState, state, level, transition, readers, clock, errors,
                       working, histories>>
    PROVE  ChangeInv'
<1>1. Frame = stack[1] /\ Frame.el \in All /\ ~Walks(Frame)
  BY ElementTop
<1>2. Placed(a) /\ a.pc \in WaitingPc /\ ~Walks(a)
  BY <1>1 DEF Placed, CallingPc, WaitingPc, Walks
<1>3. ~Top("store")
  BY <1>1 DEF Top
<1> QED BY <1>1, <1>2, <1>3, ElementCalled

LEMMA ElementEnters ==
    ASSUME ChangeInv, ElementEnter PROVE ChangeInv'
<1>1. ~Idle /\ Frame.fn = "element" /\ Frame.pc = "enter"
  BY DEF ElementEnter, At
<1>2. /\ Frame = stack[1] /\ stack # <<>> /\ Frame \in FrameType /\ Placed(Frame)
      /\ Frame.el \in All /\ Frame.to \in States /\ ~Walks(Frame)
      /\ ret \in {"OK", "ERROR"} /\ state[Frame.el] \in States
  BY <1>1, ElementTop
<1>3. UNCHANGED <<pipeState, state, level, transition, readers, clock, errors, working, histories>>
  BY DEF ElementEnter
<1>4. ~Top("store")
  BY <1>1, <1>2 DEF Top
<1> DEFINE cur == state[Frame.el]
           via == Via(cur, Frame.to)
<1>5. CASE Return("OK")
  BY <1>1, <1>2, <1>3, <1>4, <1>5, PlainReturn DEF Return, ChangeInv, Values, histories
<1>6. CASE Goto([Frame EXCEPT !.from = cur, !.pc = "hook"]) /\ UNCHANGED ret
  <2> DEFINE a == [Frame EXCEPT !.from = cur, !.pc = "hook"]
  <2>1. /\ a \in FrameType /\ a.fn = "element" /\ a.pc = "hook" /\ a.el = Frame.el /\ a.from = cur
    BY <1>1, <1>2 DEF FrameType
  <2>2. Goto(a)
    BY <1>6
  <2> HIDE DEF a
  <2>3. Placed(a) /\ ~Walks(a)
    BY <1>2, <2>1 DEF Placed, Walks
  <2>4. Stacked(stack)' /\ Bracket' /\ stack' # <<>> /\ stack'[1] = a
    BY <1>1, <1>2, <1>3, <2>1, <2>2, <2>3, GoesOn
  <2>5. Paired'
    BY <1>3, <1>4, <2>1, <2>4 DEF ChangeInv, Paired, Top, histories
  <2>6. Values'
    BY <1>3, <1>6 DEF ChangeInv, Values, histories
  <2> QED BY <2>4, <2>5, <2>6 DEF ChangeInv
<1>7. CASE Call([Frame EXCEPT !.from = cur, !.pc = "first"], ElementFrame(Frame.el, via)) /\ UNCHANGED ret
  <2> DEFINE a == [Frame EXCEPT !.from = cur, !.pc = "first"]
  <2>1. /\ a \in FrameType /\ a.fn = "element" /\ a.pc \in CallingPc /\ a.el = Frame.el
    BY <1>1, <1>2 DEF FrameType, CallingPc
  <2>2. Call(a, ElementFrame(Frame.el, via)) /\ via \in States
    BY <1>2, <1>7, ViaStates
  <2> HIDE DEF a, via
  <2> QED BY <1>1, <1>3, <1>7, <2>1, <2>2, ElementCallsItself
<1> QED BY <1>5, <1>6, <1>7 DEF ElementEnter

LEMMA ElementGoesOn ==
    ASSUME ChangeInv, ElementFirst \/ ElementSecond \/ ElementUndone PROVE ChangeInv'
<1>1. ~Idle /\ Frame.fn = "element" /\ Frame.pc \in CallingPc
  BY DEF ElementFirst, ElementSecond, ElementUndone, At, CallingPc
<1>2. /\ Frame = stack[1] /\ Frame \in FrameType /\ Frame.to \in States /\ Frame.from \in States
      /\ ~Walks(Frame) /\ ret \in {"OK", "ERROR"} /\ Frame.r \in {"OK", "ERROR"}
  BY <1>1, ElementTop
<1>3. UNCHANGED <<pipeState, state, level, transition, readers, clock, errors, working, histories>>
  BY DEF ElementFirst, ElementSecond, ElementUndone
<1>4. ~Top("store") /\ Frame.pc # "store"
  BY <1>1, <1>2 DEF Top, CallingPc
<1>5. CASE Return(ret) \/ Return(Frame.r)
  BY <1>1, <1>2, <1>3, <1>4, <1>5, PlainReturn DEF Return, ChangeInv, Values, histories
<1>6. CASE Call([Frame EXCEPT !.pc = "second"], ElementFrame(Frame.el, Frame.to)) /\ UNCHANGED ret
  <2> DEFINE a == [Frame EXCEPT !.pc = "second"]
  <2>1. /\ a \in FrameType /\ a.fn = "element" /\ a.pc \in CallingPc /\ a.el = Frame.el
    BY <1>1, <1>2 DEF FrameType, CallingPc
  <2> HIDE DEF a
  <2> QED BY <1>1, <1>2, <1>3, <1>4, <1>6, <2>1, ElementCallsItself DEF a
<1>7. CASE /\ Call([Frame EXCEPT !.pc = "undo", !.r = ret], ElementFrame(Frame.el, Frame.from))
           /\ UNCHANGED ret
  <2> DEFINE a == [Frame EXCEPT !.pc = "undo", !.r = ret]
  <2>1. /\ a \in FrameType /\ a.fn = "element" /\ a.pc \in CallingPc /\ a.el = Frame.el
    BY <1>1, <1>2 DEF FrameType, CallingPc
  <2>2. Call(a, ElementFrame(Frame.el, Frame.from))
    BY <1>7
  <2> HIDE DEF a
  <2> QED BY <1>1, <1>2, <1>3, <1>4, <1>7, <2>1, <2>2, ElementCallsItself
<1> QED BY <1>5, <1>6, <1>7 DEF ElementFirst, ElementSecond, ElementUndone

LEMMA HookRuns ==
    ASSUME ChangeInv, ElementHook PROVE ChangeInv'
<1>1. ~Idle /\ Frame.fn = "element" /\ Frame.pc = "hook" /\ Frame.el \in Leafs
  BY DEF ElementHook, At
<1>2. /\ Frame = stack[1] /\ stack # <<>> /\ Frame \in FrameType /\ Placed(Frame)
      /\ Frame.el \in All /\ Frame.to \in States /\ ~Walks(Frame) /\ ret \in {"OK", "ERROR"}
  BY <1>1, ElementTop
<1>3. /\ UNCHANGED <<pipeState, state, transition, readers, clock, errors, working, subject,
                     before, ended>>
  BY DEF ElementHook
<1>4. ~Top("store")
  BY <1>1, <1>2 DEF Top
<1>5. CASE /\ failures < MaxFailures /\ failures' = failures + 1 /\ dirty' = (dirty \/ Undoing)
           /\ Return("ERROR") /\ UNCHANGED level
  <2>1. failures' \in 0 .. MaxFailures /\ dirty' \in BOOLEAN /\ errors' \in BOOLEAN
    BY <1>3, <1>5, TopologyAssumption DEF ChangeInv, Values
  <2> QED BY <1>1, <1>2, <1>3, <1>4, <1>5, <2>1, PlainReturn DEF Return
<1>6. CASE /\ level' = [level EXCEPT ![Frame.el] = Frame.to] /\ Goto([Frame EXCEPT !.pc = "store"])
           /\ UNCHANGED <<ret, failures, dirty>>
  <2> DEFINE a == [Frame EXCEPT !.pc = "store"]
  <2>1. /\ a \in FrameType /\ a.fn = "element" /\ a.pc = "store" /\ a.el = Frame.el /\ a.to = Frame.to
    BY <1>1, <1>2 DEF FrameType
  <2>2. Goto(a)
    BY <1>6
  <2> HIDE DEF a
  <2>3. Placed(a) /\ ~Walks(a)
    BY <1>2, <2>1 DEF Placed, Walks
  <2>4. Stacked(stack)' /\ Bracket' /\ stack' # <<>> /\ stack'[1] = a
    BY <1>1, <1>2, <1>3, <2>1, <2>2, <2>3, GoesOn
  <2>5. level \in [Leafs -> States] /\ level' \in [Leafs -> States]
    BY <1>1, <1>2, <1>6 DEF ChangeInv, Values
  <2>6. ASSUME NEW e \in Leafs \ ended'
        PROVE  level'[e] = IF Top("store")' /\ stack'[1].el = e THEN stack'[1].to ELSE state'[e]
    <3>1. level[e] = state[e] /\ state'[e] = state[e]
      BY <1>3, <1>4, <2>6 DEF ChangeInv, Paired
    <3>2. Top("store")' /\ stack'[1].el = Frame.el /\ stack'[1].to = Frame.to
      BY <2>1, <2>4 DEF Top
    <3>3. CASE e = Frame.el
      BY <3>2, <3>3, <1>1, <1>6, <2>5
    <3>4. CASE e # Frame.el
      BY <3>1, <3>2, <3>4, <1>1, <1>6, <2>5
    <3> QED BY <3>3, <3>4
  <2>7. Paired'
    BY <2>1, <2>4, <2>6 DEF Paired, Top
  <2>8. Values'
    BY <1>3, <1>6, <2>5 DEF ChangeInv, Values
  <2> QED BY <2>4, <2>7, <2>8 DEF ChangeInv
<1> QED BY <1>5, <1>6 DEF ElementHook

LEMMA StoreRuns ==
    ASSUME ChangeInv, ElementStore PROVE ChangeInv'
<1>1. ~Idle /\ Frame.fn = "element" /\ Frame.pc = "store"
  BY DEF ElementStore, At
<1>2. /\ Frame = stack[1] /\ stack # <<>> /\ Frame.el \in All /\ Frame.to \in States
      /\ ~Walks(Frame) /\ state \in [All -> States]
  BY <1>1, ElementTop
<1>3. /\ UNCHANGED <<pipeState, level, transition, readers, clock, errors, working, histories>>
      /\ stack' = Tail(stack) /\ ret' = "OK"
      /\ state' = [state EXCEPT ![Frame.el] = Frame.to]
  BY DEF ElementStore, Return
<1>4. Stacked(stack)' /\ Bracket' /\ (stack' # <<>> => stack'[1].pc \in WaitingPc)
  BY <1>1, <1>2, <1>3, Returns
<1>5. ~Top("store")' /\ ~Top("hook")'
  BY <1>4, WaitingAside DEF Top
<1>6. ASSUME NEW e \in Leafs \ ended PROVE level[e] = state'[e]
  <2>1. e \in All /\ level[e] = IF e = Frame.el THEN Frame.to ELSE state[e]
    BY <1>1, <1>2, <1>6 DEF ChangeInv, Paired, Top, Leafs
  <2> QED BY <2>1, <1>2, <1>3
<1>7. Paired'
  BY <1>3, <1>5, <1>6 DEF Paired, histories
<1>8. Values'
  BY <1>2, <1>3 DEF ChangeInv, Values, histories
<1> QED BY <1>4, <1>7, <1>8 DEF ChangeInv

LEMMA BinCalled ==
    ASSUME ChangeInv, ElementBin \/ ElementBinDone PROVE ChangeInv'
<1>1. ~Idle /\ Frame.fn = "element" /\ Frame.pc \in {"hook", "bin"}
  BY DEF ElementBin, ElementBinDone, At
<1>2. /\ Frame = stack[1] /\ stack # <<>> /\ Frame \in FrameType /\ Placed(Frame)
      /\ Frame.el \in All /\ Frame.to \in States /\ Frame.from \in States
      /\ ~Walks(Frame) /\ ret \in {"OK", "ERROR"}
  BY <1>1, ElementTop
<1>3. UNCHANGED <<pipeState, state, level, transition, readers, clock, errors, working, histories>>
  BY DEF ElementBin, ElementBinDone
<1>4. ~Top("store")
  BY <1>1, <1>2 DEF Top
<1>5. CASE ElementBin
  <2> DEFINE a == [Frame EXCEPT !.pc = "bin"]
             c == BinFrame(Frame.el, Frame.from, Frame.to)
  <2>0. Call(a, c) /\ Frame.el \in Bins /\ UNCHANGED ret
    BY <1>5 DEF ElementBin
  <2>1. /\ a \in FrameType /\ a.fn = "element" /\ a.pc = "bin" /\ a.el = Frame.el
    BY <1>1, <1>2 DEF FrameType
  <2>2. /\ c \in FrameType /\ c.fn = "bin" /\ c.pc = "walk" /\ Placed(c)
    BY <1>2, <2>0, NewFrames
  <2> HIDE DEF a, c
  <2>3. Placed(a) /\ ~Walks(a) /\ ~Walks(c) /\ a.pc \in WaitingPc
    BY <1>2, <2>0, <2>1, <2>2 DEF Placed, Walks, WaitingPc
  <2>4. Stacked(stack)' /\ Bracket' /\ stack' # <<>> /\ stack'[1] = c
    BY <1>1, <1>2, <1>3, <2>0, <2>1, <2>2, <2>3, CallsDown
  <2>5. Paired'
    BY <1>3, <1>4, <2>2, <2>4, NoHook DEF ChangeInv, histories
  <2>6. Values'
    BY <1>3, <2>0 DEF ChangeInv, Values, histories
  <2> QED BY <2>4, <2>5, <2>6 DEF ChangeInv
<1>6. CASE ElementBinDone
  <2>1. CASE Return(ret)
    BY <1>1, <1>2, <1>3, <1>4, <2>1, PlainReturn DEF Return, ChangeInv, Values, histories
  <2>2. CASE Goto([Frame EXCEPT !.pc = "store"]) /\ UNCHANGED ret
    <3> DEFINE a == [Frame EXCEPT !.pc = "store"]
    <3>1. /\ a \in FrameType /\ a.fn = "element" /\ a.pc = "store" /\ a.el = Frame.el
      BY <1>1, <1>2 DEF FrameType
    <3>2. Goto(a)
      BY <2>2
    <3> HIDE DEF a
    <3>3. Placed(a) /\ ~Walks(a)
      BY <1>2, <3>1 DEF Placed, Walks
    <3>4. Stacked(stack)' /\ Bracket' /\ stack' # <<>> /\ stack'[1] = a
      BY <1>1, <1>2, <1>3, <3>1, <3>2, <3>3, GoesOn
    <3>5. Frame.el \notin Leafs
      BY <1>2, <1>6 DEF ElementBinDone, At, Placed, Leafs
    <3>6. Paired'
      BY <1>3, <1>4, <3>1, <3>4, <3>5 DEF ChangeInv, Paired, Top, histories
    <3>7. Values'
      BY <1>3, <2>2 DEF ChangeInv, Values, histories
    <3> QED BY <3>4, <3>6, <3>7 DEF ChangeInv
  <2> QED BY <1>6, <2>1, <2>2 DEF ElementBinDone
<1> QED BY <1>5, <1>6

LEMMA BinRuns ==
    ASSUME ChangeInv, Bin PROVE ChangeInv'
<1>1. ~Idle /\ Frame.fn = "bin"
  BY DEF Bin, BinWalk, BinWalked, BinRollback, At
<1>2. Frame = stack[1] /\ stack # <<>> /\ Frame \in FrameType /\ Placed(Frame)
  BY <1>1, TopFrame DEF ChangeInv
<1>3. /\ Frame.el \in Bins /\ Frame.to \in States /\ Frame.from \in States /\ Frame.i \in Nat
      /\ Frame.r \in {"OK", "ERROR"} /\ ret \in {"OK", "ERROR"}
      /\ DOMAIN Children[Frame.el] = 1 .. Len(Children[Frame.el])
      /\ Len(Children[Frame.el]) \in Nat
      /\ \A k \in DOMAIN Children[Frame.el] : Children[Frame.el][k] \in All
  <2>1. Frame.el \in Bins
    BY <1>1, <1>2 DEF Placed
  <2>2. Frame.to \in States /\ Frame.from \in States /\ Frame.i \in Nat /\ Frame.r \in {"OK", "ERROR"}
    BY <1>2 DEF FrameType
  <2> QED BY <2>1, <2>2, SequencesGiven DEF ChangeInv, Values
<1>4. ~Top("store") /\ ~Walks(Frame)
  BY <1>1, <1>2 DEF Top, Walks
<1>5. /\ UNCHANGED <<pipeState, state, level, transition, readers, clock, working, histories>>
      /\ errors' \in BOOLEAN
  BY DEF Bin, BinWalk, BinWalked, BinRollback, ChangeInv, Values
<1>6. CASE Return("OK") \/ Return(Frame.r)
  BY <1>1, <1>3, <1>4, <1>5, <1>6, PlainReturn DEF Return, ChangeInv, Values, histories
<1>7. CASE BinWalk /\ ~Return("OK")
  <2> DEFINE a == [Frame EXCEPT !.pc = "walked"]
  <2>0. /\ Call(a, ElementFrame(Children[Frame.el][Frame.i], Frame.to)) /\ UNCHANGED <<ret, errors>>
        /\ Frame.i \in DOMAIN Children[Frame.el]
    BY <1>7 DEF BinWalk
  <2>1. /\ a \in FrameType /\ a.fn = "bin" /\ a.pc = "walked" /\ a.el = Frame.el /\ a.i = Frame.i
    BY <1>1, <1>2 DEF FrameType
  <2> HIDE DEF a
  <2>2. Placed(a) /\ ~Walks(a) /\ a.pc \in WaitingPc
    BY <1>3, <2>0, <2>1 DEF Placed, Walks, WaitingPc, WalkingPc
  <2> QED BY <1>1, <1>3, <1>4, <1>5, <2>0, <2>1, <2>2, ElementCalled
<1>8. CASE BinRollback /\ ~Return(Frame.r)
  <2> DEFINE a == [Frame EXCEPT !.i = @ + 1]
  <2>0. /\ Call(a, ElementFrame(Children[Frame.el][Frame.i], Frame.from)) /\ UNCHANGED <<ret, errors>>
        /\ Frame.i < Frame.lim /\ Frame.pc = "rollback"
    BY <1>8 DEF BinRollback, At
  <2>1. Frame.i \in Nat \ {0} /\ Frame.lim \in DOMAIN Children[Frame.el] /\ Frame.i + 1 \in Nat \ {0}
    BY <1>1, <1>2, <2>0 DEF Placed
  <2>2. /\ a \in FrameType /\ a.fn = "bin" /\ a.pc = "rollback" /\ a.el = Frame.el
        /\ a.i = Frame.i + 1 /\ a.lim = Frame.lim
    BY <1>1, <1>2, <2>0, <2>1, Zenon DEF FrameType
  <2> HIDE DEF a
  <2>3. Placed(a) /\ ~Walks(a) /\ a.pc \in WaitingPc
    BY <1>3, <2>1, <2>2 DEF Placed, Walks, WaitingPc, WalkingPc
  <2>4. Children[Frame.el][Frame.i] \in All
    BY <1>3, <2>0, <2>1
  <2> QED BY <1>1, <1>3, <1>4, <1>5, <2>0, <2>2, <2>3, <2>4, ElementCalled
<1>9. CASE BinWalked
  <2>0. Frame.i \in DOMAIN Children[Frame.el] /\ Frame.i + 1 \in Nat
    BY <1>1, <1>2, <1>3, <1>9 DEF BinWalked, At, Placed
  <2>1. PICK a : /\ Goto(a) /\ a \in FrameType /\ a.fn = "bin" /\ a.el = Frame.el
                 /\ a.pc \in {"walk", "rollback"} /\ (a.pc = "rollback" => a.i = 1 /\ a.lim = Frame.i)
    <3> DEFINE g == [Frame EXCEPT !.pc = "walk", !.i = @ + 1]
               h == [Frame EXCEPT !.pc = "rollback", !.i = 1, !.lim = Frame.i, !.r = ret]
    <3>1. g \in FrameType /\ g.fn = "bin" /\ g.el = Frame.el /\ g.pc = "walk"
      BY <1>1, <1>2, <2>0, Zenon DEF FrameType
    <3>2. h \in FrameType /\ h.fn = "bin" /\ h.el = Frame.el /\ h.pc = "rollback" /\ h.i = 1
          /\ h.lim = Frame.i
      BY <1>1, <1>2, <1>3 DEF FrameType
    <3>3. Goto(g) \/ Goto(h)
      BY <1>9 DEF BinWalked
    <3> HIDE DEF g, h
    <3> QED BY <3>1, <3>2, <3>3
  <2>2. Placed(a) /\ ~Walks(a)
    BY <1>3, <2>0, <2>1 DEF Placed, Walks, WalkingPc
  <2>3. Stacked(stack)' /\ Bracket' /\ stack' # <<>> /\ stack'[1] = a
    BY <1>1, <1>4, <1>5, <2>1, <2>2, GoesOn
  <2>4. Paired'
    BY <1>4, <1>5, <2>1, <2>3, NoHook DEF ChangeInv, histories
  <2>5. Values'
    BY <1>5, <1>9 DEF ChangeInv, Values, histories, BinWalked
  <2> QED BY <2>3, <2>4, <2>5 DEF ChangeInv
<1> QED BY <1>6, <1>7, <1>8, <1>9 DEF Bin, BinWalk, BinRollback

-----------------------------------------------------------------------------
(* The application's calls, the workers, and the theorems.                  *)

LEMMA OneFrame ==
    ASSUME NEW c \in FrameType, Placed(c), ~Walks(c)
    PROVE  Stacked(<<c>>) /\ ~SomeWalks(<<c>>) /\ <<c>> # <<>> /\ <<c>>[1] = c
<1>1. <<c>> \in Seq(FrameType) /\ Len(<<c>>) = 1 /\ <<c>>[1] = c
  OBVIOUS
<1> DEFINE s == <<c>>
<1> HIDE DEF s
<1>2. s \in Seq(FrameType) /\ Len(s) = 1 /\ s[1] = c
  BY <1>1 DEF s
<1>3. Stacked(s) /\ ~SomeWalks(s) /\ s # <<>>
  BY <1>2, EmptySeq DEF Stacked, SomeWalks
<1> QED BY <1>1, <1>3 DEF s

LEMMA CallBegins ==
    ASSUME ChangeInv, NEW s \in States,
           SetState(s) \/ \E e \in Loose : SetElementState(e, s)
    PROVE  ChangeInv'
<1>1. PICK c \in FrameType : stack' = <<c>> /\ Placed(c) /\ c.pc = "enter"
  <2>1. CASE SetState(s)
    BY <2>1, NewFrames DEF SetState
  <2>2. ASSUME NEW e \in Loose, SetElementState(e, s)
        PROVE  stack' = <<ElementFrame(e, s)>> /\ e \in All
    BY <2>2 DEF SetElementState, All
  <2> QED BY <2>1, <2>2, NewFrames
<1>2. ~Walks(c)
  BY <1>1 DEF Walks, WalkingPc
<1>3. Stacked(stack') /\ ~SomeWalks(stack') /\ stack' # <<>> /\ stack'[1] = c
  BY <1>1, <1>2, OneFrame
<1>4. /\ Idle /\ subject' \in Loose \cup {None} /\ before' \in States /\ errors' = FALSE
      /\ UNCHANGED <<ret, pipeState, state, level, transition, readers, clock,
                     working, failures, dirty, ended>>
  BY DEF SetState, SetElementState, ChangeInv, Values, All
<1>5. ~SomeWalks(stack) /\ ~Top("store")
  <2>1. stack = <<>> /\ Len(stack) = 0
    BY <1>4 DEF Idle
  <2> QED BY <2>1 DEF SomeWalks, Top
<1>6. Bracket'
  BY <1>3, <1>4, <1>5 DEF ChangeInv, Bracket
<1>7. Paired'
  BY <1>1, <1>3, <1>4, <1>5, NoHook DEF ChangeInv
<1>8. Values'
  BY <1>4 DEF ChangeInv, Values
<1> QED BY <1>3, <1>6, <1>7, <1>8 DEF ChangeInv

LEMMA WorkerSteps ==
    ASSUME ChangeInv, NEW e \in Sources, WorkerTakes(e) \/ WorkerReturns(e) \/ WorkerEof(e)
    PROVE  ChangeInv'
<1>1. /\ UNCHANGED <<stack, ret, pipeState, level, transition, readers, clock, errors,
                     subject, before, failures, dirty>>
      /\ working' \subseteq Sources
  BY DEF WorkerTakes, WorkerReturns, WorkerEof, histories, ChangeInv, Values
<1>2. Stacked(stack)' /\ Bracket'
  BY <1>1 DEF ChangeInv, Bracket
<1>3. CASE UNCHANGED <<state, ended>>
  BY <1>1, <1>2, <1>3 DEF ChangeInv, Values, Paired, Top
<1>4. CASE WorkerEof(e)
  <2>1. /\ state \in [All -> States] /\ e \in All /\ READY \in States
        /\ state' = [state EXCEPT ![e] = READY] /\ ended' = ended \cup {e}
    BY <1>4, TopologyAssumption DEF ChangeInv, Values, Leafs, WorkerEof, READY, States, NULL, PLAYING
  <2>2. state' \in [All -> States] /\ \A x \in All : x # e => state'[x] = state[x]
    BY <2>1
  <2>3. \A x \in Leafs : x \in All
    BY DEF Leafs
  <2>4. Top("hook") => stack[1].el \in All
    <3>1. Top("hook") => 1 \in 1 .. Len(stack)
      BY EmptySeq, LenProperties DEF Top, ChangeInv, Stacked
    <3> QED BY <3>1 DEF Top, ChangeInv, Stacked, Placed
  <2>5. Paired'
    BY <1>1, <2>1, <2>2, <2>3, <2>4 DEF ChangeInv, Paired, Top
  <2>6. Values'
    BY <1>1, <2>1, <2>2 DEF ChangeInv, Values
  <2> QED BY <1>2, <2>5, <2>6 DEF ChangeInv
<1> QED BY <1>3, <1>4 DEF WorkerTakes, WorkerReturns, histories

\* The invariant of a state change: the stack of calls has its shape, the
\* walk over the elements is bracketed and the hooks are paired.
THEOREM ChangeInvariant == Spec => []ChangeInv
<1>1. Init => ChangeInv
  <2> SUFFICES ASSUME Init PROVE ChangeInv
    OBVIOUS
  <2>1. stack = <<>> /\ Len(stack) = 0 /\ stack \in Seq(FrameType)
    BY DEF Init
  <2>2. Stacked(stack) /\ ~SomeWalks(stack)
    BY <2>1 DEF Stacked, SomeWalks
  <2>3. Values
    <3>1. 0 \in States /\ NULL \in States /\ 0 \in 0 .. MaxFailures
      BY TopologyAssumption DEF States, NULL, PLAYING
    <3> QED BY <3>1 DEF Init, Values
  <2>4. Bracket
    BY <2>2 DEF Init, Bracket
  <2>5. Paired
    BY <2>1 DEF Init, Paired, Top, Leafs, NULL
  <2> QED BY <2>2, <2>3, <2>4, <2>5 DEF ChangeInv
<1>2. ChangeInv /\ [Next]_vars => ChangeInv'
  <2> SUFFICES ASSUME ChangeInv, [Next]_vars PROVE ChangeInv'
    OBVIOUS
  <2>1. CASE \E s \in States : SetState(s) \/ \E e \in Loose : SetElementState(e, s)
    BY <2>1, CallBegins
  <2>2. CASE Pipeline
    <3>1. CASE PipelineSame \/ PipelineUndone
      BY <3>1, PipelineReturns
    <3>2. CASE PipelineDecompose \/ PipelineFirst \/ PipelineSecond
      <4>1. CASE stack' # Tail(stack)
        BY <3>2, <4>1, PipelineCalls
      <4>2. CASE stack' = Tail(stack) /\ ~PipelineDecompose
        BY <3>2, <4>2, PipelineReturns
      <4>3. CASE stack' = Tail(stack) /\ PipelineDecompose
        <5>1. stack \in Seq(FrameType) /\ stack # <<>>
          BY <4>3, TopFrame DEF PipelineDecompose, At, ChangeInv
        <5>2. Frame \in FrameType
          BY <4>3, TopFrame DEF PipelineDecompose, At, ChangeInv
        <5>3. pipeState \in States /\ Frame.to \in States /\ Frame.to # pipeState
          BY <4>3, <5>2 DEF PipelineDecompose, ChangeInv, Values, FrameType
        <5> DEFINE a == [Frame EXCEPT !.from = pipeState, !.pc = "first"]
                   c == PipelineFrame(Toward(pipeState, Frame.to))
        <5>4. a \in FrameType
          BY <5>2, <5>3 DEF FrameType
        <5>5. c \in FrameType
          BY <5>3, TowardStates, NewFrames
        <5>6. stack' = <<c, a>> \o Tail(stack)
          BY <4>3 DEF PipelineDecompose, Call
        <5> HIDE DEF a, c
        <5>7. Len(stack') = Len(stack) + 1
          BY <5>1, <5>4, <5>5, <5>6, Called
        <5>8. Len(Tail(stack)) = Len(stack) - 1 /\ Len(stack) \in Nat
          BY <5>1, TopRest
        <5> QED BY <4>3, <5>7, <5>8
      <4> QED BY <4>1, <4>2, <4>3
    <3>3. CASE PipelineEnter
      BY <3>3, PipelineEnters
    <3>4. CASE PipelineWalk \/ PipelineRollback
      BY <3>4, PipelineWalks
    <3>5. CASE PipelineWalked
      BY <3>5, PipelineGoes
    <3>6. CASE PipelineFail \/ PipelineDone
      BY <3>6, PipelineLeaves
    <3> QED BY <2>2, <3>1, <3>2, <3>3, <3>4, <3>5, <3>6 DEF Pipeline
  <2>3. CASE Element
    BY <2>3, ElementEnters, ElementGoesOn, HookRuns, BinCalled, StoreRuns DEF Element
  <2>4. CASE Bin
    BY <2>4, BinRuns
  <2>5. CASE \E e \in Sources : WorkerTakes(e) \/ WorkerReturns(e) \/ WorkerEof(e)
    BY <2>5, WorkerSteps
  <2>6. CASE UNCHANGED vars
    BY <2>6 DEF vars, ChangeInv, Values, Bracket, Paired, Top
  <2> QED BY <2>1, <2>2, <2>3, <2>4, <2>5, <2>6 DEF Next
<1> QED BY <1>1, <1>2, PTL DEF Spec

\* zst_element.c:190-208: through every failure, rollback and nesting of calls
\* a hook runs on an element whose earlier hooks left it where the hook starts
\* from, and between calls el->state tells what the hooks have established.
THEOREM HooksAlwaysPaired == Spec => []HooksPaired
<1>1. ChangeInv => HooksPaired
  <2> SUFFICES ASSUME ChangeInv, NEW e \in Leafs \ ended
               PROVE  /\ At("element", "hook") /\ Frame.el = e => level[e] = Frame.from
                      /\ Idle => level[e] = state[e]
    BY DEF HooksPaired
  <2>1. ASSUME Idle PROVE level[e] = state[e]
    BY <2>1 DEF ChangeInv, Paired, Top, Idle
  <2>2. ASSUME At("element", "hook"), Frame.el = e PROVE level[e] = Frame.from
    <3>1. ~Idle /\ Frame.fn = "element" /\ Frame.pc = "hook"
      BY <2>2 DEF At
    <3>2. stack # <<>> /\ Frame = stack[1]
      BY <3>1, TopFrame DEF ChangeInv
    <3>3. Top("hook") /\ ~Top("store")
      BY <3>1, <3>2 DEF Top
    <3> QED BY <2>2, <3>2, <3>3 DEF ChangeInv, Paired
  <2> QED BY <2>1, <2>2
<1> QED BY <1>1, ChangeInvariant, PTL

\* zst_pipeline.c:446-489: state_transition_active and the read lock of the
\* elements are held by exactly the frame that walks over the elements.
THEOREM WalkAlwaysBracketed == Spec => [](TypeOK /\ TransitionBracket)
<1>1. ChangeInv => TypeOK /\ TransitionBracket
  <2> SUFFICES ASSUME ChangeInv PROVE TypeOK /\ TransitionBracket
    OBVIOUS
  <2> DEFINE W == {k \in DOMAIN stack : /\ stack[k].fn = "pipeline"
                                        /\ stack[k].pc \in {"walk", "walked", "rollback"}}
  <2>1. stack \in Seq(FrameType) /\ DOMAIN stack = 1 .. Len(stack)
    BY LenProperties DEF ChangeInv, Stacked
  <2>2. Len(stack) \in Nat /\ \A k \in DOMAIN stack : stack[k] \in FrameType
    BY <2>1, ElementOfSeq, LenProperties
  <2>3. W = {k \in 1 .. Len(stack) : Walks(stack[k])}
    BY <2>1 DEF Walks, WalkingPc
  <2>4. \A j, k \in W : j = k
    <3> SUFFICES ASSUME NEW j \in W, NEW k \in W, j < k PROVE FALSE
      BY <2>2, <2>3
    <3> QED BY <2>3 DEF Walks, ChangeInv, Stacked, CallingPc, WalkingPc
  <2>5. transition <=> W # {}
    BY <2>3 DEF ChangeInv, Bracket, SomeWalks
  <2>6. readers = Cardinality(W) /\ readers \in 0 .. 1
    <3>1. CASE W = {}
      BY <3>1, <2>5, FS_EmptySet DEF ChangeInv, Bracket
    <3>2. CASE W # {}
      <4>1. PICK k \in W : W = {k}
        BY <3>2, <2>4
      <4>2. Cardinality(W) = 1
        BY <4>1, FS_Singleton
      <4> QED BY <3>2, <4>2, <2>5 DEF ChangeInv, Bracket
    <3> QED BY <3>1, <3>2
  <2>7. TypeOK
    BY <2>2, <2>6 DEF TypeOK, ChangeInv, Values
  <2>8. TransitionBracket
    BY <2>5, <2>6 DEF TransitionBracket
  <2> QED BY <2>7, <2>8
<1> QED BY <1>1, ChangeInvariant, PTL

-----------------------------------------------------------------------------
(* What a change that is undone has to go by.  The invariant says for every *)
(* frame where it has left its element, and for adjacent frames what the    *)
(* caller wants of the callee.  st, en, ps and rt are state, ended,         *)
(* pipeState and ret; nothing is claimed of an element that has ended, or   *)
(* of anything once a hook has failed in a rollback.                        *)

Kids(x) == IF x \in Bins THEN ToSet(Children[x]) ELSE {}

Is(st, en, e, s) == e \in en \/ st[e] = s

\* x and its children are in state s.
Unit(st, en, x, s) == Is(st, en, x, s) /\ \A c \in Kids(x) : Is(st, en, c, s)

Undoes(f) == f.pc \in {"undo", "rollback"}

\* The first state on the frame's way, where the call it waits for starts, and
\* where that call shall lead
Mid(f) == Toward(f.from, f.to)
Begin(f) ==
    IF f.pc \in {"second", "undo"} THEN Mid(f) ELSE IF f.pc = "rollback" THEN f.to ELSE f.from
Goal(f) ==
    IF f.pc = "first" THEN Mid(f) ELSE IF Undoes(f) THEN f.from ELSE f.to

\* The place in the walk whose element the frame waits for, and this element
FluxAt(f) ==
    IF f.pc = "walked" THEN f.i ELSE IF f.fn = "pipeline" THEN f.i + 1 ELSE f.i - 1
Flux(f) ==
    IF f.fn = "pipeline" THEN Nth(f.to > f.from, FluxAt(f)) ELSE Children[f.el][FluxAt(f)]

\* How the fields of a frame go together
Fits(f) ==
    /\ f.pc \in WalkingPc \cup {"hook", "bin", "store"} => f.from # f.to /\ Mid(f) = f.to
    /\ f.pc \in CallingPc => f.from # f.to /\ Mid(f) # f.to
    /\ f.fn = "element" /\ f.pc = "undo" => f.from < f.to
    /\ Undoes(f) => f.r = "ERROR"
    /\ f.fn = "pipeline" /\ f.pc = "walk" => f.i \in 1 .. Len(Elements) + 1
    /\ f.fn = "pipeline" /\ f.pc = "rollback" => f.i + 1 \in DOMAIN Elements
    /\ f.fn = "bin" /\ f.pc = "walk" => f.i \in 1 .. Len(Children[f.el]) + 1
    /\ f.fn = "bin" /\ f.pc = "rollback" => f.i <= f.lim

\* What g, somewhere above f, may be about
Over(g, f) ==
    /\ f.fn = "bin" => /\ g.fn = "element" /\ g.el = Flux(f)
                       /\ f.pc = "rollback" => f.i >= 2
    /\ Walks(f) => \/ g.fn = "element" /\ g.el \in {Flux(f)} \cup Kids(Flux(f))
                   \/ g.fn = "bin" /\ g.el = Flux(f)
    /\ f.fn = "element" => \/ g.fn = "element" /\ g.el \in {f.el} \cup Kids(f.el)
                           \/ g.fn = "bin" /\ g.el = f.el

\* What the caller f has asked of g
Asked(g, f) ==
    /\ g.to = Goal(f)
    /\ f.pc \in CallingPc => g.fn = f.fn /\ (f.fn = "element" => g.el = f.el)
    /\ f.pc = "bin" => g.fn = "bin" /\ g.el = f.el
    /\ f.pc \in {"walked", "rollback"} => g.fn = "element" /\ g.el = Flux(f)

Bottom(g, subj) ==
    \/ g.fn = "pipeline" /\ subj = None
    \/ g.fn = "element" /\ g.el = subj /\ subj \in Loose

\* The shape of a stack, whatever failed
Shaped(s, subj) ==
    /\ \A k \in 1 .. Len(s) : Fits(s[k])
    /\ \A j, k \in 1 .. Len(s) : j < k => Over(s[j], s[k])
    /\ \A k \in 1 .. Len(s) - 1 : Asked(s[k], s[k + 1])
    /\ s # <<>> => /\ Bottom(s[Len(s)], subj)
                   /\ s[1].fn # "pipeline" /\ subj = None => SomeWalks(s)

\* An error of zst_pipeline_set_state has been posted.
Posted(s, rt, err, subj) ==
    /\ s = <<>> /\ rt = "ERROR" /\ subj = None => err
    /\ s # <<>> /\ s[1].fn = "pipeline" /\ s[1].pc \in {"first", "second"} /\ rt = "ERROR" => err
    /\ \A k \in 1 .. Len(s) : s[k].fn = "pipeline" /\ s[k].pc = "undo" => err

\* As long as no rollback failed, there is one at a time, and what was called
\* in it succeeds.
OneUndo(s, rt) ==
    /\ \A j, k \in 1 .. Len(s) : Undoes(s[j]) /\ Undoes(s[k]) => j = k
    /\ (\E k \in 2 .. Len(s) : Undoes(s[k])) /\ s[1].pc \in {"first", "second", "walked", "bin"} =>
          rt = "OK"

\* Where a walk has left its k-th element
Place(f, k, rt) ==
    IF \/ f.pc = "walk" /\ k < f.i
       \/ f.pc = "walked" /\ (k < f.i \/ (k = f.i /\ rt = "OK"))
       \/ f.pc = "rollback" /\ f.fn = "pipeline" /\ k <= f.i
       \/ f.pc = "rollback" /\ f.fn = "bin" /\ f.i <= k /\ k < f.lim
    THEN f.to ELSE f.from

BinLeft(f, st, en, rt, K) ==
    /\ st[f.el] = f.from
    /\ \A k \in DOMAIN Children[f.el] \ K : Is(st, en, Children[f.el][k], Place(f, k, rt))
PipeLeft(f, st, en, ps, rt, K) ==
    /\ ps = f.from
    /\ \A k \in DOMAIN Elements \ K : Unit(st, en, Nth(f.to > f.from, k), Place(f, k, rt))

\* The state at the top frame
ElementTopped(f, st, en, rt) ==
    /\ f.pc = "enter" => \A c \in Kids(f.el) : Is(st, en, c, st[f.el])
    /\ f.pc = "hook" => Unit(st, en, f.el, f.from)
    /\ f.pc = "store" => Is(st, en, f.el, f.from) /\ \A c \in Kids(f.el) : Is(st, en, c, f.to)
    /\ f.pc = "bin" => /\ Is(st, en, f.el, f.from)
                       /\ \A c \in Kids(f.el) : Is(st, en, c, IF rt = "OK" THEN f.to ELSE f.from)
    /\ f.pc = "first" => Unit(st, en, f.el, IF rt = "OK" THEN Mid(f) ELSE f.from)
    /\ f.pc = "second" /\ rt = "OK" => Unit(st, en, f.el, f.to)
    /\ f.pc = "second" /\ rt # "OK" /\ f.from < f.to => Unit(st, en, f.el, Mid(f))
    /\ f.pc = "second" /\ rt # "OK" =>
          \E u \in States : u <= Mid(f) /\ Unit(st, en, f.el, u)
    /\ f.pc = "undo" => Unit(st, en, f.el, f.from)
PipelineTopped(f, st, en, ps, rt) ==
    /\ f.pc = "first" => ps = IF rt = "OK" THEN Mid(f) ELSE f.from
    /\ f.pc = "second" => ps = IF rt = "OK" THEN f.to ELSE Mid(f)
    /\ f.pc = "undo" => ps = f.from
    /\ f.pc \in WalkingPc => PipeLeft(f, st, en, ps, rt, {})
Topped(f, st, en, ps, rt) ==
    /\ f.fn = "element" => ElementTopped(f, st, en, rt)
    /\ f.fn = "pipeline" => PipelineTopped(f, st, en, ps, rt)
    /\ f.fn = "bin" => BinLeft(f, st, en, rt, {})

\* The state at a frame below the top
Lowered(f, st, en, ps) ==
    /\ f.fn = "bin" => BinLeft(f, st, en, "OK", {FluxAt(f)})
    /\ Walks(f) => /\ PipeLeft(f, st, en, ps, "OK", {FluxAt(f)})
                   /\ Is(st, en, Flux(f), f.from) \/ Is(st, en, Flux(f), f.to)
    /\ f.fn = "element" /\ f.pc = "bin" => Is(st, en, f.el, f.from)

\* Where a frame has started, or starts when it has not read the state yet
Cur(g, st, ps) ==
    IF g.pc # "enter" THEN g.from ELSE IF g.fn = "pipeline" THEN ps ELSE st[g.el]

\* The callee g of f starts where f wants it to.
Begun(g, f, st, en, ps) == (g.fn = "element" /\ g.el \in en) \/ Cur(g, st, ps) = Begin(f)

\* A frame of the element that a walk waits for makes the step of the walk.
Direct(g, f, st, en, ps) ==
    Walks(f) /\ g.fn = "element" /\ g.el = Flux(f) /\ g.el \notin en =>
        g.to = Goal(f) /\ Cur(g, st, ps) = Begin(f)

Clean(s, st, en, ps, rt, subj, bef) ==
    /\ OneUndo(s, rt)
    /\ s # <<>> => Topped(s[1], st, en, ps, rt) /\ Cur(s[Len(s)], st, ps) = bef
    /\ \A k \in 2 .. Len(s) : Lowered(s[k], st, en, ps)
    /\ \A k \in 1 .. Len(s) - 1 : Begun(s[k], s[k + 1], st, en, ps)
    /\ \A j, k \in 1 .. Len(s) : j < k => Direct(s[j], s[k], st, en, ps)
    /\ ~SomeWalks(s) => \A x \in ToSet(Elements) : Unit(st, en, x, ps)
    /\ \A b \in Loose : s = <<>> \/ b # subj => \A c \in Kids(b) : Is(st, en, c, st[b])
    /\ s = <<>> /\ rt = "ERROR" => IF subj = None THEN ps = bef ELSE st[subj] <= bef

UndoInv ==
    /\ Shaped(stack, subject) /\ Posted(stack, ret, errors, subject)
    /\ ~dirty => Clean(stack, state, ended, pipeState, ret, subject, before)

-----------------------------------------------------------------------------
(* States, parents and places.                                              *)

LEMMA OneStep ==
    ASSUME NEW a \in States, NEW b \in States, a # b
    PROVE  LET m == Toward(a, b)
           IN  /\ m \in States /\ m # a /\ Via(a, b) = m /\ Toward(a, m) = m /\ Toward(m, a) = a
               /\ a < b => a < m /\ m <= b
               /\ b < a => m < a /\ b <= m
               /\ m = b => Toward(b, a) = a
BY DEF Toward, Via, States, NULL, READY, PAUSED, PLAYING

LEMMA Family ==
    /\ \A b \in Bins : b \in ToSet(Elements) \cup Loose
    /\ \A x : \A c \in Kids(x) : /\ c \in All /\ c \notin Bins /\ Kids(c) = {} /\ x \in Bins
                                 /\ c \notin ToSet(Elements) /\ c \notin Loose
    /\ \A x, y : x # y => Kids(x) \cap Kids(y) = {}
    /\ \A e \in Sources : e \in All /\ e \notin Bins /\ Kids(e) = {} /\ e \notin Loose
    /\ \A x \in Loose : x \notin ToSet(Elements) /\ x \in All /\ x # None
    /\ \A x \in ToSet(Elements) : x \in All
<1>1. \A b \in Bins : b \in ToSet(Elements) \cup Loose
  BY TopologyAssumption
<1>2. ASSUME NEW x, NEW c \in Kids(x)
      PROVE  /\ c \in All /\ c \notin Bins /\ Kids(c) = {} /\ x \in Bins
             /\ c \notin ToSet(Elements) /\ c \notin Loose
  <2>1. x \in Bins /\ c \in ToSet(Children[x])
    BY <1>2 DEF Kids
  <2>2. c \in All
    BY <2>1 DEF All
  <2>3. c \notin ToSet(Elements) /\ c \notin Loose
    BY <2>1, ParentAssumption
  <2>4. c \notin Bins
    BY <1>1, <2>3
  <2> QED BY <2>1, <2>2, <2>3, <2>4 DEF Kids
<1>3. ASSUME NEW x, NEW y, x # y PROVE Kids(x) \cap Kids(y) = {}
  <2>1. CASE x \in Bins /\ y \in Bins
    BY <1>3, <2>1, ParentAssumption DEF Kids
  <2>2. CASE ~(x \in Bins /\ y \in Bins)
    BY <2>2 DEF Kids
  <2> QED BY <2>1, <2>2
<1>4. ASSUME NEW e \in Sources PROVE e \in All /\ e \notin Bins /\ Kids(e) = {} /\ e \notin Loose
  BY TopologyAssumption DEF Leafs, Kids
<1>5. \A x \in Loose : x \notin ToSet(Elements) /\ x \in All /\ x # None
  BY TopologyAssumption, ParentAssumption DEF All
<1>6. \A x \in ToSet(Elements) : x \in All
  BY DEF All
<1> QED BY <1>1, <1>2, <1>3, <1>4, <1>5, <1>6

LEMMA Walk ==
    ASSUME NEW up
    PROVE  /\ \A k \in DOMAIN Elements : Nth(up, k) \in ToSet(Elements)
           /\ \A j, k \in DOMAIN Elements : Nth(up, j) = Nth(up, k) => j = k
           /\ \A x \in ToSet(Elements) : \E k \in DOMAIN Elements : x = Nth(up, k)
<1> DEFINE p(k) == IF up THEN k ELSE Len(Elements) + 1 - k
<1>1. DOMAIN Elements = 1 .. Len(Elements) /\ Len(Elements) \in Nat
  BY SequencesGiven
<1>2. \A k \in DOMAIN Elements : p(k) \in DOMAIN Elements /\ p(p(k)) = k
  BY <1>1
<1>3. \A j, k \in DOMAIN Elements : p(j) = p(k) => j = k
  BY <1>1
<1>4. \A k : Nth(up, k) = Elements[p(k)]
  BY DEF Nth
<1> HIDE DEF p
<1>5. \A k \in DOMAIN Elements : Nth(up, k) \in ToSet(Elements)
  BY <1>2, <1>4 DEF ToSet
<1>6. \A j, k \in DOMAIN Elements : Nth(up, j) = Nth(up, k) => j = k
  BY <1>2, <1>3, <1>4, ParentAssumption
<1>7. \A x \in ToSet(Elements) : \E k \in DOMAIN Elements : x = Nth(up, k)
  BY <1>2, <1>4 DEF ToSet
<1> QED BY <1>5, <1>6, <1>7

LEMMA KidsWalk ==
    ASSUME NEW b \in Bins
    PROVE  /\ \A k \in DOMAIN Children[b] : Children[b][k] \in Kids(b)
           /\ \A j, k \in DOMAIN Children[b] : Children[b][j] = Children[b][k] => j = k
           /\ \A c \in Kids(b) : \E k \in DOMAIN Children[b] : c = Children[b][k]
BY ParentAssumption DEF Kids, ToSet

\* What the fields of a frame are
LEMMA Fields ==
    ASSUME NEW f \in FrameType
    PROVE  /\ f.to \in States /\ f.from \in States /\ f.i \in Nat /\ f.lim \in Nat
           /\ f.r \in {"OK", "ERROR"} /\ f.fn \in {"pipeline", "element", "bin"}
BY DEF FrameType

\* Below the top, the element a frame waits for is where its walk is.
LEMMA FluxIs ==
    ASSUME NEW f \in FrameType, Placed(f), Fits(f), f.pc \in {"walked", "rollback"},
           f.fn = "bin" /\ f.pc = "rollback" => f.i >= 2
    PROVE  /\ f.fn = "pipeline" => /\ FluxAt(f) \in DOMAIN Elements /\ Flux(f) \in ToSet(Elements)
                                   /\ Flux(f) = Nth(f.to > f.from, FluxAt(f))
           /\ f.fn = "bin" => /\ FluxAt(f) \in DOMAIN Children[f.el] /\ Flux(f) \in Kids(f.el)
                              /\ Flux(f) = Children[f.el][FluxAt(f)] /\ f.el \in Bins
<1>1. f.i \in Nat /\ f.lim \in Nat
  BY Fields
<1>2. CASE f.fn = "pipeline"
  <2>1. FluxAt(f) \in DOMAIN Elements /\ Flux(f) = Nth(f.to > f.from, FluxAt(f))
    BY <1>2 DEF Placed, Fits, FluxAt, Flux
  <2> QED BY <1>2, <2>1, Walk
<1>3. CASE f.fn = "bin"
  <2>1. f.el \in Bins /\ Flux(f) = Children[f.el][FluxAt(f)]
    BY <1>3 DEF Placed, Flux
  <2>2. DOMAIN Children[f.el] = 1 .. Len(Children[f.el]) /\ Len(Children[f.el]) \in Nat
    BY <2>1, SequencesGiven
  <2>3. FluxAt(f) \in DOMAIN Children[f.el]
    <3>1. CASE f.pc = "walked"
      BY <1>3, <3>1 DEF Placed, FluxAt
    <3>2. CASE f.pc = "rollback"
      <4>1. f.lim \in DOMAIN Children[f.el] /\ f.i >= 2 /\ f.i <= f.lim /\ FluxAt(f) = f.i - 1
        BY <1>3, <3>2 DEF Placed, Fits, FluxAt
      <4> QED BY <1>1, <2>2, <4>1
    <3> QED BY <3>1, <3>2
  <2> QED BY <1>3, <2>1, <2>3, KidsWalk
<1> QED BY <1>2, <1>3

-----------------------------------------------------------------------------
(* The invariant and the three things that happen to a stack.               *)

NoUndoBelow(s) == \A k \in 2 .. Len(s) : ~Undoes(s[k])

SameCall(a, h) == a.fn = h.fn /\ a.el = h.el /\ a.to = h.to

\* The indexes of a changed stack
LEMMA Going ==
    ASSUME NEW s, Stacked(s), s # <<>>, NEW a \in FrameType
    PROVE  LET t == <<a>> \o Tail(s)
           IN  /\ Len(s) \in Nat \ {0} /\ Len(t) = Len(s) /\ t # <<>> /\ t[1] = a
               /\ \A k \in 2 .. Len(s) : t[k] = s[k]
<1>1. /\ s \in Seq(FrameType) /\ <<a>> \o Tail(s) \in Seq(FrameType)
      /\ Len(<<a>> \o Tail(s)) = Len(s) /\ (<<a>> \o Tail(s))[1] = a
      /\ \A k \in 2 .. Len(s) : (<<a>> \o Tail(s))[k] = s[k]
  BY Replaced DEF Stacked
<1>2. Len(s) \in Nat \ {0}
  BY <1>1, TopRest
<1> DEFINE t == <<a>> \o Tail(s)
<1> HIDE DEF t
<1>3. t # <<>>
  BY <1>1, <1>2, EmptySeq DEF t
<1> QED BY <1>1, <1>2, <1>3 DEF t

LEMMA Growing ==
    ASSUME NEW s, Stacked(s), s # <<>>, NEW a \in FrameType, NEW c \in FrameType
    PROVE  LET t == <<c, a>> \o Tail(s)
           IN  /\ Len(s) \in Nat \ {0} /\ Len(t) = Len(s) + 1 /\ t # <<>> /\ t[1] = c /\ t[2] = a
               /\ \A k \in 3 .. Len(s) + 1 : t[k] = s[k - 1]
<1>1. /\ s \in Seq(FrameType) /\ <<c, a>> \o Tail(s) \in Seq(FrameType)
      /\ Len(<<c, a>> \o Tail(s)) = Len(s) + 1 /\ (<<c, a>> \o Tail(s))[1] = c
      /\ (<<c, a>> \o Tail(s))[2] = a
      /\ \A k \in 3 .. Len(s) + 1 : (<<c, a>> \o Tail(s))[k] = s[k - 1]
  BY Called DEF Stacked
<1>2. Len(s) \in Nat \ {0}
  BY <1>1, TopRest
<1> DEFINE t == <<c, a>> \o Tail(s)
<1> HIDE DEF t
<1>3. t # <<>>
  BY <1>1, <1>2, EmptySeq DEF t
<1> QED BY <1>1, <1>2, <1>3 DEF t

LEMMA Shrinking ==
    ASSUME NEW s, Stacked(s), s # <<>>
    PROVE  /\ Len(s) \in Nat \ {0} /\ Len(Tail(s)) = Len(s) - 1
           /\ Tail(s) = <<>> <=> Len(s) = 1
           /\ \A k \in 1 .. Len(s) - 1 : Tail(s)[k] = s[k + 1]
<1>1. /\ s \in Seq(FrameType) /\ Len(s) \in Nat \ {0} /\ Tail(s) \in Seq(FrameType)
      /\ Len(Tail(s)) = Len(s) - 1 /\ \A k \in 1 .. Len(s) - 1 : Tail(s)[k] = s[k + 1]
  BY TopRest DEF Stacked
<1> DEFINE t == Tail(s)
<1> HIDE DEF t
<1>2. t = <<>> <=> Len(s) = 1
  BY <1>1, EmptySeq DEF t
<1> QED BY <1>1, <1>2 DEF t

LEMMA OverSame ==
    ASSUME NEW a, NEW h, NEW f, SameCall(a, h)
    PROVE  /\ Over(h, f) => Over(a, f)
           /\ Asked(h, f) => Asked(a, f)
           /\ \A subj : Bottom(h, subj) => Bottom(a, subj)
BY DEF SameCall, Over, Asked, Bottom

LEMMA ShapedGoes ==
    ASSUME NEW s, Stacked(s), s # <<>>, NEW subj, Shaped(s, subj),
           NEW a \in FrameType, Fits(a), SameCall(a, s[1]),
           SomeWalks(s) => SomeWalks(<<a>> \o Tail(s))
    PROVE  Shaped(<<a>> \o Tail(s), subj)
<1> DEFINE t == <<a>> \o Tail(s)
<1>1. /\ Len(s) \in Nat \ {0} /\ Len(t) = Len(s) /\ t # <<>> /\ t[1] = a
      /\ \A k \in 2 .. Len(s) : t[k] = s[k]
  BY Going
<1>2. SomeWalks(s) => SomeWalks(t)
  OBVIOUS
<1> HIDE DEF t
<1>3. \A k \in 1 .. Len(s) : k = 1 \/ k \in 2 .. Len(s)
  BY <1>1
<1>4. \A k \in 1 .. Len(t) : Fits(t[k])
  BY <1>1, <1>3 DEF Shaped
<1>5. ASSUME NEW j \in 1 .. Len(t), NEW k \in 1 .. Len(t), j < k PROVE Over(t[j], t[k])
  <2>1. k \in 2 .. Len(s) /\ t[k] = s[k] /\ Over(s[j], s[k])
    BY <1>1, <1>5 DEF Shaped
  <2>2. CASE j = 1
    BY <1>1, <2>1, <2>2, OverSame
  <2>3. CASE j # 1
    BY <1>1, <1>3, <2>1, <2>3
  <2> QED BY <2>2, <2>3
<1>6. ASSUME NEW k \in 1 .. Len(t) - 1 PROVE Asked(t[k], t[k + 1])
  <2>1. k + 1 \in 2 .. Len(s) /\ t[k + 1] = s[k + 1] /\ Asked(s[k], s[k + 1]) /\ k \in 1 .. Len(s)
    BY <1>1, <1>6 DEF Shaped
  <2>2. CASE k = 1
    <3> DEFINE f == s[k + 1]
    <3>1. Asked(s[1], f) /\ t[k] = a /\ t[k + 1] = f
      BY <1>1, <2>1, <2>2
    <3> HIDE DEF f
    <3>2. Asked(a, f)
      BY <3>1, OverSame
    <3> QED BY <3>1, <3>2
  <2>3. CASE k # 1
    BY <1>1, <1>3, <2>1, <2>3
  <2> QED BY <2>2, <2>3
<1>7. Bottom(t[Len(t)], subj)
  <2>1. Bottom(s[Len(s)], subj)
    BY DEF Shaped
  <2>2. CASE Len(s) = 1
    BY <1>1, <2>1, <2>2, OverSame
  <2>3. CASE Len(s) # 1
    BY <1>1, <2>1, <2>3
  <2> QED BY <2>2, <2>3
<1>8. t[1].fn # "pipeline" /\ subj = None => SomeWalks(t)
  BY <1>1, <1>2 DEF Shaped, SameCall
<1> QED BY <1>4, <1>5, <1>6, <1>7, <1>8 DEF Shaped, t

LEMMA ShapedGrows ==
    ASSUME NEW s, Stacked(s), s # <<>>, NEW subj, Shaped(s, subj),
           NEW a \in FrameType, Fits(a), SameCall(a, s[1]),
           NEW c \in FrameType, Fits(c), Over(c, a), Asked(c, a),
           \A k \in 2 .. Len(s) : Over(c, s[k]),
           c.fn # "pipeline" /\ subj = None => SomeWalks(<<c, a>> \o Tail(s))
    PROVE  Shaped(<<c, a>> \o Tail(s), subj)
<1> DEFINE t == <<c, a>> \o Tail(s)
<1>1. /\ Len(s) \in Nat \ {0} /\ Len(t) = Len(s) + 1 /\ t # <<>> /\ t[1] = c /\ t[2] = a
      /\ \A k \in 3 .. Len(s) + 1 : t[k] = s[k - 1]
  BY Growing
<1>2. c.fn # "pipeline" /\ subj = None => SomeWalks(t)
  OBVIOUS
<1> HIDE DEF t
<1>3. \A k \in 1 .. Len(t) : k = 1 \/ k = 2 \/ (k \in 3 .. Len(s) + 1 /\ k - 1 \in 2 .. Len(s)
                                                /\ k - 1 \in 1 .. Len(s) /\ t[k] = s[k - 1])
  BY <1>1
<1>4. \A k \in 1 .. Len(t) : Fits(t[k])
  BY <1>1, <1>3 DEF Shaped
<1>5. ASSUME NEW j \in 1 .. Len(t), NEW k \in 1 .. Len(t), j < k PROVE Over(t[j], t[k])
  <2>1. CASE k = 2
    <3>1. j = 1
      BY <1>1, <1>5, <2>1
    <3> QED BY <1>1, <2>1, <3>1
  <2>2. CASE k # 2
    <3>1. k - 1 \in 2 .. Len(s) /\ k - 1 \in 1 .. Len(s) /\ t[k] = s[k - 1]
      BY <1>1, <1>3, <1>5, <2>2
    <3>2. CASE j = 1
      BY <1>1, <3>1, <3>2
    <3>3. CASE j = 2
      <4>1. Over(s[1], s[k - 1])
        BY <1>1, <3>1 DEF Shaped
      <4> QED BY <1>1, <3>1, <3>3, <4>1, OverSame
    <3>4. CASE j # 1 /\ j # 2
      <4>1. j - 1 \in 1 .. Len(s) /\ t[j] = s[j - 1] /\ j - 1 < k - 1
        BY <1>1, <1>3, <1>5, <3>4
      <4> QED BY <3>1, <4>1 DEF Shaped
    <3> QED BY <3>2, <3>3, <3>4
  <2> QED BY <2>1, <2>2
<1>6. ASSUME NEW k \in 1 .. Len(t) - 1 PROVE Asked(t[k], t[k + 1])
  <2>1. CASE k = 1
    BY <1>1, <2>1
  <2>2. CASE k = 2
    <3>0. 1 \in 1 .. Len(s) - 1 /\ t[3] = s[2] /\ 1 + 1 = 2
      BY <1>1, <1>6, <2>2
    <3>1. t[3] = s[2] /\ Asked(s[1], s[2])
      BY <3>0 DEF Shaped
    <3> DEFINE f == s[2]
    <3> HIDE DEF f
    <3>3. Asked(s[1], f) => Asked(a, f)
      BY OverSame
    <3>2. Asked(a, s[2])
      BY <3>1, <3>3 DEF f
    <3> QED BY <1>1, <2>2, <3>1, <3>2
  <2>3. CASE k # 1 /\ k # 2
    <3>1. k - 1 \in 1 .. Len(s) - 1 /\ t[k] = s[k - 1] /\ t[k + 1] = s[(k - 1) + 1]
      BY <1>1, <1>6, <2>3
    <3> QED BY <3>1 DEF Shaped
  <2> QED BY <2>1, <2>2, <2>3
<1>7. Bottom(t[Len(t)], subj)
  <2>1. Bottom(s[Len(s)], subj)
    BY DEF Shaped
  <2>2. CASE Len(s) = 1
    BY <1>1, <2>1, <2>2, OverSame
  <2>3. CASE Len(s) # 1
    <3>0. Len(s) \in Nat \ {0} /\ Len(t) = Len(s) + 1
      BY <1>1
    <3> DEFINE n == Len(s)
    <3>4. n \in Nat \ {0} /\ n # 1
      BY <2>3, <3>0
    <3> HIDE DEF n
    <3>5. n + 1 \in 3 .. n + 1 /\ (n + 1) - 1 = n
      BY <3>4
    <3>1. Len(t) \in 3 .. Len(s) + 1 /\ Len(t) - 1 = Len(s)
      BY <3>0, <3>5 DEF n
    <3>2. t[Len(t)] = s[Len(t) - 1]
      BY <1>1, <3>1
    <3>3. t[Len(t)] = s[Len(s)]
      BY <3>1, <3>2
    <3> QED BY <2>1, <3>3
  <2> QED BY <2>2, <2>3
<1> QED BY <1>1, <1>2, <1>4, <1>5, <1>6, <1>7 DEF Shaped, t

LEMMA ShapedShrinks ==
    ASSUME NEW s, Stacked(s), s # <<>>, NEW subj, Shaped(s, subj)
    PROVE  Shaped(Tail(s), subj)
<1> DEFINE t == Tail(s)
<1>1. /\ Len(s) \in Nat \ {0} /\ Len(t) = Len(s) - 1 /\ (t = <<>> <=> Len(s) = 1)
      /\ \A k \in 1 .. Len(s) - 1 : t[k] = s[k + 1]
  BY Shrinking
<1>2. ~Walks(s[1]) => (SomeWalks(t) <=> SomeWalks(s))
  BY StackShrinks
<1> HIDE DEF t
<1>3. \A k \in 1 .. Len(t) : k + 1 \in 1 .. Len(s) /\ t[k] = s[k + 1]
  BY <1>1
<1>4. \A k \in 1 .. Len(t) : Fits(t[k])
  BY <1>3 DEF Shaped
<1>5. ASSUME NEW j \in 1 .. Len(t), NEW k \in 1 .. Len(t), j < k PROVE Over(t[j], t[k])
  <2>1. j + 1 < k + 1
    BY <1>1, <1>5
  <2> QED BY <1>3, <2>1 DEF Shaped
<1>6. ASSUME NEW k \in 1 .. Len(t) - 1 PROVE Asked(t[k], t[k + 1])
  <2>1. k + 1 \in 1 .. Len(s) - 1 /\ t[k] = s[k + 1] /\ t[k + 1] = s[(k + 1) + 1]
    BY <1>1, <1>6
  <2> QED BY <2>1 DEF Shaped
<1>7. ASSUME t # <<>> PROVE Bottom(t[Len(t)], subj) /\ (t[1].fn # "pipeline" /\ subj = None => SomeWalks(t))
  <2>1. Len(t) \in 1 .. Len(s) - 1 /\ t[Len(t)] = s[Len(s)] /\ t[1] = s[2] /\ Len(s) >= 2
    BY <1>1, <1>7
  <2>2. t[1].fn # "pipeline" => s[1].fn # "pipeline"
    BY <2>1, <1>1 DEF Stacked
  <2>3. t[1].fn # "pipeline" => ~Walks(s[1])
    BY <2>2 DEF Walks
  <2> QED BY <1>2, <2>1, <2>2, <2>3 DEF Shaped
<1> QED BY <1>4, <1>5, <1>6, <1>7 DEF Shaped, t


\* What is asked of the new top is asked of the old one too.
LEMMA CurSame ==
    ASSUME NEW a, NEW h, NEW f, NEW st, NEW en, NEW ps,
           SameCall(a, h), Cur(a, st, ps) = Cur(h, st, ps)
    PROVE  /\ Begun(h, f, st, en, ps) => Begun(a, f, st, en, ps)
           /\ Direct(h, f, st, en, ps) => Direct(a, f, st, en, ps)
<1>1. a.fn = h.fn /\ a.el = h.el /\ a.to = h.to
  BY DEF SameCall
<1>2. Begun(h, f, st, en, ps) => Begun(a, f, st, en, ps)
  BY <1>1 DEF Begun
<1>3. Direct(h, f, st, en, ps) => Direct(a, f, st, en, ps)
  BY <1>1 DEF Direct
<1> QED BY <1>2, <1>3

LEMMA CleanGoes ==
    ASSUME NEW s, Stacked(s), s # <<>>, NEW st, NEW en, NEW ps, NEW rt, NEW subj, NEW bef,
           Clean(s, st, en, ps, rt, subj, bef),
           NEW a \in FrameType, SameCall(a, s[1]), Cur(a, st, ps) = Cur(s[1], st, ps),
           Topped(a, st, en, ps, rt), a.pc \notin {"first", "second", "walked", "bin"},
           Undoes(a) => NoUndoBelow(s), SomeWalks(s) => SomeWalks(<<a>> \o Tail(s))
    PROVE  Clean(<<a>> \o Tail(s), st, en, ps, rt, subj, bef)
<1> DEFINE t == <<a>> \o Tail(s)
<1>1. /\ Len(s) \in Nat \ {0} /\ Len(t) = Len(s) /\ t # <<>> /\ t[1] = a
      /\ \A k \in 2 .. Len(s) : t[k] = s[k]
  BY Going
<1>2. SomeWalks(s) => SomeWalks(t)
  OBVIOUS
<1> HIDE DEF t
<1>3. \A k \in 1 .. Len(t) : k = 1 \/ (k \in 2 .. Len(s) /\ k \in 1 .. Len(s) /\ t[k] = s[k])
  BY <1>1
<1>4. OneUndo(t, rt)
  <2>1. ASSUME NEW j \in 1 .. Len(t), NEW k \in 1 .. Len(t), Undoes(t[j]), Undoes(t[k]) PROVE j = k
    <3>1. CASE j = 1 \/ k = 1
      BY <1>1, <1>3, <2>1, <3>1 DEF NoUndoBelow
    <3>2. CASE j # 1 /\ k # 1
      BY <1>3, <2>1, <3>2 DEF Clean, OneUndo
    <3> QED BY <3>1, <3>2
  <2> QED BY <1>1, <2>1 DEF OneUndo
<1>5. Cur(t[Len(t)], st, ps) = bef
  <2>1. Cur(s[Len(s)], st, ps) = bef
    BY DEF Clean
  <2>2. CASE Len(s) = 1
    BY <1>1, <2>1, <2>2
  <2>3. CASE Len(s) # 1
    BY <1>1, <2>1, <2>3
  <2> QED BY <2>2, <2>3
<1>6. \A k \in 2 .. Len(t) : Lowered(t[k], st, en, ps)
  BY <1>1 DEF Clean
<1>7. ASSUME NEW k \in 1 .. Len(t) - 1 PROVE Begun(t[k], t[k + 1], st, en, ps)
  <2>1. /\ k + 1 \in 2 .. Len(s) /\ t[k + 1] = s[k + 1] /\ k \in 1 .. Len(s)
        /\ Begun(s[k], s[k + 1], st, en, ps)
    BY <1>1, <1>7 DEF Clean
  <2>2. CASE k = 1
    <3> DEFINE f == s[k + 1]
    <3>1. Begun(s[1], f, st, en, ps) /\ t[k] = a /\ t[k + 1] = f
      BY <1>1, <2>1, <2>2
    <3> HIDE DEF f
    <3>2. Begun(a, f, st, en, ps)
      BY <3>1, CurSame
    <3> QED BY <3>1, <3>2
  <2>3. CASE k # 1
    BY <1>1, <1>3, <2>1, <2>3
  <2> QED BY <2>2, <2>3
<1>8. ASSUME NEW j \in 1 .. Len(t), NEW k \in 1 .. Len(t), j < k
      PROVE  Direct(t[j], t[k], st, en, ps)
  <2>1. k \in 2 .. Len(s) /\ t[k] = s[k] /\ Direct(s[j], s[k], st, en, ps)
    BY <1>1, <1>8 DEF Clean
  <2>2. CASE j = 1
    BY <1>1, <2>1, <2>2, CurSame
  <2>3. CASE j # 1
    BY <1>1, <1>3, <2>1, <2>3
  <2> QED BY <2>2, <2>3
<1>9. /\ ~SomeWalks(t) => \A x \in ToSet(Elements) : Unit(st, en, x, ps)
      /\ \A b \in Loose : t = <<>> \/ b # subj => \A c \in Kids(b) : Is(st, en, c, st[b])
  BY <1>1, <1>2 DEF Clean
<1> QED BY <1>1, <1>4, <1>5, <1>6, <1>7, <1>8, <1>9 DEF Clean, t

LEMMA CleanGrows ==
    ASSUME NEW s, Stacked(s), s # <<>>, NEW st, NEW en, NEW ps, NEW rt, NEW subj, NEW bef,
           Clean(s, st, en, ps, rt, subj, bef),
           NEW a \in FrameType, SameCall(a, s[1]), Cur(a, st, ps) = Cur(s[1], st, ps),
           Lowered(a, st, en, ps), Undoes(a) => NoUndoBelow(s),
           NEW c \in FrameType, c.pc \in {"enter", "walk"}, Topped(c, st, en, ps, rt),
           Begun(c, a, st, en, ps), Direct(c, a, st, en, ps),
           \A k \in 2 .. Len(s) : Direct(c, s[k], st, en, ps),
           SomeWalks(s) => SomeWalks(<<c, a>> \o Tail(s))
    PROVE  Clean(<<c, a>> \o Tail(s), st, en, ps, rt, subj, bef)
<1> DEFINE t == <<c, a>> \o Tail(s)
<1>1. /\ Len(s) \in Nat \ {0} /\ Len(t) = Len(s) + 1 /\ t # <<>> /\ t[1] = c /\ t[2] = a
      /\ \A k \in 3 .. Len(s) + 1 : t[k] = s[k - 1]
  BY Growing
<1>2. SomeWalks(s) => SomeWalks(t)
  OBVIOUS
<1> HIDE DEF t
<1>3. \A k \in 1 .. Len(t) : k = 1 \/ k = 2 \/ (k \in 3 .. Len(s) + 1 /\ k - 1 \in 2 .. Len(s)
                                                /\ k - 1 \in 1 .. Len(s) /\ t[k] = s[k - 1])
  BY <1>1
<1>4. OneUndo(t, rt)
  <2>0. ~Undoes(c)
    BY DEF Undoes
  <2>1. ASSUME NEW j \in 1 .. Len(t), NEW k \in 1 .. Len(t), Undoes(t[j]), Undoes(t[k]) PROVE j = k
    <3>1. j # 1 /\ k # 1
      BY <1>1, <2>0, <2>1
    <3>2. CASE j = 2 \/ k = 2
      <4>1. CASE j = 2 /\ k = 2
        BY <4>1
      <4>2. CASE j = 2 /\ k # 2
        BY <1>1, <1>3, <2>1, <3>1, <4>2 DEF NoUndoBelow
      <4>3. CASE k = 2 /\ j # 2
        BY <1>1, <1>3, <2>1, <3>1, <4>3 DEF NoUndoBelow
      <4> QED BY <3>2, <4>1, <4>2, <4>3
    <3>3. CASE j # 2 /\ k # 2
      <4>1. j - 1 \in 1 .. Len(s) /\ k - 1 \in 1 .. Len(s) /\ Undoes(s[j - 1]) /\ Undoes(s[k - 1])
        BY <1>3, <2>1, <3>1, <3>3
      <4>2. j - 1 = k - 1
        BY <4>1 DEF Clean, OneUndo
      <4> QED BY <4>2
    <3> QED BY <3>2, <3>3
  <2> QED BY <1>1, <2>1 DEF OneUndo
<1>5. Cur(t[Len(t)], st, ps) = bef
  <2>1. Cur(s[Len(s)], st, ps) = bef
    BY DEF Clean
  <2>2. CASE Len(s) = 1
    BY <1>1, <2>1, <2>2
  <2>3. CASE Len(s) # 1
    <3>0. Len(s) \in Nat \ {0} /\ Len(t) = Len(s) + 1
      BY <1>1
    <3> DEFINE n == Len(s)
    <3>4. n \in Nat \ {0} /\ n # 1
      BY <2>3, <3>0
    <3> HIDE DEF n
    <3>5. n + 1 \in 3 .. n + 1 /\ (n + 1) - 1 = n
      BY <3>4
    <3>1. Len(t) \in 3 .. Len(s) + 1 /\ Len(t) - 1 = Len(s)
      BY <3>0, <3>5 DEF n
    <3>2. t[Len(t)] = s[Len(t) - 1]
      BY <1>1, <3>1
    <3> QED BY <2>1, <3>1, <3>2
  <2> QED BY <2>2, <2>3
<1>6. ASSUME NEW k \in 2 .. Len(t) PROVE Lowered(t[k], st, en, ps)
  <2>1. CASE k = 2
    BY <1>1, <2>1
  <2>2. CASE k # 2
    <3>1. k - 1 \in 2 .. Len(s) /\ t[k] = s[k - 1]
      BY <1>1, <1>6, <2>2
    <3> QED BY <3>1 DEF Clean
  <2> QED BY <2>1, <2>2
<1>7. ASSUME NEW k \in 1 .. Len(t) - 1 PROVE Begun(t[k], t[k + 1], st, en, ps)
  <2>1. CASE k = 1
    BY <1>1, <2>1
  <2>2. CASE k = 2
    <3>0. 1 \in 1 .. Len(s) - 1 /\ t[3] = s[2] /\ 1 + 1 = 2
      BY <1>1, <1>7, <2>2
    <3>1. t[3] = s[2] /\ Begun(s[1], s[2], st, en, ps)
      BY <3>0 DEF Clean
    <3> DEFINE f == s[2]
    <3> HIDE DEF f
    <3>3. Begun(s[1], f, st, en, ps) => Begun(a, f, st, en, ps)
      BY CurSame
    <3>2. Begun(a, s[2], st, en, ps)
      BY <3>1, <3>3 DEF f
    <3> QED BY <1>1, <2>2, <3>1, <3>2
  <2>3. CASE k # 1 /\ k # 2
    <3>1. k - 1 \in 1 .. Len(s) - 1 /\ t[k] = s[k - 1] /\ t[k + 1] = s[(k - 1) + 1]
      BY <1>1, <1>7, <2>3
    <3> QED BY <3>1 DEF Clean
  <2> QED BY <2>1, <2>2, <2>3
<1>8. ASSUME NEW j \in 1 .. Len(t), NEW k \in 1 .. Len(t), j < k
      PROVE  Direct(t[j], t[k], st, en, ps)
  <2>1. CASE k = 2
    <3>1. j = 1
      BY <1>1, <1>8, <2>1
    <3> QED BY <1>1, <2>1, <3>1
  <2>2. CASE k # 2
    <3>1. k - 1 \in 2 .. Len(s) /\ k - 1 \in 1 .. Len(s) /\ t[k] = s[k - 1]
      BY <1>1, <1>3, <1>8, <2>2
    <3>2. CASE j = 1
      BY <1>1, <3>1, <3>2
    <3>3. CASE j = 2
      <4>1. Direct(s[1], s[k - 1], st, en, ps)
        BY <1>1, <3>1 DEF Clean
      <4> QED BY <1>1, <3>1, <3>3, <4>1, CurSame
    <3>4. CASE j # 1 /\ j # 2
      <4>1. j - 1 \in 1 .. Len(s) /\ t[j] = s[j - 1] /\ j - 1 < k - 1
        BY <1>1, <1>3, <1>8, <3>4
      <4> QED BY <3>1, <4>1 DEF Clean
    <3> QED BY <3>2, <3>3, <3>4
  <2> QED BY <2>1, <2>2
<1>9. /\ ~SomeWalks(t) => \A x \in ToSet(Elements) : Unit(st, en, x, ps)
      /\ \A b \in Loose : t = <<>> \/ b # subj => \A k \in Kids(b) : Is(st, en, k, st[b])
  BY <1>1, <1>2 DEF Clean
<1> QED BY <1>1, <1>4, <1>5, <1>6, <1>7, <1>8, <1>9 DEF Clean, t

\* A frame that waits keeps where it has started.
LEMMA CurKept ==
    ASSUME NEW g, g.pc \in WaitingPc, NEW f, NEW st, NEW st2, NEW en, NEW ps, NEW ps2
    PROVE  /\ Cur(g, st, ps) = g.from /\ Cur(g, st2, ps2) = g.from
           /\ Begun(g, f, st, en, ps) => Begun(g, f, st2, en, ps2)
           /\ Direct(g, f, st, en, ps) => Direct(g, f, st2, en, ps2)
<1>1. Cur(g, st, ps) = g.from /\ Cur(g, st2, ps2) = g.from
  BY DEF Cur, WaitingPc, CallingPc
<1> QED BY <1>1 DEF Begun, Direct

\* A return: what is left to show is about the new top and the new state.
LEMMA CleanShrinks ==
    ASSUME NEW s, Stacked(s), s # <<>>, NEW st, NEW en, NEW ps, NEW rt, NEW subj, NEW bef,
           Clean(s, st, en, ps, rt, subj, bef),
           NEW st2, NEW ps2, NEW rt2,
           rt2 = "OK" \/ NoUndoBelow(s),
           Len(s) >= 2 => Topped(s[2], st2, en, ps2, rt2),
           \A k \in 3 .. Len(s) : Lowered(s[k], st2, en, ps2),
           ~SomeWalks(Tail(s)) => \A x \in ToSet(Elements) : Unit(st2, en, x, ps2),
           \A b \in Loose : Len(s) = 1 \/ b # subj => \A c \in Kids(b) : Is(st2, en, c, st2[b]),
           Len(s) = 1 /\ rt2 = "ERROR" => IF subj = None THEN ps2 = bef ELSE st2[subj] <= bef
    PROVE  Clean(Tail(s), st2, en, ps2, rt2, subj, bef)
<1> DEFINE t == Tail(s)
<1>1. /\ Len(s) \in Nat \ {0} /\ Len(t) = Len(s) - 1 /\ (t = <<>> <=> Len(s) = 1)
      /\ \A k \in 1 .. Len(s) - 1 : t[k] = s[k + 1]
  BY Shrinking
<1>2. ~SomeWalks(t) => \A x \in ToSet(Elements) : Unit(st2, en, x, ps2)
  OBVIOUS
<1> HIDE DEF t
<1>3. \A k \in 1 .. Len(t) : /\ k + 1 \in 1 .. Len(s) /\ t[k] = s[k + 1] /\ k + 1 \in 2 .. Len(s)
                             /\ t[k].pc \in WaitingPc
  BY <1>1 DEF Stacked
<1>4. OneUndo(t, rt2)
  <2>1. ASSUME NEW j \in 1 .. Len(t), NEW k \in 1 .. Len(t), Undoes(t[j]), Undoes(t[k]) PROVE j = k
    <3>1. j + 1 = k + 1
      BY <1>3, <2>1 DEF Clean, OneUndo
    <3> QED BY <3>1
  <2>2. ASSUME NEW k \in 2 .. Len(t), Undoes(t[k]) PROVE rt2 = "OK"
    BY <1>1, <1>3, <2>2 DEF NoUndoBelow
  <2> QED BY <2>1, <2>2 DEF OneUndo
<1>5. ASSUME t # <<>> PROVE Topped(t[1], st2, en, ps2, rt2) /\ Cur(t[Len(t)], st2, ps2) = bef
  <2>1. Len(s) >= 2 /\ Len(t) \in 1 .. Len(s) - 1 /\ 1 \in 1 .. Len(s) - 1 /\ 1 + 1 = 2
        /\ Len(t) + 1 = Len(s)
    BY <1>1, <1>5
  <2>2. t[1] = s[2] /\ t[Len(t)] = s[Len(t) + 1] /\ t[Len(t)].pc \in WaitingPc
    BY <1>1, <1>3, <2>1
  <2>3. Cur(s[Len(s)], st, ps) = bef
    BY DEF Clean
  <2> DEFINE g == t[Len(t)]
  <2>4. Cur(g, st, ps) = bef /\ g.pc \in WaitingPc
    BY <2>1, <2>2, <2>3
  <2> HIDE DEF g
  <2>5. Cur(g, st2, ps2) = bef
    BY <2>4, CurKept
  <2> QED BY <2>1, <2>2, <2>5 DEF g
<1>6. ASSUME NEW k \in 2 .. Len(t) PROVE Lowered(t[k], st2, en, ps2)
  <2>1. k + 1 \in 3 .. Len(s) /\ t[k] = s[k + 1]
    BY <1>1, <1>6
  <2> QED BY <2>1
<1>7. ASSUME NEW k \in 1 .. Len(t) - 1 PROVE Begun(t[k], t[k + 1], st2, en, ps2)
  <2>1. /\ k + 1 \in 1 .. Len(s) - 1 /\ t[k] = s[k + 1] /\ t[k + 1] = s[(k + 1) + 1]
        /\ k \in 1 .. Len(t)
    BY <1>1, <1>7
  <2>2. Begun(t[k], t[k + 1], st, en, ps)
    BY <2>1 DEF Clean
  <2>3. t[k].pc \in WaitingPc
    BY <1>3, <2>1
  <2> QED BY <2>2, <2>3, CurKept
<1>8. ASSUME NEW j \in 1 .. Len(t), NEW k \in 1 .. Len(t), j < k
      PROVE  Direct(t[j], t[k], st2, en, ps2)
  <2>1. j + 1 < k + 1
    BY <1>1, <1>8
  <2>2. Direct(t[j], t[k], st, en, ps)
    BY <1>3, <2>1 DEF Clean
  <2> QED BY <1>3, <2>2, CurKept
<1>9. \A b \in Loose : t = <<>> \/ b # subj => \A c \in Kids(b) : Is(st2, en, c, st2[b])
  BY <1>1
<1>10. t = <<>> /\ rt2 = "ERROR" => IF subj = None THEN ps2 = bef ELSE st2[subj] <= bef
  BY <1>1
<1> QED BY <1>2, <1>4, <1>5, <1>6, <1>7, <1>8, <1>9, <1>10 DEF Clean, t

-----------------------------------------------------------------------------
(* What a call has brought its element to, and what this says to the caller. *)

Brought(x, old, to, st, en, rt) ==
    /\ rt = "OK" => Unit(st, en, x, to)
    /\ rt # "OK" => /\ \E u \in States : u <= old /\ Unit(st, en, x, u)
                    /\ old < to \/ Toward(old, to) = to => Unit(st, en, x, old)

LEMMA FrameSteps ==
    ASSUME NEW f \in FrameType, Fits(f)
    PROVE  /\ f.from \in States /\ f.to \in States
           /\ f.pc \in CallingPc \cup WalkingPc \cup {"hook", "bin", "store"} =>
                 /\ Mid(f) \in States /\ f.from # f.to /\ Mid(f) # f.from
                 /\ Toward(f.from, Mid(f)) = Mid(f) /\ Toward(Mid(f), f.from) = f.from
                 /\ f.from < f.to => f.from < Mid(f) /\ Mid(f) <= f.to
                 /\ f.to < f.from => Mid(f) < f.from /\ f.to <= Mid(f)
           /\ f.pc \in CallingPc => Mid(f) # f.to
           /\ f.pc \in WalkingPc \cup {"hook", "bin", "store"} => Mid(f) = f.to
<1>1. f.from \in States /\ f.to \in States
  BY Fields
<1>2. f.pc \in CallingPc \cup WalkingPc \cup {"hook", "bin", "store"} => f.from # f.to
  BY DEF Fits
<1>3. f.pc \in CallingPc \cup WalkingPc \cup {"hook", "bin", "store"} =>
                 /\ Mid(f) \in States /\ f.from # f.to /\ Mid(f) # f.from
                 /\ Toward(f.from, Mid(f)) = Mid(f) /\ Toward(Mid(f), f.from) = f.from
                 /\ f.from < f.to => f.from < Mid(f) /\ Mid(f) <= f.to
                 /\ f.to < f.from => Mid(f) < f.from /\ f.to <= Mid(f)
  BY <1>1, <1>2, OneStep DEF Mid
<1> QED BY <1>1, <1>3 DEF Fits

LEMMA BackToElement ==
    ASSUME NEW f \in FrameType, Fits(f), f.fn = "element", f.pc \in CallingPc,
           NEW st, NEW en, NEW ps, NEW rt, rt = "OK" \/ ~Undoes(f),
           Brought(f.el, Begin(f), Goal(f), st, en, rt)
    PROVE  Topped(f, st, en, ps, rt)
<1>1. /\ Mid(f) \in States /\ f.from \in States /\ f.to \in States
      /\ Mid(f) # f.to /\ f.from # f.to
      /\ Toward(f.from, Mid(f)) = Mid(f) /\ (f.from < f.to => Mid(f) <= f.to)
  BY FrameSteps
<1>2. f.from < f.to => Mid(f) < f.to
  BY <1>1 DEF States, NULL, PLAYING
<1>3. CASE f.pc = "first"
  <2>1. Begin(f) = f.from /\ Goal(f) = Mid(f)
    BY <1>3 DEF Begin, Goal, Undoes
  <2>2. Unit(st, en, f.el, IF rt = "OK" THEN Mid(f) ELSE f.from)
    BY <1>1, <2>1 DEF Brought
  <2> QED BY <1>3, <2>2 DEF Topped, ElementTopped
<1>4. CASE f.pc = "second"
  <2>1. Begin(f) = Mid(f) /\ Goal(f) = f.to
    BY <1>4 DEF Begin, Goal, Undoes
  <2>2. rt = "OK" => Unit(st, en, f.el, f.to)
    BY <2>1 DEF Brought
  <2>3. rt # "OK" /\ f.from < f.to => Unit(st, en, f.el, Mid(f))
    BY <1>2, <2>1 DEF Brought
  <2>4. rt # "OK" => \E u \in States : u <= Mid(f) /\ Unit(st, en, f.el, u)
    BY <2>1 DEF Brought
  <2> QED BY <1>4, <2>2, <2>3, <2>4 DEF Topped, ElementTopped
<1>5. CASE f.pc = "undo"
  <2>1. Goal(f) = f.from /\ rt = "OK"
    BY <1>5 DEF Goal, Undoes
  <2>2. Unit(st, en, f.el, f.from)
    BY <2>1 DEF Brought
  <2> QED BY <1>5, <2>2 DEF Topped, ElementTopped
<1> QED BY <1>3, <1>4, <1>5 DEF CallingPc

\* Where a walk has left the element it was waiting for
LEMMA PlaceIs ==
    ASSUME NEW f \in FrameType, Fits(f), f.fn \in {"pipeline", "bin"}, f.pc \in {"walked", "rollback"},
           NEW rt, rt = "OK" \/ ~Undoes(f)
    PROVE  /\ Place(f, FluxAt(f), rt) = IF rt = "OK" THEN Goal(f) ELSE Begin(f)
           /\ \A k \in Nat : k # FluxAt(f) => Place(f, k, rt) = Place(f, k, "OK")
           /\ Toward(Begin(f), Goal(f)) = Goal(f)
           /\ {Begin(f), Goal(f)} = {f.from, f.to} /\ Goal(f) # Begin(f)
<1>1. /\ f.from \in States /\ f.to \in States /\ f.from # f.to /\ Mid(f) = f.to
      /\ Toward(f.from, Mid(f)) = Mid(f) /\ Toward(Mid(f), f.from) = f.from
  BY FrameSteps DEF WalkingPc
<1>2. f.i \in Nat /\ f.lim \in Nat
  BY Fields
<1>3. CASE f.pc = "walked"
  <2>1. Begin(f) = f.from /\ Goal(f) = f.to /\ FluxAt(f) = f.i
    BY <1>3 DEF Begin, Goal, Undoes, FluxAt
  <2>2. Place(f, f.i, rt) = IF rt = "OK" THEN f.to ELSE f.from
    BY <1>2, <1>3 DEF Place
  <2>3. \A k \in Nat : k # f.i => Place(f, k, rt) = Place(f, k, "OK")
    BY <1>3 DEF Place
  <2> QED BY <1>1, <2>1, <2>2, <2>3
<1>4. CASE f.pc = "rollback"
  <2>1. Begin(f) = f.to /\ Goal(f) = f.from /\ rt = "OK"
    BY <1>4 DEF Begin, Goal, Undoes
  <2>2. Place(f, FluxAt(f), rt) = f.from
    <3>1. CASE f.fn = "pipeline"
      <4>1. FluxAt(f) = f.i + 1 /\ ~(f.i + 1 <= f.i)
        BY <1>2, <1>4, <3>1 DEF FluxAt
      <4> QED BY <1>4, <3>1, <4>1 DEF Place
    <3>2. CASE f.fn = "bin"
      <4>1. FluxAt(f) = f.i - 1 /\ ~(f.i <= f.i - 1)
        BY <1>2, <1>4, <3>2 DEF FluxAt
      <4> QED BY <1>4, <3>2, <4>1 DEF Place
    <3> QED BY <3>1, <3>2
  <2> QED BY <1>1, <2>1, <2>2
<1> QED BY <1>3, <1>4

LEMMA BackToBin ==
    ASSUME NEW f \in FrameType, Placed(f), Fits(f), f.fn = "bin", f.pc \in {"walked", "rollback"},
           f.pc = "rollback" => f.i >= 2,
           NEW st, NEW en, NEW ps, NEW rt, rt = "OK" \/ ~Undoes(f), Lowered(f, st, en, ps),
           Brought(Flux(f), Begin(f), Goal(f), st, en, rt)
    PROVE  Topped(f, st, en, ps, rt)
<1>1. /\ FluxAt(f) \in DOMAIN Children[f.el] /\ Flux(f) = Children[f.el][FluxAt(f)] /\ f.el \in Bins
  BY FluxIs
<1>2. DOMAIN Children[f.el] \subseteq Nat
  BY <1>1, SequencesGiven
<1>3. /\ Place(f, FluxAt(f), rt) = IF rt = "OK" THEN Goal(f) ELSE Begin(f)
      /\ \A k \in Nat : k # FluxAt(f) => Place(f, k, rt) = Place(f, k, "OK")
      /\ Toward(Begin(f), Goal(f)) = Goal(f)
  BY PlaceIs
<1>4. Is(st, en, Flux(f), Place(f, FluxAt(f), rt))
  BY <1>3 DEF Brought, Unit
<1>5. BinLeft(f, st, en, "OK", {FluxAt(f)})
  BY DEF Lowered
<1>6. \A k \in DOMAIN Children[f.el] : Is(st, en, Children[f.el][k], Place(f, k, rt))
  <2> TAKE k \in DOMAIN Children[f.el]
  <2>1. CASE k = FluxAt(f)
    BY <1>1, <1>4, <2>1
  <2>2. CASE k # FluxAt(f)
    <3>1. Is(st, en, Children[f.el][k], Place(f, k, "OK"))
      BY <1>5, <2>2 DEF BinLeft
    <3> QED BY <1>2, <1>3, <2>2, <3>1
  <2> QED BY <2>1, <2>2
<1>7. BinLeft(f, st, en, rt, {})
  BY <1>5, <1>6 DEF BinLeft
<1> QED BY <1>7 DEF Topped

LEMMA BackToPipeline ==
    ASSUME NEW f \in FrameType, Placed(f), Fits(f), f.fn = "pipeline", f.pc \in {"walked", "rollback"},
           NEW st, NEW en, NEW ps, NEW rt, rt = "OK" \/ ~Undoes(f), Lowered(f, st, en, ps),
           Brought(Flux(f), Begin(f), Goal(f), st, en, rt)
    PROVE  Topped(f, st, en, ps, rt)
<1> DEFINE N(k) == Nth(f.to > f.from, k)
<1>1. FluxAt(f) \in DOMAIN Elements /\ Flux(f) = N(FluxAt(f))
  BY FluxIs
<1>2. DOMAIN Elements \subseteq Nat
  BY SequencesGiven
<1>3. /\ Place(f, FluxAt(f), rt) = IF rt = "OK" THEN Goal(f) ELSE Begin(f)
      /\ \A k \in Nat : k # FluxAt(f) => Place(f, k, rt) = Place(f, k, "OK")
      /\ Toward(Begin(f), Goal(f)) = Goal(f)
  BY PlaceIs
<1>4. Unit(st, en, Flux(f), Place(f, FluxAt(f), rt))
  BY <1>3 DEF Brought
<1>5. PipeLeft(f, st, en, ps, "OK", {FluxAt(f)})
  BY DEF Lowered, Walks, WalkingPc
<1>6. \A k \in DOMAIN Elements : Unit(st, en, N(k), Place(f, k, rt))
  <2> TAKE k \in DOMAIN Elements
  <2>1. CASE k = FluxAt(f)
    BY <1>1, <1>4, <2>1
  <2>2. CASE k # FluxAt(f)
    <3>1. Unit(st, en, N(k), Place(f, k, "OK"))
      BY <1>5, <2>2 DEF PipeLeft
    <3> QED BY <1>2, <1>3, <2>2, <3>1
  <2> QED BY <2>1, <2>2
<1>7. PipeLeft(f, st, en, ps, rt, {})
  BY <1>5, <1>6 DEF PipeLeft
<1> QED BY <1>7 DEF Topped, PipelineTopped, CallingPc

\* An element's call, back in the caller f
LEMMA Back ==
    ASSUME NEW f \in FrameType, Placed(f), Fits(f), f.pc \in WaitingPc,
           NEW g, g.fn = "element", Over(g, f), Asked(g, f),
           NEW st, NEW en, en \subseteq Sources, NEW ps, NEW rt, rt = "OK" \/ ~Undoes(f),
           Lowered(f, st, en, ps), NEW old,
           g.el \in en \/ old = Begin(f), Brought(g.el, old, g.to, st, en, rt)
    PROVE  Topped(f, st, en, ps, rt)
<1>1. f.pc # "bin"
  BY DEF Asked
<1>2. f.from \in States /\ f.to \in States
  BY Fields
<1>3. Begin(f) \in States
  <2>1. f.pc \in CallingPc => Mid(f) \in States
    BY FrameSteps
  <2> QED BY <1>2, <2>1 DEF Begin, CallingPc
<1>4. Brought(g.el, Begin(f), Goal(f), st, en, rt)
  <2>1. CASE g.el \in en
    <3>1. Kids(g.el) = {}
      BY <2>1, Family
    <3>2. \A u : Unit(st, en, g.el, u)
      BY <2>1, <3>1 DEF Unit, Is
    <3>3. Begin(f) <= Begin(f)
      BY <1>3 DEF States, NULL, PLAYING
    <3> QED BY <1>3, <3>2, <3>3 DEF Brought
  <2>2. CASE g.el \notin en
    BY <2>2 DEF Asked
  <2> QED BY <2>1, <2>2
<1>5. CASE f.pc \in CallingPc
  <2>1. f.fn = "element" /\ g.el = f.el
    BY <1>5 DEF Asked
  <2> QED BY <1>4, <1>5, <2>1, BackToElement
<1>6. CASE f.pc \in {"walked", "rollback"}
  <2>1. g.el = Flux(f) /\ f.fn \in {"pipeline", "bin"}
    BY <1>6, Fields DEF Asked, Placed, CallingPc
  <2>2. f.fn = "bin" /\ f.pc = "rollback" => f.i >= 2
    BY DEF Over
  <2>3. CASE f.fn = "pipeline"
    BY <1>4, <1>6, <2>1, <2>3, BackToPipeline
  <2>4. CASE f.fn = "bin"
    BY <1>4, <1>6, <2>1, <2>2, <2>4, BackToBin
  <2> QED BY <2>1, <2>3, <2>4
<1> QED BY <1>1, <1>5, <1>6 DEF WaitingPc

-----------------------------------------------------------------------------
(* Returns.                                                                 *)

\* Only y is in another state.
Moved(st, st2, y) == \A z \in All : z # y => st2[z] = st[z]

LEMMA UnitKept ==
    ASSUME NEW st, NEW st2, NEW y, Moved(st, st2, y), NEW en, NEW x \in All, x # y, y \notin Kids(x)
    PROVE  /\ \A v : Unit(st, en, x, v) => Unit(st2, en, x, v)
           /\ \A v : Is(st, en, x, v) => Is(st2, en, x, v)
<1>1. \A c \in Kids(x) : c \in All /\ c # y
  BY Family
<1> QED BY <1>1 DEF Moved, Unit, Is

\* What a frame over f stores does not disturb f.
LEMMA LoweredKept ==
    ASSUME NEW f \in FrameType, Placed(f), Fits(f), f.pc \in WaitingPc,
           NEW g, g.fn = "element", Over(g, f), NEW st, NEW st2, Moved(st, st2, g.el),
           st2[g.el] \in {st[g.el], g.to},
           f.fn = "element" /\ f.pc = "bin" => g.el # f.el,
           NEW en, NEW ps, Lowered(f, st, en, ps), Direct(g, f, st, en, ps)
    PROVE  Lowered(f, st2, en, ps)
<1>1. ASSUME f.fn = "bin" PROVE BinLeft(f, st2, en, "OK", {FluxAt(f)})
  <2>1. g.el = Flux(f) /\ f.pc \in {"walked", "rollback"} /\ (f.pc = "rollback" => f.i >= 2)
    BY <1>1 DEF Over, Placed, WalkingPc, WaitingPc, CallingPc
  <2>2. /\ FluxAt(f) \in DOMAIN Children[f.el] /\ Flux(f) \in Kids(f.el)
        /\ Flux(f) = Children[f.el][FluxAt(f)] /\ f.el \in Bins
    BY <1>1, <2>1, FluxIs
  <2>3. f.el # g.el /\ f.el \in All
    BY <2>1, <2>2, Family, BinsAll
  <2>4. BinLeft(f, st, en, "OK", {FluxAt(f)})
    BY <1>1 DEF Lowered
  <2>5. ASSUME NEW k \in DOMAIN Children[f.el] \ {FluxAt(f)}
        PROVE  Is(st2, en, Children[f.el][k], Place(f, k, "OK"))
    <3>1. Children[f.el][k] # g.el /\ Children[f.el][k] \in Kids(f.el)
      BY <2>1, <2>2, KidsWalk
    <3>2. Children[f.el][k] \in All
      BY <3>1, Family
    <3>3. Is(st, en, Children[f.el][k], Place(f, k, "OK"))
      BY <2>4 DEF BinLeft
    <3> QED BY <3>1, <3>2, <3>3 DEF Is, Moved
  <2> QED BY <2>3, <2>4, <2>5 DEF BinLeft, Moved
<1>2. ASSUME Walks(f)
      PROVE  /\ PipeLeft(f, st2, en, ps, "OK", {FluxAt(f)})
             /\ Is(st2, en, Flux(f), f.from) \/ Is(st2, en, Flux(f), f.to)
  <2>0. f.fn = "pipeline" /\ f.pc \in {"walked", "rollback"}
    BY <1>2 DEF Walks, WalkingPc, WaitingPc, CallingPc
  <2>1. g.el \in {Flux(f)} \cup Kids(Flux(f))
    BY <1>2 DEF Over
  <2>2. /\ FluxAt(f) \in DOMAIN Elements /\ Flux(f) \in ToSet(Elements)
        /\ Flux(f) = Nth(f.to > f.from, FluxAt(f))
    BY <2>0, FluxIs
  <2>3. ASSUME NEW k \in DOMAIN Elements \ {FluxAt(f)}
        PROVE  Unit(st2, en, Nth(f.to > f.from, k), Place(f, k, "OK"))
    <3> DEFINE x == Nth(f.to > f.from, k)
    <3>1. x \in ToSet(Elements) /\ x # Flux(f)
      BY <2>2, Walk
    <3>2. Unit(st, en, x, Place(f, k, "OK"))
      BY <1>2 DEF Lowered, PipeLeft
    <3> HIDE DEF x
    <3>3. x \in All /\ Kids(x) \cap Kids(Flux(f)) = {} /\ Flux(f) \notin Kids(x) /\ x \notin Kids(Flux(f))
      BY <2>2, <3>1, Family
    <3>4. x # g.el /\ g.el \notin Kids(x)
      BY <2>1, <3>1, <3>3
    <3>5. Unit(st2, en, x, Place(f, k, "OK"))
      BY <3>2, <3>3, <3>4, UnitKept
    <3> QED BY <3>5 DEF x
  <2>4. PipeLeft(f, st2, en, ps, "OK", {FluxAt(f)})
    BY <1>2, <2>3 DEF Lowered, PipeLeft
  <2>5. Is(st2, en, Flux(f), f.from) \/ Is(st2, en, Flux(f), f.to)
    <3>1. Is(st, en, Flux(f), f.from) \/ Is(st, en, Flux(f), f.to)
      BY <1>2 DEF Lowered
    <3>2. Flux(f) \in All
      BY <2>2, Family
    <3>3. CASE g.el = Flux(f) /\ g.el \notin en
      <4>1. g.to \in {f.from, f.to}
        BY <1>2, <3>3 DEF Direct, Goal, Mid, Undoes, Walks, WalkingPc
      <4> QED BY <3>1, <3>3, <4>1 DEF Is
    <3>4. CASE g.el = Flux(f) /\ g.el \in en
      BY <3>4 DEF Is
    <3>5. CASE g.el # Flux(f)
      BY <3>1, <3>2, <3>5 DEF Is, Moved
    <3> QED BY <3>3, <3>4, <3>5
  <2> QED BY <2>4, <2>5
<1>3. ASSUME f.fn = "element", f.pc = "bin" PROVE Is(st2, en, f.el, f.from)
  <2>1. f.el \in All /\ f.el # g.el
    BY <1>3 DEF Placed
  <2> QED BY <1>3, <2>1 DEF Lowered, Is, Moved
<1> QED BY <1>1, <1>2, <1>3 DEF Lowered

\* Which element zst_element_set_state may be about
LEMMA Home ==
    ASSUME NEW s, Stacked(s), s # <<>>, NEW subj \in Loose \cup {None}, Shaped(s, subj),
           s[1].fn = "element"
    PROVE  /\ subj = None => \E x \in ToSet(Elements) : s[1].el \in {x} \cup Kids(x)
           /\ subj # None => s[1].el \in {subj} \cup Kids(subj)
           /\ Len(s) = 1 => s[1].el = subj /\ subj \in Loose
<1>1. s \in Seq(FrameType)
  BY DEF Stacked
<1>2. Len(s) \in Nat \ {0}
  BY <1>1, TopRest
<1>3. ASSUME subj = None PROVE \E x \in ToSet(Elements) : s[1].el \in {x} \cup Kids(x)
  <2>1. PICK k \in 1 .. Len(s) : Walks(s[k])
    BY <1>3 DEF Shaped, SomeWalks
  <2>2. k # 1
    BY <2>1 DEF Walks
  <2>3. 1 \in 1 .. Len(s) /\ 1 < k /\ k \in 2 .. Len(s)
    BY <1>2, <2>2
  <2>4. Over(s[1], s[k]) /\ s[k].pc \in WaitingPc /\ s[k] \in FrameType /\ Placed(s[k]) /\ Fits(s[k])
    BY <1>1, <2>3 DEF Shaped, Stacked
  <2> DEFINE f == s[k]
  <2> HIDE DEF f
  <2>5. /\ Over(s[1], f) /\ f.pc \in WaitingPc /\ f \in FrameType /\ Placed(f) /\ Fits(f) /\ Walks(f)
    BY <2>1, <2>4 DEF f
  <2>6. f.fn = "pipeline" /\ f.pc \in {"walked", "rollback"}
    BY <2>5 DEF Walks, WalkingPc, WaitingPc, CallingPc
  <2>7. Flux(f) \in ToSet(Elements)
    BY <2>5, <2>6, FluxIs
  <2> QED BY <2>5, <2>7 DEF Over
<1>4. Bottom(s[Len(s)], subj)
  BY DEF Shaped
<1>5. ASSUME subj # None PROVE s[1].el \in {subj} \cup Kids(subj)
  <2>1. s[Len(s)].fn = "element" /\ s[Len(s)].el = subj
    BY <1>4, <1>5 DEF Bottom
  <2>2. CASE Len(s) = 1
    BY <2>1, <2>2
  <2>3. CASE Len(s) # 1
    <3> DEFINE n == Len(s)
    <3>2. n \in Nat \ {0} /\ n # 1
      BY <1>2, <2>3
    <3> HIDE DEF n
    <3>3. 1 \in 1 .. n /\ n \in 1 .. n /\ 1 < n
      BY <3>2
    <3>1. Over(s[1], s[Len(s)])
      BY <3>3 DEF Shaped, n
    <3> QED BY <2>1, <3>1 DEF Over
  <2> QED BY <2>2, <2>3
<1>6. ASSUME Len(s) = 1 PROVE s[1].el = subj /\ subj \in Loose
  BY <1>4, <1>6 DEF Bottom
<1> QED BY <1>3, <1>5, <1>6

LEMMA ElementBack ==
    ASSUME NEW s, Stacked(s), s # <<>>, NEW subj \in Loose \cup {None}, Shaped(s, subj),
           s[1].fn = "element", NEW st, NEW en, en \subseteq Sources, NEW ps, NEW rt, NEW bef \in States,
           Clean(s, st, en, ps, rt, subj, bef),
           NEW st2, Moved(st, st2, s[1].el), st2[s[1].el] \in {st[s[1].el], s[1].to},
           NEW rt2 \in {"OK", "ERROR"}, rt2 = "OK" \/ NoUndoBelow(s),
           Brought(s[1].el, Cur(s[1], st, ps), s[1].to, st2, en, rt2)
    PROVE  Clean(Tail(s), st2, en, ps, rt2, subj, bef)
<1> DEFINE g == s[1]
           old == Cur(g, st, ps)
<1>1. s \in Seq(FrameType)
  BY DEF Stacked
<1>2. Len(s) \in Nat \ {0}
  BY <1>1, TopRest
<1>3. /\ subj = None => \E x \in ToSet(Elements) : g.el \in {x} \cup Kids(x)
      /\ subj # None => g.el \in {subj} \cup Kids(subj)
      /\ Len(s) = 1 => g.el = subj /\ subj \in Loose
  BY Home
<1>4. /\ g.fn = "element" /\ Moved(st, st2, g.el) /\ st2[g.el] \in {st[g.el], g.to}
      /\ Brought(g.el, old, g.to, st2, en, rt2)
  OBVIOUS
<1>5. \A k \in 2 .. Len(s) : /\ k \in 1 .. Len(s) /\ 1 \in 1 .. Len(s) /\ 1 < k /\ k - 1 \in 1 .. Len(s) - 1
                             /\ k - 1 \in 1 .. Len(s) /\ (k - 1) + 1 = k /\ k - 1 < k
                             /\ (k = 2 \/ 1 < k - 1)
  BY <1>2
<1>6. ASSUME NEW k \in 2 .. Len(s)
      PROVE  /\ s[k] \in FrameType /\ Placed(s[k]) /\ Fits(s[k]) /\ s[k].pc \in WaitingPc
             /\ Over(g, s[k]) /\ Lowered(s[k], st, en, ps) /\ Direct(g, s[k], st, en, ps)
  BY <1>1, <1>5 DEF Stacked, Shaped, Clean
<1>7. ASSUME NEW k \in 2 .. Len(s), s[k].fn = "element", s[k].pc = "bin" PROVE g.el # s[k].el
  <2> DEFINE f == s[k]
             b == s[k - 1]
  <2>1. Asked(b, f) /\ b \in FrameType /\ Placed(b) /\ Fits(b)
    <3>1. Asked(s[k - 1], s[(k - 1) + 1])
      BY <1>5 DEF Shaped
    <3>2. s[k - 1] \in FrameType /\ Placed(s[k - 1]) /\ Fits(s[k - 1])
      BY <1>1, <1>5 DEF Shaped, Stacked
    <3> QED BY <1>5, <3>1, <3>2
  <2>2. f.pc = "bin" /\ f.fn = "element"
    BY <1>7
  <2>3. b.fn = "bin" /\ b.el = f.el
    BY <2>1, <2>2 DEF Asked
  <2>4. k # 2
    BY <1>4, <2>3
  <2>5. Over(g, b) /\ b.pc \in WaitingPc
    <3>1. k - 1 \in 2 .. Len(s) /\ 1 < k - 1
      BY <1>2, <1>5, <2>4
    <3> QED BY <1>6, <3>1
  <2> HIDE DEF f, b
  <2>6. b.pc \in {"walked", "rollback"} /\ (b.pc = "rollback" => b.i >= 2) /\ g.el = Flux(b)
    BY <2>1, <2>3, <2>5 DEF Placed, Over, WaitingPc, WalkingPc, CallingPc
  <2>7. Flux(b) \in Kids(b.el) /\ b.el \in Bins
    BY <2>1, <2>3, <2>6, FluxIs
  <2>8. g.el # f.el
    BY <2>3, <2>6, <2>7, Family
  <2> QED BY <2>8 DEF f
<1> HIDE DEF old
<1>8. ASSUME NEW k \in 2 .. Len(s) PROVE Lowered(s[k], st2, en, ps)
  <2> DEFINE f == s[k]
  <2>1. /\ f \in FrameType /\ Placed(f) /\ Fits(f) /\ f.pc \in WaitingPc
        /\ Over(g, f) /\ Lowered(f, st, en, ps) /\ Direct(g, f, st, en, ps)
        /\ f.fn = "element" /\ f.pc = "bin" => g.el # f.el
    BY <1>6, <1>7
  <2> HIDE DEF f, g
  <2>2. Lowered(f, st2, en, ps)
    BY <1>4, <2>1, LoweredKept
  <2> QED BY <2>2 DEF f
<1>9. ASSUME Len(s) >= 2 PROVE Topped(s[2], st2, en, ps, rt2)
  <2> DEFINE f == s[2]
  <2>0. 2 \in 2 .. Len(s) /\ 1 \in 1 .. Len(s) - 1 /\ 1 + 1 = 2
    BY <1>2, <1>9
  <2>1. /\ f \in FrameType /\ Placed(f) /\ Fits(f) /\ f.pc \in WaitingPc /\ Over(g, f)
        /\ Lowered(f, st2, en, ps)
    BY <1>6, <1>8, <2>0
  <2>2. Asked(g, f) /\ Begun(g, f, st, en, ps)
    <3>1. Asked(s[1], s[1 + 1]) /\ Begun(s[1], s[1 + 1], st, en, ps)
      BY <2>0 DEF Shaped, Clean
    <3> QED BY <2>0, <3>1
  <2>3. rt2 = "OK" \/ ~Undoes(f)
    BY <2>0 DEF NoUndoBelow
  <2> HIDE DEF f, g
  <2>4. g.el \in en \/ old = Begin(f)
    BY <2>2 DEF Begun, old
  <2>5. Topped(f, st2, en, ps, rt2)
    BY <1>4, <2>1, <2>2, <2>3, <2>4, Back
  <2> QED BY <2>5 DEF f
<1>10. ASSUME ~SomeWalks(Tail(s)), NEW x \in ToSet(Elements) PROVE Unit(st2, en, x, ps)
  <2>1. ~SomeWalks(s)
    BY <1>4, <1>10, StackShrinks DEF Walks
  <2>2. subj # None /\ subj \in Loose
    BY <1>4, <2>1 DEF Shaped
  <2>3. g.el \in {subj} \cup Kids(subj)
    BY <1>3, <2>2
  <2>4. x \in All /\ subj # x /\ subj \notin Kids(x) /\ x \notin Kids(subj) /\ Kids(x) \cap Kids(subj) = {}
    BY <2>2, Family
  <2>5. x # g.el /\ g.el \notin Kids(x)
    BY <2>3, <2>4
  <2>6. Unit(st, en, x, ps)
    BY <2>1 DEF Clean
  <2> QED BY <1>4, <2>4, <2>5, <2>6, UnitKept
<1>11. ASSUME Len(s) = 1
       PROVE  \E u \in States : (rt2 = "ERROR" => u <= bef) /\ st2[subj] = u
                                /\ \A c \in Kids(subj) : Is(st2, en, c, u)
  <2>1. g.el = subj /\ subj \in Loose /\ subj \notin en
    BY <1>3, <1>11, Family
  <2>2. old = bef
    BY <1>11 DEF Clean, old
  <2>3. s[1] \in FrameType
    BY <1>1, TopRest
  <2>4. g.to \in States
    BY <2>3, Fields
  <2>5. \E u \in States : (rt2 = "ERROR" => u <= bef) /\ Unit(st2, en, subj, u)
    BY <1>4, <2>1, <2>2, <2>4 DEF Brought
  <2> QED BY <2>1, <2>5 DEF Unit, Is
<1>12. ASSUME NEW b \in Loose, Len(s) = 1 \/ b # subj, NEW c \in Kids(b)
       PROVE  Is(st2, en, c, st2[b])
  <2>1. CASE b = subj
    BY <1>11, <1>12, <2>1
  <2>2. CASE b # subj
    <3>1. Is(st, en, c, st[b])
      BY <2>2 DEF Clean
    <3>2. b \in All /\ c \in All
      BY Family
    <3>3. b # g.el /\ c # g.el
      <4>1. CASE subj = None
        <5>1. PICK x \in ToSet(Elements) : g.el \in {x} \cup Kids(x)
          BY <1>3, <4>1
        <5>2. b # x /\ b \notin Kids(x) /\ c # x /\ c \notin Kids(x)
          BY Family
        <5> QED BY <5>1, <5>2
      <4>2. CASE subj # None
        <5>1. b \notin Kids(subj) /\ c # subj /\ c \notin Kids(subj)
          BY <2>2, <4>2, Family
        <5> QED BY <1>3, <2>2, <4>2, <5>1
      <4> QED BY <4>1, <4>2
    <3> QED BY <1>4, <3>1, <3>2, <3>3 DEF Moved, Is
  <2> QED BY <2>1, <2>2
<1>13. ASSUME Len(s) = 1, rt2 = "ERROR" PROVE IF subj = None THEN ps = bef ELSE st2[subj] <= bef
  <2>1. subj # None
    BY <1>3, <1>13, Family
  <2> QED BY <1>11, <1>13, <2>1
<1>14. \A k \in 3 .. Len(s) : Lowered(s[k], st2, en, ps)
  BY <1>2, <1>8
<1> QED BY <1>9, <1>10, <1>12, <1>13, <1>14, CleanShrinks

LEMMA PipelineBack ==
    ASSUME NEW s, Stacked(s), s # <<>>, NEW subj \in Loose \cup {None}, Shaped(s, subj),
           s[1].fn = "pipeline", NEW st, NEW en, NEW ps, NEW rt, NEW bef,
           Clean(s, st, en, ps, rt, subj, bef), NEW ps2,
           NEW rt2 \in {"OK", "ERROR"}, rt2 = "OK" \/ NoUndoBelow(s),
           rt2 = "OK" => ps2 = s[1].to, rt2 # "OK" => ps2 = Cur(s[1], st, ps),
           \A x \in ToSet(Elements) : Unit(st, en, x, ps2)
    PROVE  Clean(Tail(s), st, en, ps2, rt2, subj, bef)
<1>1. s \in Seq(FrameType)
  BY DEF Stacked
<1>2. Len(s) \in Nat \ {0}
  BY <1>1, TopRest
<1>3. ASSUME NEW k \in 2 .. Len(s)
      PROVE  s[k] \in FrameType /\ Fits(s[k]) /\ s[k].fn = "pipeline" /\ s[k].pc \in CallingPc
  <2>1. k \in 1 .. Len(s) /\ 1 \in 1 .. Len(s) /\ 1 < k
    BY <1>2
  <2> QED BY <1>1, <2>1 DEF Stacked, Shaped
<1>4. ASSUME Len(s) >= 2 PROVE Topped(s[2], st, en, ps2, rt2)
  <2> DEFINE f == s[2]
             g == s[1]
  <2>0. 2 \in 2 .. Len(s) /\ 1 \in 1 .. Len(s) - 1 /\ 1 + 1 = 2
    BY <1>2, <1>4
  <2>1. f \in FrameType /\ Fits(f) /\ f.fn = "pipeline" /\ f.pc \in CallingPc
    BY <1>3, <2>0
  <2>2. Asked(g, f) /\ Begun(g, f, st, en, ps)
    <3>1. Asked(s[1], s[1 + 1]) /\ Begun(s[1], s[1 + 1], st, en, ps)
      BY <2>0 DEF Shaped, Clean
    <3> QED BY <2>0, <3>1
  <2>3. rt2 = "OK" \/ ~Undoes(f)
    BY <2>0 DEF NoUndoBelow
  <2>4. ps2 = IF rt2 = "OK" THEN Goal(f) ELSE Begin(f)
    BY <2>2 DEF Asked, Begun
  <2> HIDE DEF f, g
  <2>5. PipelineTopped(f, st, en, ps2, rt2)
    BY <2>1, <2>3, <2>4 DEF PipelineTopped, Goal, Begin, Undoes, CallingPc, WalkingPc
  <2>6. Topped(f, st, en, ps2, rt2)
    BY <2>1, <2>5 DEF Topped
  <2> QED BY <2>6 DEF f
<1>5. ASSUME NEW k \in 3 .. Len(s) PROVE Lowered(s[k], st, en, ps2)
  <2>1. k \in 2 .. Len(s)
    BY <1>2
  <2>2. s[k].fn = "pipeline" /\ s[k].pc \in CallingPc
    BY <1>3, <2>1
  <2> QED BY <2>2 DEF Lowered, Walks, CallingPc, WalkingPc
<1>6. ASSUME NEW b \in Loose, Len(s) = 1 \/ b # subj, NEW c \in Kids(b) PROVE Is(st, en, c, st[b])
  <2>1. b # subj
    <3>1. CASE Len(s) = 1
      <4>1. Bottom(s[1], subj)
        BY <3>1 DEF Shaped
      <4>2. subj = None
        BY <4>1 DEF Bottom
      <4> QED BY <4>2, Family
    <3> QED BY <1>6, <3>1
  <2> QED BY <2>1 DEF Clean
<1>7. ASSUME Len(s) = 1, rt2 = "ERROR" PROVE subj = None /\ ps2 = bef
  <2>1. Bottom(s[1], subj)
    BY <1>7 DEF Shaped
  <2>2. Cur(s[1], st, ps) = bef
    BY <1>7 DEF Clean
  <2> QED BY <1>7, <2>1, <2>2 DEF Bottom
<1>8. Len(s) = 1 /\ rt2 = "ERROR" => IF subj = None THEN ps2 = bef ELSE st[subj] <= bef
  BY <1>7
<1>9. \A b \in Loose : Len(s) = 1 \/ b # subj => \A c \in Kids(b) : Is(st, en, c, st[b])
  BY <1>6
<1>10. ~SomeWalks(Tail(s)) => \A x \in ToSet(Elements) : Unit(st, en, x, ps2)
  OBVIOUS
<1>11. \A k \in 3 .. Len(s) : Lowered(s[k], st, en, ps2)
  BY <1>5
<1> QED BY <1>4, <1>8, <1>9, <1>10, <1>11, CleanShrinks

LEMMA BinBack ==
    ASSUME NEW s, Stacked(s), s # <<>>, NEW subj \in Loose \cup {None}, Shaped(s, subj),
           s[1].fn = "bin", NEW st, NEW en, NEW ps, NEW rt, NEW bef,
           Clean(s, st, en, ps, rt, subj, bef),
           NEW rt2 \in {"OK", "ERROR"}, rt2 = "OK" \/ NoUndoBelow(s),
           \A c \in Kids(s[1].el) : Is(st, en, c, IF rt2 = "OK" THEN s[1].to ELSE s[1].from)
    PROVE  Clean(Tail(s), st, en, ps, rt2, subj, bef)
<1>1. s \in Seq(FrameType)
  BY DEF Stacked
<1>2. Len(s) \in Nat \ {0}
  BY <1>1, TopRest
<1>3. Len(s) # 1
  BY DEF Shaped, Bottom
<1> DEFINE f == s[2]
           g == s[1]
<1>4. Len(s) >= 2 /\ 2 \in 2 .. Len(s) /\ 2 \in 1 .. Len(s) /\ 1 \in 1 .. Len(s) - 1 /\ 1 + 1 = 2
      /\ 1 \in 1 .. Len(s)
  <2> DEFINE n == Len(s)
  <2>1. n \in Nat \ {0} /\ n # 1
    BY <1>2, <1>3
  <2> HIDE DEF n
  <2>2. n >= 2 /\ 2 \in 2 .. n /\ 2 \in 1 .. n /\ 1 \in 1 .. n - 1 /\ 1 + 1 = 2 /\ 1 \in 1 .. n
    BY <2>1
  <2> QED BY <2>2 DEF n
<1>5. /\ f \in FrameType /\ Placed(f) /\ f.pc \in WaitingPc /\ Lowered(f, st, en, ps)
      /\ g \in FrameType /\ Placed(g)
  BY <1>1, <1>4 DEF Stacked, Clean
<1>6. Asked(g, f) /\ Begun(g, f, st, en, ps)
  <2>1. Asked(s[1], s[1 + 1]) /\ Begun(s[1], s[1 + 1], st, en, ps)
    BY <1>4 DEF Shaped, Clean
  <2> QED BY <1>4, <2>1
<1>7. g.fn = "bin" /\ \A c \in Kids(g.el) : Is(st, en, c, IF rt2 = "OK" THEN g.to ELSE g.from)
  OBVIOUS
<1>8. ~SomeWalks(Tail(s)) => ~SomeWalks(s)
  BY StackShrinks DEF Walks
<1> HIDE DEF f, g
<1>9. f.pc = "bin" /\ f.fn = "element"
  BY <1>5, <1>6, <1>7 DEF Asked, Placed, WaitingPc, CallingPc, WalkingPc, FrameType
<1>10. g.el = f.el /\ g.to = f.to /\ g.from = f.from
  BY <1>5, <1>6, <1>7, <1>9
     DEF Asked, Begun, Cur, Begin, Goal, Undoes, Placed, WalkingPc
<1>11. Topped(f, st, en, ps, rt2)
  <2>1. Is(st, en, f.el, f.from)
    BY <1>5, <1>9 DEF Lowered
  <2> QED BY <1>7, <1>9, <1>10, <2>1 DEF Topped, ElementTopped
<1>12. \A k \in 3 .. Len(s) : Lowered(s[k], st, en, ps)
  BY <1>2 DEF Clean
<1>13. \A b \in Loose : Len(s) = 1 \/ b # subj => \A c \in Kids(b) : Is(st, en, c, st[b])
  BY <1>3 DEF Clean
<1>14. ~SomeWalks(Tail(s)) => \A x \in ToSet(Elements) : Unit(st, en, x, ps)
  BY <1>8 DEF Clean
<1> QED BY <1>3, <1>11, <1>12, <1>13, <1>14, CleanShrinks DEF f

-----------------------------------------------------------------------------
(* Error events.                                                            *)

LEMMA PostedGoes ==
    ASSUME NEW s, Stacked(s), s # <<>>, NEW rt, NEW err, NEW subj, Posted(s, rt, err, subj),
           NEW a \in FrameType, a.fn = "pipeline" => a.pc \notin CallingPc
    PROVE  Posted(<<a>> \o Tail(s), rt, err, subj)
<1> DEFINE t == <<a>> \o Tail(s)
<1>1. /\ Len(s) \in Nat \ {0} /\ Len(t) = Len(s) /\ t # <<>> /\ t[1] = a
      /\ \A k \in 2 .. Len(s) : t[k] = s[k]
  BY Going
<1> HIDE DEF t
<1>2. \A k \in 1 .. Len(t) : k = 1 \/ (k \in 2 .. Len(s) /\ k \in 1 .. Len(s) /\ t[k] = s[k])
  BY <1>1
<1>3. \A k \in 1 .. Len(t) : t[k].fn = "pipeline" /\ t[k].pc = "undo" => err
  BY <1>1, <1>2 DEF Posted, CallingPc
<1> QED BY <1>1, <1>3 DEF Posted, CallingPc, t

LEMMA PostedGrows ==
    ASSUME NEW s, Stacked(s), s # <<>>, NEW rt, NEW err, NEW subj, Posted(s, rt, err, subj),
           NEW a \in FrameType, a.fn = "pipeline" /\ a.pc = "undo" => err,
           NEW c \in FrameType, c.pc \in {"enter", "walk"}
    PROVE  Posted(<<c, a>> \o Tail(s), rt, err, subj)
<1> DEFINE t == <<c, a>> \o Tail(s)
<1>1. /\ Len(s) \in Nat \ {0} /\ Len(t) = Len(s) + 1 /\ t # <<>> /\ t[1] = c /\ t[2] = a
      /\ \A k \in 3 .. Len(s) + 1 : t[k] = s[k - 1]
  BY Growing
<1> HIDE DEF t
<1>2. \A k \in 1 .. Len(t) : k = 1 \/ k = 2 \/ (k - 1 \in 1 .. Len(s) /\ t[k] = s[k - 1])
  BY <1>1
<1>3. \A k \in 1 .. Len(t) : t[k].fn = "pipeline" /\ t[k].pc = "undo" => err
  BY <1>1, <1>2 DEF Posted
<1> QED BY <1>1, <1>3 DEF Posted, t

LEMMA PostedShrinks ==
    ASSUME NEW s, Stacked(s), s # <<>>, NEW rt, NEW err, NEW subj, Posted(s, rt, err, subj),
           Shaped(s, subj), NEW rt2, NEW err2, err => err2,
           s[1].fn = "pipeline" /\ rt2 = "ERROR" => err2
    PROVE  Posted(Tail(s), rt2, err2, subj)
<1> DEFINE t == Tail(s)
<1>1. /\ Len(s) \in Nat \ {0} /\ Len(t) = Len(s) - 1 /\ (t = <<>> <=> Len(s) = 1)
      /\ \A k \in 1 .. Len(s) - 1 : t[k] = s[k + 1]
  BY Shrinking
<1> HIDE DEF t
<1>2. \A k \in 1 .. Len(t) : k + 1 \in 1 .. Len(s) /\ t[k] = s[k + 1]
  BY <1>1
<1>3. \A k \in 1 .. Len(t) : t[k].fn = "pipeline" /\ t[k].pc = "undo" => err2
  BY <1>2 DEF Posted
<1>4. t = <<>> /\ rt2 = "ERROR" /\ subj = None => err2
  <2>1. SUFFICES ASSUME t = <<>>, subj = None, Loose = Loose PROVE s[1].fn = "pipeline"
    OBVIOUS
  <2>2. Bottom(s[1], subj)
    BY <1>1, <2>1 DEF Shaped
  <2> QED BY <2>1, <2>2, Family DEF Bottom
<1>5. t # <<>> /\ t[1].fn = "pipeline" /\ t[1].pc \in {"first", "second"} /\ rt2 = "ERROR" => err2
  <2>1. SUFFICES ASSUME t # <<>>, t[1].fn = "pipeline", t[1].pc \in {"first", "second"}
                 PROVE  s[1].fn = "pipeline"
    OBVIOUS
  <2>2. 1 \in 1 .. Len(s) - 1 /\ 1 + 1 = 2
    BY <1>1, <2>1
  <2>3. t[1] = s[1 + 1] /\ Asked(s[1], s[1 + 1])
    BY <1>1, <2>2 DEF Shaped
  <2> QED BY <2>1, <2>3 DEF Asked, CallingPc
<1> QED BY <1>3, <1>4, <1>5 DEF Posted, t

-----------------------------------------------------------------------------
(* Steps of the thread and the undo invariant.                              *)

LEMMA UndoTop ==
    ASSUME ChangeInv, UndoInv, ~Idle
    PROVE  /\ Stacked(stack) /\ stack # <<>> /\ Frame = stack[1] /\ Frame \in FrameType
           /\ Placed(Frame) /\ Fits(Frame) /\ Shaped(stack, subject)
           /\ Posted(stack, ret, errors, subject) /\ Len(stack) \in Nat \ {0}
           /\ ret \in {"OK", "ERROR"} /\ pipeState \in States /\ state \in [All -> States]
           /\ ended \subseteq Sources /\ subject \in Loose \cup {None} /\ before \in States
           /\ dirty \in BOOLEAN
           /\ ~dirty =>
                 /\ Clean(stack, state, ended, pipeState, ret, subject, before)
                 /\ Topped(Frame, state, ended, pipeState, ret)
                 /\ Undoes(Frame) => NoUndoBelow(stack)
                 /\ Frame.pc \in {"first", "second", "walked", "bin"} /\ ret # "OK" => NoUndoBelow(stack)
                 /\ Frame.fn = "pipeline" /\ ~Walks(Frame) =>
                       \A x \in ToSet(Elements) : Unit(state, ended, x, pipeState)
<1>1. /\ Stacked(stack) /\ stack # <<>> /\ Frame = stack[1] /\ Frame \in FrameType
      /\ Placed(Frame) /\ stack \in Seq(FrameType)
  BY TopFrame DEF ChangeInv
<1>2. Len(stack) \in Nat \ {0}
  BY <1>1, TopRest
<1>3. Shaped(stack, subject) /\ Posted(stack, ret, errors, subject)
  BY DEF UndoInv
<1>4. Fits(Frame)
  BY <1>1, <1>2, <1>3 DEF Shaped
<1>5. /\ ret \in {"OK", "ERROR"} /\ pipeState \in States /\ state \in [All -> States]
      /\ ended \subseteq Sources /\ subject \in Loose \cup {None} /\ before \in States
      /\ dirty \in BOOLEAN
  BY DEF ChangeInv, Values
<1>6. ASSUME ~dirty
      PROVE  /\ Clean(stack, state, ended, pipeState, ret, subject, before)
             /\ Topped(Frame, state, ended, pipeState, ret)
             /\ Undoes(Frame) => NoUndoBelow(stack)
             /\ Frame.pc \in {"first", "second", "walked", "bin"} /\ ret # "OK" => NoUndoBelow(stack)
             /\ Frame.fn = "pipeline" /\ ~Walks(Frame) =>
                   \A x \in ToSet(Elements) : Unit(state, ended, x, pipeState)
  <2>1. Clean(stack, state, ended, pipeState, ret, subject, before)
    BY <1>6 DEF UndoInv
  <2>2. Topped(Frame, state, ended, pipeState, ret) /\ OneUndo(stack, ret)
    BY <1>1, <2>1 DEF Clean
  <2>3. \A k \in 2 .. Len(stack) : k \in 1 .. Len(stack) /\ 1 \in 1 .. Len(stack) /\ k # 1
    BY <1>2
  <2>4. Undoes(Frame) => NoUndoBelow(stack)
    BY <1>1, <2>2, <2>3 DEF OneUndo, NoUndoBelow
  <2>5. Frame.pc \in {"first", "second", "walked", "bin"} /\ ret # "OK" => NoUndoBelow(stack)
    BY <1>1, <2>2 DEF OneUndo, NoUndoBelow
  <2>6. Frame.fn = "pipeline" /\ ~Walks(Frame) => ~SomeWalks(stack)
    BY <1>1, StackGoes
  <2> QED BY <2>1, <2>2, <2>4, <2>5, <2>6 DEF Clean
<1> QED BY <1>1, <1>2, <1>3, <1>4, <1>5, <1>6

LEMMA UndoGoes ==
    ASSUME ChangeInv, UndoInv, ~Idle, NEW a \in FrameType, Placed(a), Fits(a), SameCall(a, Frame),
           Walks(Frame) => Walks(a),
           a.pc \notin CallingPc \cup {"walked", "bin"},
           Goto(a), UNCHANGED <<ret, pipeState, state, errors, subject, before, dirty, ended>>,
           ~dirty => /\ Cur(a, state, pipeState) = Cur(Frame, state, pipeState)
                     /\ Topped(a, state, ended, pipeState, ret)
                     /\ Undoes(a) => NoUndoBelow(stack)
    PROVE  UndoInv'
<1>1. /\ Stacked(stack) /\ stack # <<>> /\ Frame = stack[1] /\ Shaped(stack, subject)
      /\ Posted(stack, ret, errors, subject) /\ dirty \in BOOLEAN
      /\ ~dirty => Clean(stack, state, ended, pipeState, ret, subject, before)
  BY UndoTop
<1>2. a.fn = stack[1].fn
  BY <1>1 DEF SameCall
<1> DEFINE t == <<a>> \o Tail(stack)
<1>3. SomeWalks(stack) => SomeWalks(t)
  BY <1>1, <1>2, StackGoes
<1>4. stack' = t
  BY DEF Goto
<1>5. Shaped(t, subject)
  BY <1>1, <1>3, ShapedGoes
<1>6. Posted(t, ret, errors, subject)
  BY <1>1, PostedGoes
<1>7. a.pc \notin {"first", "second", "walked", "bin"}
  BY DEF CallingPc
<1>8. ASSUME ~dirty PROVE Clean(t, state, ended, pipeState, ret, subject, before)
  BY <1>1, <1>3, <1>7, <1>8, CleanGoes
<1> HIDE DEF t
<1> QED BY <1>4, <1>5, <1>6, <1>8 DEF UndoInv

LEMMA UndoGrows ==
    ASSUME ChangeInv, UndoInv, ~Idle,
           NEW a \in FrameType, Placed(a), Fits(a), SameCall(a, Frame), a.pc \in WaitingPc,
           Walks(a) <=> Walks(Frame), a.fn = "pipeline" /\ a.pc = "undo" => errors,
           NEW c \in FrameType, Placed(c), Fits(c), ~Walks(c), c.pc \in {"enter", "walk"},
           c.fn = "pipeline" => a.fn = "pipeline" /\ a.pc \in CallingPc,
           a.fn = "pipeline" /\ c.fn # "pipeline" => Walks(a),
           Over(c, a), Asked(c, a), \A k \in 2 .. Len(stack) : Over(c, stack[k]),
           Call(a, c), UNCHANGED <<ret, pipeState, state, errors, subject, before, dirty, ended>>,
           ~dirty => /\ Cur(a, state, pipeState) = Cur(Frame, state, pipeState)
                     /\ Lowered(a, state, ended, pipeState)
                     /\ Undoes(a) => NoUndoBelow(stack)
                     /\ Topped(c, state, ended, pipeState, ret)
                     /\ Begun(c, a, state, ended, pipeState) /\ Direct(c, a, state, ended, pipeState)
                     /\ \A k \in 2 .. Len(stack) : Direct(c, stack[k], state, ended, pipeState)
    PROVE  UndoInv'
<1>1. /\ Stacked(stack) /\ stack # <<>> /\ Frame = stack[1] /\ Shaped(stack, subject)
      /\ Posted(stack, ret, errors, subject) /\ dirty \in BOOLEAN
      /\ ~dirty => Clean(stack, state, ended, pipeState, ret, subject, before)
  BY UndoTop
<1>2. a.fn = stack[1].fn
  BY <1>1 DEF SameCall
<1> DEFINE t == <<c, a>> \o Tail(stack)
           u == <<a>> \o Tail(stack)
<1>3. SomeWalks(u) <=> SomeWalks(stack)
  BY <1>1, <1>2, StackGoes
<1>4. SomeWalks(t) <=> SomeWalks(u)
  BY <1>1, <1>2, StackGrows
<1>5. stack' = t
  BY DEF Call
<1>6. c.fn # "pipeline" /\ subject = None => SomeWalks(t)
  <2>1. CASE a.fn = "pipeline"
    <3>1. a.fn = "pipeline" => (SomeWalks(u) <=> Walks(a))
      BY <1>1, <1>2, StackGoes
    <3> QED BY <1>4, <2>1, <3>1
  <2>2. CASE a.fn # "pipeline"
    BY <1>1, <1>2, <1>3, <1>4, <2>2 DEF Shaped
  <2> QED BY <2>1, <2>2
<1> HIDE DEF u
<1>7. Shaped(t, subject)
  BY <1>1, <1>6, ShapedGrows
<1>8. Posted(t, ret, errors, subject)
  BY <1>1, PostedGrows
<1>9. SomeWalks(stack) => SomeWalks(t)
  BY <1>3, <1>4
<1>10. ASSUME ~dirty PROVE Clean(t, state, ended, pipeState, ret, subject, before)
  BY <1>1, <1>9, <1>10, CleanGrows
<1> HIDE DEF t
<1> QED BY <1>5, <1>7, <1>8, <1>10 DEF UndoInv

\* The returns of the three functions
LEMMA UndoReturns ==
    ASSUME ChangeInv, UndoInv, ~Idle, stack' = Tail(stack), UNCHANGED <<subject, before, ended>>,
           errors => errors', Frame.fn = "pipeline" /\ ret' = "ERROR" => errors',
           ~dirty' => Clean(stack', state', ended, pipeState', ret', subject, before)
    PROVE  UndoInv'
<1>1. /\ Stacked(stack) /\ stack # <<>> /\ Frame = stack[1] /\ Shaped(stack, subject)
      /\ Posted(stack, ret, errors, subject)
  BY UndoTop
<1>2. Shaped(stack', subject)
  BY <1>1, ShapedShrinks
<1>3. Posted(stack', ret', errors', subject)
  BY <1>1, PostedShrinks
<1> QED BY <1>2, <1>3 DEF UndoInv

\* The fields of a new frame
LEMMA NewFields ==
    ASSUME NEW s, NEW e, NEW old
    PROVE  /\ PipelineFrame(s).to = s /\ PipelineFrame(s).fn = "pipeline" /\ PipelineFrame(s).pc = "enter"
           /\ ElementFrame(e, s).to = s /\ ElementFrame(e, s).fn = "element"
           /\ ElementFrame(e, s).el = e /\ ElementFrame(e, s).pc = "enter"
           /\ BinFrame(e, old, s).to = s /\ BinFrame(e, old, s).from = old
           /\ BinFrame(e, old, s).fn = "bin" /\ BinFrame(e, old, s).el = e
           /\ BinFrame(e, old, s).pc = "walk" /\ BinFrame(e, old, s).i = 1
BY DEF PipelineFrame, ElementFrame, BinFrame

\* Below zst_pipeline_set_state nothing is asked but of it.
LEMMA BelowPipeline ==
    ASSUME NEW s, Stacked(s), s # <<>>, s[1].fn = "pipeline", NEW c, NEW st, NEW en, NEW ps
    PROVE  \A k \in 2 .. Len(s) : Over(c, s[k]) /\ Direct(c, s[k], st, en, ps)
<1>1. s \in Seq(FrameType)
  BY DEF Stacked
<1>2. Len(s) \in Nat \ {0}
  BY <1>1, TopRest
<1> TAKE k \in 2 .. Len(s)
<1>3. k \in 1 .. Len(s) /\ 1 \in 1 .. Len(s) /\ 1 < k
  BY <1>2
<1>4. s[k].fn = "pipeline" /\ s[k].pc \in CallingPc
  BY <1>3 DEF Stacked
<1> QED BY <1>4 DEF Over, Direct, Walks, CallingPc, WalkingPc

LEMMA UndoPipelineCalls ==
    ASSUME ChangeInv, UndoInv, ~Idle, Frame.fn = "pipeline", ~Walks(Frame),
           NEW a \in FrameType, a.pc \in CallingPc, Fits(a), SameCall(a, Frame),
           NEW v \in States, v = Goal(a), Call(a, PipelineFrame(v)), a.pc = "undo" => errors,
           UNCHANGED <<ret, pipeState, state, errors, subject, before, dirty, ended>>,
           ~dirty => /\ Cur(a, state, pipeState) = Cur(Frame, state, pipeState)
                     /\ pipeState = Begin(a)
                     /\ Undoes(a) => NoUndoBelow(stack)
    PROVE  UndoInv'
<1> DEFINE c == PipelineFrame(v)
<1>1. c \in FrameType /\ Placed(c) /\ c.fn = "pipeline" /\ c.pc = "enter" /\ c.to = v
  BY NewFrames, NewFields
<1>2. Call(a, c)
  OBVIOUS
<1>3. Stacked(stack) /\ stack # <<>> /\ Frame = stack[1]
  BY UndoTop
<1>4. \A k \in 2 .. Len(stack) : Over(c, stack[k]) /\ Direct(c, stack[k], state, ended, pipeState)
  BY <1>3, BelowPipeline
<1> HIDE DEF c
<1>5. a.fn = "pipeline" /\ ~Walks(a) /\ ~Walks(c) /\ a.pc \in WaitingPc /\ Placed(a)
  BY <1>1 DEF SameCall, Walks, CallingPc, WalkingPc, WaitingPc, Placed
<1>6. Fits(c)
  BY <1>1 DEF Fits, WalkingPc, CallingPc, Undoes
<1>7. Over(c, a) /\ Asked(c, a)
  BY <1>1, <1>5 DEF Over, Asked, CallingPc
<1>8. Topped(c, state, ended, pipeState, ret) /\ Lowered(a, state, ended, pipeState)
  BY <1>1, <1>5 DEF Topped, PipelineTopped, Lowered, WalkingPc
<1>9. Direct(c, a, state, ended, pipeState) /\ (pipeState = Begin(a) => Begun(c, a, state, ended, pipeState))
  BY <1>1, <1>5 DEF Direct, Begun, Cur
<1> QED BY <1>1, <1>2, <1>4, <1>5, <1>6, <1>7, <1>8, <1>9, UndoGrows

\* A return that has nothing left to do
LEMMA UndoPipelineReturns ==
    ASSUME ChangeInv, UndoInv, ~Idle, Frame.fn = "pipeline", ~Walks(Frame),
           stack' = Tail(stack), ret' \in {"OK", "ERROR"}, ret' = "ERROR" => errors,
           UNCHANGED <<pipeState, state, errors, subject, before, dirty, ended>>,
           ~dirty => /\ ret' = "OK" \/ NoUndoBelow(stack)
                     /\ ret' = "OK" => pipeState = Frame.to
                     /\ ret' # "OK" => pipeState = Cur(Frame, state, pipeState)
    PROVE  UndoInv'
<1>1. /\ Stacked(stack) /\ stack # <<>> /\ Frame = stack[1] /\ Shaped(stack, subject)
      /\ subject \in Loose \cup {None} /\ dirty \in BOOLEAN
  BY UndoTop
<1>2. ASSUME ~dirty PROVE Clean(stack', state, ended, pipeState, ret', subject, before)
  <2>1. /\ Clean(stack, state, ended, pipeState, ret, subject, before)
        /\ \A x \in ToSet(Elements) : Unit(state, ended, x, pipeState)
    BY <1>2, UndoTop
  <2> DEFINE r == ret'
  <2>2. /\ r \in {"OK", "ERROR"} /\ (r = "OK" \/ NoUndoBelow(stack))
        /\ r = "OK" => pipeState = stack[1].to
        /\ r # "OK" => pipeState = Cur(stack[1], state, pipeState)
    BY <1>1, <1>2
  <2> HIDE DEF r
  <2>3. Clean(Tail(stack), state, ended, pipeState, r, subject, before)
    BY <1>1, <2>1, <2>2, PipelineBack
  <2> QED BY <2>3 DEF r
<1> QED BY <1>1, <1>2, UndoReturns

LEMMA UndoDecomposes ==
    ASSUME ChangeInv, UndoInv, PipelineDecompose PROVE UndoInv'
<1>1. ~Idle /\ Frame.fn = "pipeline" /\ Frame.pc = "enter"
  BY DEF PipelineDecompose, At
<1>2. Frame \in FrameType /\ pipeState \in States /\ Frame.to \in States
  BY <1>1, UndoTop, Fields
<1> DEFINE a == [Frame EXCEPT !.from = pipeState, !.pc = "first"]
           v == Toward(pipeState, Frame.to)
<1>3. /\ a \in FrameType /\ a.fn = "pipeline" /\ a.el = Frame.el /\ a.to = Frame.to
      /\ a.from = pipeState /\ a.pc = "first"
  BY <1>1, <1>2 DEF FrameType
<1>4. /\ Frame.to # pipeState /\ Frame.to # v /\ Call(a, PipelineFrame(v))
      /\ UNCHANGED <<ret, pipeState, state, errors, subject, before, dirty, ended>>
  BY DEF PipelineDecompose, histories
<1>5. v \in States
  BY <1>2, <1>4, OneStep
<1> HIDE DEF a
<1>6. v = Goal(a) /\ Fits(a) /\ SameCall(a, Frame) /\ a.pc \in CallingPc /\ ~Undoes(a)
  BY <1>1, <1>3, <1>4 DEF Goal, Mid, Fits, SameCall, CallingPc, WalkingPc, Undoes
<1>7. /\ Cur(a, state, pipeState) = Cur(Frame, state, pipeState) /\ pipeState = Begin(a)
      /\ ~Walks(Frame)
  BY <1>1, <1>3 DEF Cur, Begin, Walks, WalkingPc
<1> HIDE DEF v
<1> QED BY <1>1, <1>3, <1>4, <1>5, <1>6, <1>7, UndoPipelineCalls

LEMMA UndoSteps ==
    ASSUME ChangeInv, UndoInv, PipelineFirst \/ PipelineSecond \/ PipelineUndone \/ PipelineSame
    PROVE  UndoInv'
<1>1. /\ ~Idle /\ Frame.fn = "pipeline" /\ Frame.pc \in {"enter", "first", "second", "undo"}
      /\ UNCHANGED <<pipeState, state, errors, subject, before, dirty, ended>>
  BY DEF PipelineFirst, PipelineSecond, PipelineUndone, PipelineSame, At, histories
<1>2. /\ Frame \in FrameType /\ pipeState \in States /\ Fits(Frame) /\ ret \in {"OK", "ERROR"}
      /\ Posted(stack, ret, errors, subject) /\ stack # <<>> /\ Frame = stack[1]
      /\ Len(stack) \in Nat \ {0} /\ dirty \in BOOLEAN
  BY <1>1, UndoTop
<1>3. Frame.to \in States /\ Frame.from \in States /\ Frame.r \in {"OK", "ERROR"} /\ ~Walks(Frame)
  BY <1>1, <1>2, Fields DEF Walks, WalkingPc
<1>4. /\ Frame.pc \in {"first", "second"} /\ ret = "ERROR" => errors
      /\ Frame.pc = "undo" => errors
  BY <1>1, <1>2 DEF Posted
<1>5. ASSUME ~dirty
      PROVE  /\ PipelineTopped(Frame, state, ended, pipeState, ret)
             /\ Frame.pc = "undo" => NoUndoBelow(stack)
             /\ Frame.pc \in {"first", "second"} /\ ret # "OK" => NoUndoBelow(stack)
  BY <1>1, <1>5, UndoTop DEF Topped, Undoes
<1>6. Frame.pc # "enter" => Cur(Frame, state, pipeState) = Frame.from
  BY DEF Cur
<1>7. CASE PipelineSame
  <2>1. stack' = Tail(stack) /\ ret' = "OK" /\ pipeState = Frame.to
    BY <1>7 DEF PipelineSame, Return
  <2> QED BY <1>1, <1>3, <2>1, UndoPipelineReturns
<1>8. CASE PipelineUndone
  <2>1. stack' = Tail(stack) /\ ret' = Frame.r /\ Frame.pc = "undo"
    BY <1>8 DEF PipelineUndone, Return, At
  <2>2. Frame.r = "ERROR"
    BY <1>2, <2>1 DEF Fits, Undoes
  <2>3. ~dirty => pipeState = Cur(Frame, state, pipeState)
    BY <1>5, <1>6, <2>1 DEF PipelineTopped
  <2> QED BY <1>1, <1>3, <1>4, <1>5, <2>1, <2>2, <2>3, UndoPipelineReturns
<1>9. CASE PipelineFirst /\ ret # "OK"
  <2>1. stack' = Tail(stack) /\ ret' = "ERROR" /\ ret = "ERROR" /\ Frame.pc = "first"
    BY <1>2, <1>9 DEF PipelineFirst, Return, At
  <2>2. ~dirty => pipeState = Cur(Frame, state, pipeState)
    BY <1>5, <1>6, <2>1 DEF PipelineTopped
  <2> QED BY <1>1, <1>3, <1>4, <1>5, <2>1, <2>2, UndoPipelineReturns
<1>10. CASE PipelineSecond /\ ret = "OK"
  <2>1. stack' = Tail(stack) /\ ret' = "OK" /\ Frame.pc = "second"
    BY <1>10 DEF PipelineSecond, Return, At
  <2>2. ~dirty => pipeState = Frame.to
    BY <1>5, <1>10, <2>1 DEF PipelineTopped
  <2> QED BY <1>1, <1>3, <2>1, <2>2, UndoPipelineReturns
<1>11. CASE PipelineFirst /\ ret = "OK"
  <2> DEFINE a == [Frame EXCEPT !.pc = "second"]
  <2>1. Call(a, PipelineFrame(Frame.to)) /\ UNCHANGED ret /\ Frame.pc = "first"
    BY <1>11 DEF PipelineFirst, At
  <2>2. /\ a \in FrameType /\ a.fn = "pipeline" /\ a.el = Frame.el /\ a.to = Frame.to
        /\ a.from = Frame.from /\ a.pc = "second"
    BY <1>1, <1>2 DEF FrameType
  <2> HIDE DEF a
  <2>3. Frame.to = Goal(a) /\ SameCall(a, Frame) /\ a.pc \in CallingPc /\ ~Undoes(a) /\ Mid(a) = Mid(Frame)
    BY <1>1, <2>2 DEF Goal, Mid, SameCall, CallingPc, Undoes
  <2>4. Fits(a)
    BY <1>2, <2>1, <2>2, <2>3 DEF Fits, CallingPc, WalkingPc
  <2>5. Cur(a, state, pipeState) = Cur(Frame, state, pipeState)
    BY <2>1, <2>2 DEF Cur
  <2>6. ~dirty => pipeState = Begin(a)
    BY <1>5, <1>11, <2>1, <2>2, <2>3 DEF PipelineTopped, Begin
  <2> QED BY <1>1, <1>3, <2>1, <2>2, <2>3, <2>4, <2>5, <2>6, UndoPipelineCalls
<1>12. CASE PipelineSecond /\ ret # "OK"
  <2> DEFINE a == [Frame EXCEPT !.pc = "undo", !.r = ret]
  <2>1. Call(a, PipelineFrame(Frame.from)) /\ UNCHANGED ret /\ Frame.pc = "second" /\ ret = "ERROR"
    BY <1>2, <1>12 DEF PipelineSecond, At
  <2>2. /\ a \in FrameType /\ a.fn = "pipeline" /\ a.el = Frame.el /\ a.to = Frame.to
        /\ a.from = Frame.from /\ a.pc = "undo" /\ a.r = "ERROR"
    BY <1>1, <1>2, <2>1 DEF FrameType
  <2> HIDE DEF a
  <2>3. Frame.from = Goal(a) /\ SameCall(a, Frame) /\ a.pc \in CallingPc /\ Mid(a) = Mid(Frame)
    BY <1>1, <2>2 DEF Goal, Mid, SameCall, CallingPc, Undoes
  <2>4. Fits(a)
    BY <1>2, <2>1, <2>2, <2>3 DEF Fits, CallingPc, WalkingPc
  <2>5. Cur(a, state, pipeState) = Cur(Frame, state, pipeState)
    BY <2>1, <2>2 DEF Cur
  <2>6. ~dirty => pipeState = Begin(a) /\ NoUndoBelow(stack)
    BY <1>5, <1>12, <2>1, <2>2, <2>3 DEF PipelineTopped, Begin
  <2>7. errors
    BY <1>4, <2>1
  <2> QED BY <1>1, <1>3, <2>1, <2>2, <2>3, <2>4, <2>5, <2>6, <2>7, UndoPipelineCalls
<1> QED BY <1>7, <1>8, <1>9, <1>10, <1>11, <1>12

LEMMA UndoEnters ==
    ASSUME ChangeInv, UndoInv, PipelineEnter PROVE UndoInv'
<1>1. ~Idle /\ Frame.fn = "pipeline" /\ Frame.pc = "enter"
  BY DEF PipelineEnter, At
<1>2. Frame \in FrameType /\ pipeState \in States /\ Frame.to \in States
  BY <1>1, UndoTop, Fields
<1> DEFINE a == [Frame EXCEPT !.from = pipeState, !.pc = "walk", !.i = 1]
<1>3. /\ a \in FrameType /\ a.fn = "pipeline" /\ a.el = Frame.el /\ a.to = Frame.to
      /\ a.from = pipeState /\ a.pc = "walk" /\ a.i = 1
  BY <1>1, <1>2 DEF FrameType
<1>4. /\ Frame.to # pipeState /\ Frame.to = Toward(pipeState, Frame.to) /\ Goto(a)
      /\ UNCHANGED <<ret, pipeState, state, errors, subject, before, dirty, ended>>
  BY DEF PipelineEnter, histories
<1> HIDE DEF a
<1>5. /\ SameCall(a, Frame) /\ a.pc \notin CallingPc \cup {"walked", "bin"} /\ ~Undoes(a)
      /\ Placed(a) /\ Walks(a) /\ ~Walks(Frame)
  BY <1>1, <1>3 DEF SameCall, CallingPc, Undoes, Placed, Walks, WalkingPc
<1>6. Fits(a)
  <2>1. a.i \in 1 .. Len(Elements) + 1
    BY <1>3, SequencesGiven
  <2> QED BY <1>3, <1>4, <2>1 DEF Fits, CallingPc, Undoes, Mid
<1>7. Cur(a, state, pipeState) = Cur(Frame, state, pipeState)
  BY <1>1, <1>3 DEF Cur
<1>8. ASSUME ~dirty PROVE Topped(a, state, ended, pipeState, ret)
  <2>1. \A x \in ToSet(Elements) : Unit(state, ended, x, pipeState)
    BY <1>1, <1>5, <1>8, UndoTop
  <2>2. \A k \in DOMAIN Elements : Place(a, k, ret) = a.from
    BY <1>3, SequencesGiven DEF Place
  <2>3. PipeLeft(a, state, ended, pipeState, ret, {})
    BY <1>3, <2>1, <2>2, Walk DEF PipeLeft
  <2> QED BY <1>3, <2>3 DEF Topped, PipelineTopped
<1> QED BY <1>1, <1>3, <1>4, <1>5, <1>6, <1>7, <1>8, UndoGoes

\* A new call for an element that is in state v with its children
LEMMA EnterTopped ==
    ASSUME NEW c, c.fn = "element", c.pc = "enter", NEW st, NEW en, en \subseteq Sources,
           NEW v, Unit(st, en, c.el, v), NEW ps, NEW rt
    PROVE  Topped(c, st, en, ps, rt)
<1>1. c.el \in en \/ st[c.el] = v
  BY DEF Unit, Is
<1>2. c.el \in en => Kids(c.el) = {}
  BY Family
<1>3. \A k \in Kids(c.el) : Is(st, en, k, st[c.el])
  BY <1>1, <1>2 DEF Unit
<1> QED BY <1>3 DEF Topped, ElementTopped

LEMMA UndoPipelineAsks ==
    ASSUME ChangeInv, UndoInv, ~Idle, Walks(Frame), Frame.i \in DOMAIN Elements,
           NEW a \in FrameType, SameCall(a, Frame), a.from = Frame.from, a.pc \in {"walked", "rollback"},
           Placed(a), Fits(a), FluxAt(a) = Frame.i, Undoes(a) => Undoes(Frame),
           Call(a, ElementFrame(Flux(a), Goal(a))),
           UNCHANGED <<ret, pipeState, state, errors, subject, before, dirty, ended>>,
           Place(Frame, Frame.i, ret) = Begin(a),
           \A k \in DOMAIN Elements \ {Frame.i} : Place(a, k, "OK") = Place(Frame, k, ret)
    PROVE  UndoInv'
<1> DEFINE x == Flux(a)
           v == Goal(a)
           c == ElementFrame(x, v)
<1>1. a.fn = "pipeline" /\ Frame.fn = "pipeline" /\ a.to = Frame.to /\ Walks(a)
  BY DEF SameCall, Walks, WalkingPc
<1>2. x \in ToSet(Elements) /\ x = Nth(Frame.to > Frame.from, Frame.i)
  BY <1>1, FluxIs
<1>3. v \in States /\ x \in All
  BY <1>1, <1>2, Fields, Family DEF Goal, Undoes
<1>5. Call(a, c)
  OBVIOUS
<1> HIDE DEF x, v
<1>4. c \in FrameType /\ Placed(c) /\ c.fn = "element" /\ c.pc = "enter" /\ c.to = v /\ c.el = x
  <2>1. c \in FrameType /\ Placed(c)
    BY <1>3, NewFrames
  <2>2. c.fn = "element" /\ c.pc = "enter" /\ c.to = v /\ c.el = x
    BY DEF ElementFrame, PipelineFrame
  <2> QED BY <2>1, <2>2
<1>6. Stacked(stack) /\ stack # <<>> /\ Frame = stack[1] /\ ended \subseteq Sources
  BY UndoTop
<1>7. \A k \in 2 .. Len(stack) : Over(c, stack[k]) /\ Direct(c, stack[k], state, ended, pipeState)
  BY <1>1, <1>6, BelowPipeline
<1> HIDE DEF c
<1>8. ~Walks(c) /\ a.pc \in WaitingPc /\ a.pc # "undo" /\ a.pc \notin CallingPc
  BY <1>4 DEF Walks, WaitingPc, CallingPc
<1>9. Fits(c)
  BY <1>4 DEF Fits, WalkingPc, CallingPc, Undoes
<1>10. Over(c, a) /\ Asked(c, a)
  BY <1>1, <1>4, <1>8 DEF Over, Asked, x, v
<1>11. Cur(a, state, pipeState) = Cur(Frame, state, pipeState)
  BY <1>1 DEF Cur, Walks, WalkingPc
<1>12. ASSUME ~dirty
       PROVE  /\ Lowered(a, state, ended, pipeState) /\ (Undoes(a) => NoUndoBelow(stack))
              /\ Topped(c, state, ended, pipeState, ret)
              /\ Begun(c, a, state, ended, pipeState) /\ Direct(c, a, state, ended, pipeState)
  <2>1. PipeLeft(Frame, state, ended, pipeState, ret, {}) /\ (Undoes(Frame) => NoUndoBelow(stack))
    BY <1>1, <1>12, UndoTop DEF Topped, PipelineTopped, Walks
  <2>2. Unit(state, ended, x, Begin(a))
    BY <1>2, <2>1 DEF PipeLeft
  <2>3. PipeLeft(a, state, ended, pipeState, "OK", {FluxAt(a)})
    BY <1>1, <2>1 DEF PipeLeft
  <2>4. Begin(a) \in {a.from, a.to}
    BY DEF Begin
  <2>5. Lowered(a, state, ended, pipeState)
    BY <1>1, <2>2, <2>3, <2>4 DEF Lowered, Unit, x
  <2> DEFINE b == Begin(a)
  <2>7. Unit(state, ended, c.el, b)
    BY <1>4, <2>2
  <2> HIDE DEF b
  <2>6. Topped(c, state, ended, pipeState, ret) /\ (c.el \in ended \/ Cur(c, state, pipeState) = b)
    <3>1. c.fn = "element" /\ c.pc = "enter" /\ ended \subseteq Sources
      BY <1>4, <1>6
    <3>2. Topped(c, state, ended, pipeState, ret)
      BY <2>7, <3>1, EnterTopped
    <3> QED BY <2>7, <3>1, <3>2 DEF Unit, Is, Cur
  <2> QED BY <1>4, <2>1, <2>5, <2>6 DEF Begun, Direct, b, v
<1> QED BY <1>1, <1>4, <1>5, <1>7, <1>8, <1>9, <1>10, <1>11, <1>12, UndoGrows

LEMMA UndoWalks ==
    ASSUME ChangeInv, UndoInv, PipelineWalk PROVE UndoInv'
<1>1. ~Idle /\ Frame.fn = "pipeline" /\ Frame.pc = "walk" /\ Frame.i \in DOMAIN Elements
  BY DEF PipelineWalk, At
<1>2. Frame \in FrameType /\ Fits(Frame)
  BY <1>1, UndoTop
<1> DEFINE a == [Frame EXCEPT !.pc = "walked"]
<1>3. /\ a \in FrameType /\ a.fn = "pipeline" /\ a.el = Frame.el /\ a.to = Frame.to
      /\ a.from = Frame.from /\ a.pc = "walked" /\ a.i = Frame.i
  BY <1>1, <1>2 DEF FrameType
<1>4. /\ Call(a, ElementFrame(Nth(Frame.to > Frame.from, Frame.i), Frame.to))
      /\ UNCHANGED <<ret, pipeState, state, errors, subject, before, dirty, ended>>
  BY DEF PipelineWalk, histories, Up
<1> HIDE DEF a
<1>5. Goal(a) = Frame.to /\ Flux(a) = Nth(Frame.to > Frame.from, Frame.i) /\ FluxAt(a) = Frame.i
      /\ Begin(a) = Frame.from /\ Mid(a) = Mid(Frame) /\ ~Undoes(a)
  BY <1>3 DEF Goal, Flux, FluxAt, Begin, Undoes, Mid
<1>6. SameCall(a, Frame) /\ Placed(a) /\ Walks(Frame)
  BY <1>1, <1>3 DEF SameCall, Placed, Walks, WalkingPc
<1>7. Fits(a)
  BY <1>1, <1>2, <1>3, <1>5 DEF Fits, CallingPc, WalkingPc
<1>8. /\ Place(Frame, Frame.i, ret) = Frame.from
      /\ \A k \in DOMAIN Elements \ {Frame.i} : Place(a, k, "OK") = Place(Frame, k, ret)
  <2>1. Frame.i \in Nat /\ ~(Frame.i < Frame.i)
    BY <1>2, Fields
  <2> QED BY <1>1, <1>3, <2>1 DEF Place
<1> QED BY <1>1, <1>3, <1>4, <1>5, <1>6, <1>7, <1>8, UndoPipelineAsks

LEMMA UndoRollsBack ==
    ASSUME ChangeInv, UndoInv, PipelineRollback PROVE UndoInv'
<1>1. ~Idle /\ Frame.fn = "pipeline" /\ Frame.pc = "rollback" /\ Frame.i \in DOMAIN Elements
  BY DEF PipelineRollback, At
<1>2. Frame \in FrameType /\ Fits(Frame)
  BY <1>1, UndoTop
<1>3. Frame.i \in Nat /\ Frame.i - 1 \in Nat /\ (Frame.i - 1) + 1 = Frame.i
  BY <1>1, SequencesGiven
<1> DEFINE a == [Frame EXCEPT !.i = Frame.i - 1]
<1>4. /\ a \in FrameType /\ a.fn = "pipeline" /\ a.el = Frame.el /\ a.to = Frame.to
      /\ a.from = Frame.from /\ a.pc = "rollback" /\ a.i = Frame.i - 1 /\ a.r = Frame.r
  BY <1>1, <1>2, <1>3, Zenon DEF FrameType
<1>5. /\ Call(a, ElementFrame(Nth(Frame.to > Frame.from, Frame.i), Frame.from))
      /\ UNCHANGED <<ret, pipeState, state, errors, subject, before, dirty, ended>>
  BY DEF PipelineRollback, histories, Up
<1> HIDE DEF a
<1>6. FluxAt(a) = Frame.i
  BY <1>3, <1>4 DEF FluxAt
<1>7. Goal(a) = Frame.from /\ Flux(a) = Nth(Frame.to > Frame.from, Frame.i)
      /\ Begin(a) = Frame.to /\ Mid(a) = Mid(Frame) /\ Undoes(Frame)
  BY <1>1, <1>4, <1>6 DEF Goal, Flux, Begin, Undoes, Mid
<1>8. SameCall(a, Frame) /\ Placed(a) /\ Walks(Frame)
  BY <1>1, <1>4 DEF SameCall, Placed, Walks, WalkingPc
<1>9. Fits(a)
  <2>1. a.i + 1 \in DOMAIN Elements
    BY <1>1, <1>3, <1>4
  <2> QED BY <1>1, <1>2, <1>4, <1>7, <2>1 DEF Fits, CallingPc, WalkingPc, Undoes
<1>10. Place(Frame, Frame.i, ret) = Frame.to
  <2>1. Frame.i <= Frame.i
    BY <1>3
  <2> QED BY <1>1, <2>1 DEF Place
<1>11. ASSUME NEW k \in DOMAIN Elements \ {Frame.i} PROVE Place(a, k, "OK") = Place(Frame, k, ret)
  <2>1. k <= Frame.i - 1 <=> k <= Frame.i
    BY <1>3, SequencesGiven
  <2> QED BY <1>1, <1>4, <2>1 DEF Place
<1> QED BY <1>1, <1>4, <1>5, <1>6, <1>7, <1>8, <1>9, <1>10, <1>11, UndoPipelineAsks

LEMMA UndoWalked ==
    ASSUME ChangeInv, UndoInv, PipelineWalked PROVE UndoInv'
<1>1. ~Idle /\ Frame.fn = "pipeline" /\ Frame.pc = "walked"
      /\ UNCHANGED <<ret, pipeState, state, errors, subject, before, dirty, ended>>
  BY DEF PipelineWalked, At, histories
<1>2. Frame \in FrameType /\ Fits(Frame) /\ Placed(Frame) /\ ret \in {"OK", "ERROR"}
  BY <1>1, UndoTop
<1>3. /\ Frame.i \in Nat /\ Frame.i \in DOMAIN Elements /\ Frame.i - 1 \in Nat /\ (Frame.i - 1) + 1 = Frame.i
      /\ Frame.i + 1 \in Nat /\ Frame.i + 1 \in 1 .. Len(Elements) + 1
  BY <1>1, <1>2, SequencesGiven DEF Placed
<1>4. \E a \in FrameType :
         /\ SameCall(a, Frame) /\ a.from = Frame.from /\ Goto(a)
         /\ \/ ret = "OK" /\ a.pc = "walk" /\ a.i = Frame.i + 1
            \/ ret # "OK" /\ a.pc = "rollback" /\ a.i = Frame.i - 1 /\ a.r = "ERROR"
  <2>1. CASE ret = "OK"
    <3> DEFINE a == [Frame EXCEPT !.pc = "walk", !.i = Frame.i + 1]
    <3>1. /\ a \in FrameType /\ a.fn = Frame.fn /\ a.el = Frame.el /\ a.to = Frame.to
          /\ a.from = Frame.from /\ a.pc = "walk" /\ a.i = Frame.i + 1
      BY <1>1, <1>2, <1>3, Zenon DEF FrameType
    <3>2. Goto(a)
      BY <2>1 DEF PipelineWalked
    <3> HIDE DEF a
    <3> QED BY <2>1, <3>1, <3>2 DEF SameCall
  <2>2. CASE ret # "OK"
    <3> DEFINE a == [Frame EXCEPT !.pc = "rollback", !.i = Frame.i - 1, !.r = ret]
    <3>1. /\ a \in FrameType /\ a.fn = Frame.fn /\ a.el = Frame.el /\ a.to = Frame.to
          /\ a.from = Frame.from /\ a.pc = "rollback" /\ a.i = Frame.i - 1 /\ a.r = ret
      BY <1>1, <1>2, <1>3, Zenon DEF FrameType
    <3>2. Goto(a)
      BY <2>2 DEF PipelineWalked
    <3> HIDE DEF a
    <3> QED BY <1>2, <2>2, <3>1, <3>2 DEF SameCall
  <2> QED BY <2>1, <2>2
<1>5. PICK a \in FrameType :
         /\ SameCall(a, Frame) /\ a.from = Frame.from /\ Goto(a)
         /\ \/ ret = "OK" /\ a.pc = "walk" /\ a.i = Frame.i + 1
            \/ ret # "OK" /\ a.pc = "rollback" /\ a.i = Frame.i - 1 /\ a.r = "ERROR"
  BY <1>4
<1>6. a.fn = "pipeline" /\ a.to = Frame.to /\ Mid(a) = Mid(Frame)
  BY <1>1, <1>5 DEF SameCall, Mid
<1>7. Placed(a) /\ Walks(a) /\ a.pc \notin CallingPc \cup {"walked", "bin"}
  BY <1>5, <1>6 DEF Placed, Walks, WalkingPc, CallingPc
<1>8. Fits(a)
  BY <1>1, <1>2, <1>3, <1>5, <1>6 DEF Fits, CallingPc, WalkingPc, Undoes
<1>9. Cur(a, state, pipeState) = Cur(Frame, state, pipeState)
  BY <1>1, <1>5 DEF Cur
<1>10. ASSUME ~dirty PROVE Topped(a, state, ended, pipeState, ret) /\ (Undoes(a) => NoUndoBelow(stack))
  <2>1. PipeLeft(Frame, state, ended, pipeState, ret, {}) /\ (ret # "OK" => NoUndoBelow(stack))
    BY <1>1, <1>10, UndoTop DEF Topped, PipelineTopped, WalkingPc
  <2>2. ASSUME NEW k \in DOMAIN Elements PROVE Place(a, k, ret) = Place(Frame, k, ret)
    <3>1. k \in Nat
      BY SequencesGiven
    <3>2. /\ k < Frame.i + 1 <=> (k < Frame.i \/ k = Frame.i)
          /\ k <= Frame.i - 1 <=> k < Frame.i
      BY <1>3, <3>1
    <3> QED BY <1>1, <1>5, <1>6, <3>2 DEF Place
  <2>3. PipeLeft(a, state, ended, pipeState, ret, {})
    BY <1>5, <1>6, <2>1, <2>2 DEF PipeLeft
  <2>4. Undoes(a) => ret # "OK"
    BY <1>5 DEF Undoes
  <2> QED BY <1>5, <1>6, <2>1, <2>3, <2>4 DEF Topped, PipelineTopped
<1> QED BY <1>1, <1>5, <1>7, <1>8, <1>9, <1>10, UndoGoes

LEMMA UndoLeaves ==
    ASSUME ChangeInv, UndoInv, PipelineFail \/ PipelineDone PROVE UndoInv'
<1>1. /\ ~Idle /\ Frame.fn = "pipeline" /\ Frame.i \notin DOMAIN Elements
      /\ Frame.pc = IF PipelineDone THEN "walk" ELSE "rollback"
      /\ stack' = Tail(stack) /\ UNCHANGED <<state, subject, before, dirty, ended>>
  BY DEF PipelineFail, PipelineDone, At, Return, histories
<1>2. /\ Frame \in FrameType /\ Fits(Frame) /\ Stacked(stack) /\ stack # <<>> /\ Frame = stack[1]
      /\ Shaped(stack, subject) /\ subject \in Loose \cup {None} /\ dirty \in BOOLEAN
  BY <1>1, UndoTop
<1>3. DOMAIN Elements = 1 .. Len(Elements) /\ Len(Elements) \in Nat /\ Frame.i \in Nat
  BY <1>2, SequencesGiven, Fields
<1>4. ASSUME PipelineFail
      PROVE  /\ ret' = "ERROR" /\ pipeState' = pipeState /\ errors' = TRUE /\ Frame.pc = "rollback"
             /\ Frame.i = 0
  <2>1. Frame.pc = "rollback" /\ ret' = Frame.r /\ pipeState' = pipeState /\ errors' = TRUE
    BY <1>4 DEF PipelineFail, At, Return
  <2>2. Frame.r = "ERROR" /\ Frame.i + 1 \in DOMAIN Elements
    BY <1>1, <1>2, <2>1 DEF Fits, Undoes
  <2>3. Frame.i = 0
    BY <1>1, <1>3, <2>2
  <2> QED BY <2>1, <2>2, <2>3
<1>5. ASSUME PipelineDone
      PROVE  /\ ret' = "OK" /\ pipeState' = Frame.to /\ errors' = errors /\ Frame.pc = "walk"
             /\ Frame.i = Len(Elements) + 1
  <2>1. Frame.pc = "walk" /\ ret' = "OK" /\ pipeState' = Frame.to /\ errors' = errors
    BY <1>5 DEF PipelineDone, At, Return
  <2>2. Frame.i \in 1 .. Len(Elements) + 1
    BY <1>1, <1>2, <2>1 DEF Fits
  <2>3. Frame.i = Len(Elements) + 1
    BY <1>1, <1>3, <2>2
  <2> QED BY <2>1, <2>3
<1>6. ASSUME ~dirty PROVE Clean(stack', state, ended, pipeState', ret', subject, before)
  <2>1. /\ Clean(stack, state, ended, pipeState, ret, subject, before)
        /\ PipeLeft(Frame, state, ended, pipeState, ret, {}) /\ (Undoes(Frame) => NoUndoBelow(stack))
    BY <1>1, <1>6, UndoTop DEF Topped, PipelineTopped, WalkingPc
  <2>2. \A x \in ToSet(Elements) : Unit(state, ended, x, pipeState')
    <3>1. ASSUME NEW k \in DOMAIN Elements PROVE Place(Frame, k, ret) = pipeState'
      <4>1. CASE PipelineFail
        <5>1. pipeState' = Frame.from /\ ~(k <= Frame.i)
          BY <1>3, <1>4, <2>1, <4>1 DEF PipeLeft
        <5> QED BY <1>1, <1>4, <4>1, <5>1 DEF Place
      <4>2. CASE PipelineDone
        <5>1. pipeState' = Frame.to /\ k < Frame.i
          BY <1>3, <1>5, <4>2
        <5> QED BY <1>5, <4>2, <5>1 DEF Place
      <4> QED BY <4>1, <4>2
    <3>2. \A x \in ToSet(Elements) : \E k \in DOMAIN Elements : x = Nth(Frame.to > Frame.from, k)
      BY Walk
    <3> QED BY <2>1, <3>1, <3>2 DEF PipeLeft
  <2> DEFINE r == ret'
             p == pipeState'
  <2>3. /\ r \in {"OK", "ERROR"} /\ (r = "OK" \/ NoUndoBelow(stack))
        /\ r = "OK" => p = stack[1].to
        /\ r # "OK" => p = Cur(stack[1], state, pipeState)
        /\ \A x \in ToSet(Elements) : Unit(state, ended, x, p)
    <3>1. CASE PipelineFail
      <4>1. Cur(Frame, state, pipeState) = Frame.from /\ pipeState = Frame.from /\ Undoes(Frame)
        BY <1>4, <2>1, <3>1 DEF Cur, PipeLeft, Undoes
      <4> QED BY <1>2, <1>4, <2>1, <2>2, <3>1, <4>1
    <3>2. CASE PipelineDone
      BY <1>2, <1>5, <2>2, <3>2
    <3> QED BY <3>1, <3>2
  <2> HIDE DEF r, p
  <2>4. Clean(Tail(stack), state, ended, p, r, subject, before)
    BY <1>1, <1>2, <2>1, <2>3, PipelineBack
  <2> QED BY <1>1, <2>4 DEF r, p
<1>7. (errors => errors') /\ (ret' = "ERROR" => errors')
  <2>1. CASE PipelineFail
    BY <1>4, <2>1
  <2>2. CASE PipelineDone
    BY <1>5, <2>2
  <2> QED BY <2>1, <2>2
<1> QED BY <1>1, <1>2, <1>6, <1>7, UndoReturns

\* zst_element_set_state

LEMMA OverLike ==
    ASSUME NEW g, NEW h, NEW f, g.fn = h.fn, g.el = h.el, Over(h, f) PROVE Over(g, f)
BY DEF Over

\* A call that a walk has asked for is a single step: it never decomposes.
LEMMA SelfDirect ==
    ASSUME NEW f \in FrameType, Fits(f), f.pc \in WaitingPc, NEW h, NEW c, h.fn = "element",
           c.el = h.el, NEW st, NEW en, NEW ps, Direct(h, f, st, en, ps),
           Toward(Cur(h, st, ps), h.to) # h.to
    PROVE  Direct(c, f, st, en, ps)
<1> SUFFICES ASSUME Walks(f), c.el = Flux(f), c.el \notin en PROVE FALSE
  BY DEF Direct
<1>1. h.to = Goal(f) /\ Cur(h, st, ps) = Begin(f)
  BY DEF Direct
<1>2. f.fn = "pipeline" /\ f.pc \in {"walked", "rollback"}
  BY DEF Walks, WalkingPc, WaitingPc, CallingPc
<1> DEFINE rt == "OK"
<1>3. Toward(Begin(f), Goal(f)) = Goal(f)
  <2>1. rt = "OK" \/ ~Undoes(f)
    OBVIOUS
  <2> HIDE DEF rt
  <2> QED BY <1>2, <2>1, PlaceIs
<1> QED BY <1>1, <1>3

\* What the frames below say of the top
LEMMA BelowElement ==
    ASSUME ChangeInv, UndoInv, ~Idle
    PROVE  /\ \A k \in 2 .. Len(stack) : /\ stack[k] \in FrameType /\ Fits(stack[k]) /\ Placed(stack[k])
                                         /\ stack[k].pc \in WaitingPc /\ Over(Frame, stack[k])
           /\ ~dirty => \A k \in 2 .. Len(stack) : Direct(Frame, stack[k], state, ended, pipeState)
<1>1. /\ Stacked(stack) /\ Frame = stack[1] /\ Shaped(stack, subject) /\ Len(stack) \in Nat \ {0}
      /\ ~dirty => Clean(stack, state, ended, pipeState, ret, subject, before)
  BY UndoTop
<1>2. \A k \in 2 .. Len(stack) : k \in 1 .. Len(stack) /\ 1 \in 1 .. Len(stack) /\ 1 < k
  BY <1>1
<1>3. \A k \in 1 .. Len(stack) : stack[k] \in FrameType
  BY <1>1 DEF Stacked
<1>4. \A k \in 2 .. Len(stack) : /\ stack[k] \in FrameType /\ Fits(stack[k]) /\ Placed(stack[k])
                                 /\ stack[k].pc \in WaitingPc /\ Over(Frame, stack[k])
  BY <1>1, <1>2, <1>3 DEF Stacked, Shaped
<1>5. ~dirty => \A k \in 2 .. Len(stack) : Direct(Frame, stack[k], state, ended, pipeState)
  BY <1>1, <1>2 DEF Clean
<1> QED BY <1>4, <1>5

LEMMA UndoSelfCalls ==
    ASSUME ChangeInv, UndoInv, ~Idle, Frame.fn = "element", Frame.el \in All,
           NEW a \in FrameType, a.pc \in CallingPc, Fits(a), SameCall(a, Frame),
           NEW v \in States, v = Goal(a), Call(a, ElementFrame(Frame.el, v)),
           UNCHANGED <<ret, pipeState, state, errors, subject, before, dirty, ended>>,
           ~dirty => /\ a.from = Cur(Frame, state, pipeState)
                     /\ Unit(state, ended, Frame.el, Begin(a))
                     /\ Undoes(a) => NoUndoBelow(stack)
    PROVE  UndoInv'
<1> DEFINE x == Frame.el
           c == ElementFrame(x, v)
<1>1. Call(a, c) /\ x \in All
  OBVIOUS
<1> HIDE DEF x
<1>2. c \in FrameType /\ Placed(c) /\ c.fn = "element" /\ c.pc = "enter" /\ c.to = v /\ c.el = x
  <2>1. c \in FrameType /\ Placed(c)
    BY <1>1, NewFrames
  <2>2. c.fn = "element" /\ c.pc = "enter" /\ c.to = v /\ c.el = x
    BY DEF ElementFrame, PipelineFrame
  <2> QED BY <2>1, <2>2
<1> HIDE DEF c
<1>3. a.fn = "element" /\ a.el = x /\ a.to = Frame.to /\ c.el = Frame.el
  BY <1>2 DEF SameCall, x
<1>4. /\ Placed(a) /\ ~Walks(a) /\ ~Walks(c) /\ ~Walks(Frame) /\ a.pc \in WaitingPc /\ Fits(c)
      /\ Over(c, a) /\ Asked(c, a)
  <2>1. Placed(a)
    BY <1>1, <1>3 DEF Placed, CallingPc
  <2>2. ~Walks(a) /\ ~Walks(c) /\ ~Walks(Frame)
    BY <1>2, <1>3 DEF Walks
  <2>3. a.pc \in WaitingPc
    BY DEF WaitingPc
  <2>4. Fits(c)
    BY <1>2 DEF Fits, WalkingPc, CallingPc, Undoes
  <2>5. Over(c, a)
    BY <1>2, <1>3, <2>2 DEF Over
  <2>6. Asked(c, a)
    BY <1>2, <1>3 DEF Asked, CallingPc
  <2> QED BY <2>1, <2>2, <2>3, <2>4, <2>5, <2>6
<1>5. \A k \in 2 .. Len(stack) : Over(c, stack[k])
  <2>1. c.fn = Frame.fn /\ c.el = Frame.el
    BY <1>2, <1>3
  <2> QED BY <2>1, BelowElement, OverLike
<1>6. ASSUME ~dirty
      PROVE  /\ Cur(a, state, pipeState) = Cur(Frame, state, pipeState)
             /\ Lowered(a, state, ended, pipeState)
             /\ Topped(c, state, ended, pipeState, ret)
             /\ Begun(c, a, state, ended, pipeState) /\ Direct(c, a, state, ended, pipeState)
             /\ \A k \in 2 .. Len(stack) : Direct(c, stack[k], state, ended, pipeState)
  <2>1. a.from = Cur(Frame, state, pipeState) /\ Unit(state, ended, Frame.el, Begin(a)) /\ ended \subseteq Sources
    BY <1>6, UndoTop
  <2>2. Cur(a, state, pipeState) = a.from
    BY DEF Cur, CallingPc
  <2>3. Lowered(a, state, ended, pipeState)
    BY <1>3, <1>4 DEF Lowered, CallingPc
  <2> DEFINE b == Begin(a)
  <2>4. Unit(state, ended, c.el, b)
    BY <1>3, <2>1
  <2> HIDE DEF b
  <2>5. Topped(c, state, ended, pipeState, ret)
    BY <1>2, <2>1, <2>4, EnterTopped
  <2>6. Begun(c, a, state, ended, pipeState)
    BY <1>2, <2>4 DEF Unit, Is, Begun, Cur, b
  <2>7. Direct(c, a, state, ended, pipeState)
    BY <1>4 DEF Direct
  <2>8. Toward(Cur(Frame, state, pipeState), Frame.to) # Frame.to
    BY <1>3, <2>1 DEF Fits, Mid
  <2>9. ASSUME NEW k \in 2 .. Len(stack) PROVE Direct(c, stack[k], state, ended, pipeState)
    <3>1. /\ stack[k] \in FrameType /\ Fits(stack[k]) /\ stack[k].pc \in WaitingPc
          /\ Direct(Frame, stack[k], state, ended, pipeState)
      BY <1>6, BelowElement
    <3> QED BY <1>3, <2>8, <3>1, SelfDirect
  <2> QED BY <2>1, <2>2, <2>3, <2>5, <2>6, <2>7, <2>9
<1> QED BY <1>1, <1>2, <1>3, <1>4, <1>5, <1>6, UndoGrows

LEMMA UndoElementReturns ==
    ASSUME ChangeInv, UndoInv, ~Idle, Frame.fn = "element", stack' = Tail(stack),
           ret' \in {"OK", "ERROR"}, UNCHANGED <<pipeState, errors, subject, before, ended>>,
           Moved(state, state', Frame.el), state'[Frame.el] \in {state[Frame.el], Frame.to},
           ~dirty' => /\ ~dirty
                      /\ ret' = "OK" \/ NoUndoBelow(stack)
                      /\ Brought(Frame.el, Cur(Frame, state, pipeState), Frame.to, state', ended, ret')
    PROVE  UndoInv'
<1>1. /\ Stacked(stack) /\ stack # <<>> /\ Frame = stack[1] /\ Shaped(stack, subject)
      /\ subject \in Loose \cup {None} /\ ended \subseteq Sources /\ before \in States
  BY UndoTop
<1>2. ASSUME ~dirty' PROVE Clean(stack', state', ended, pipeState, ret', subject, before)
  <2>1. Clean(stack, state, ended, pipeState, ret, subject, before)
    BY <1>2, UndoTop
  <2> DEFINE r == ret'
             w == state'
  <2>2. /\ r \in {"OK", "ERROR"} /\ (r = "OK" \/ NoUndoBelow(stack))
        /\ Moved(state, w, stack[1].el) /\ w[stack[1].el] \in {state[stack[1].el], stack[1].to}
        /\ Brought(stack[1].el, Cur(stack[1], state, pipeState), stack[1].to, w, ended, r)
        /\ stack[1].fn = "element"
    BY <1>1, <1>2
  <2> HIDE DEF r, w
  <2>3. Clean(Tail(stack), w, ended, pipeState, r, subject, before)
    BY <1>1, <2>1, <2>2, ElementBack
  <2> QED BY <2>3 DEF r, w
<1> QED BY <1>1, <1>2, UndoReturns

LEMMA MovedNot == Moved(state, state, Frame.el)
BY DEF Moved

LEMMA BroughtBack ==
    ASSUME NEW x, NEW old \in States, NEW to, NEW st, NEW en, NEW rt, rt # "OK", Unit(st, en, x, old)
    PROVE  Brought(x, old, to, st, en, rt)
<1>1. old <= old
  BY DEF States, NULL, PLAYING
<1> QED BY <1>1 DEF Brought

LEMMA UndoElementEnters ==
    ASSUME ChangeInv, UndoInv, ElementEnter PROVE UndoInv'
<1>1. /\ ~Idle /\ Frame.fn = "element" /\ Frame.pc = "enter"
      /\ UNCHANGED <<pipeState, state, errors, subject, before, dirty, ended>>
  BY DEF ElementEnter, At, histories
<1>2. Frame \in FrameType /\ Placed(Frame) /\ dirty \in BOOLEAN
  BY <1>1, UndoTop
<1> DEFINE cur == state[Frame.el]
           via == Via(cur, Frame.to)
<1>3. /\ Frame.el \in All /\ Frame.to \in States /\ cur \in States
  BY <1>1, <1>2, ElementTop
<1>4. Cur(Frame, state, pipeState) = cur
  BY <1>1 DEF Cur
<1>5. ASSUME ~dirty PROVE Unit(state, ended, Frame.el, cur)
  <2>1. \A c \in Kids(Frame.el) : Is(state, ended, c, cur)
    BY <1>1, <1>5, UndoTop DEF Topped, ElementTopped
  <2> QED BY <2>1 DEF Unit, Is
<1>6. \/ cur = Frame.to /\ Return("OK")
      \/ /\ cur # Frame.to /\ via = Frame.to
         /\ Goto([Frame EXCEPT !.from = cur, !.pc = "hook"]) /\ UNCHANGED ret
      \/ /\ cur # Frame.to /\ via # Frame.to
         /\ Call([Frame EXCEPT !.from = cur, !.pc = "first"], ElementFrame(Frame.el, via))
         /\ UNCHANGED ret
  BY DEF ElementEnter
<1>7. cur # Frame.to => via = Toward(cur, Frame.to) /\ via \in States
  BY <1>3, OneStep
<1> HIDE DEF cur, via
<1>8. CASE cur = Frame.to /\ Return("OK")
  <2>1. stack' = Tail(stack) /\ ret' = "OK"
    BY <1>8 DEF Return
  <2>2. ~dirty => Brought(Frame.el, cur, Frame.to, state, ended, ret')
    BY <1>5, <1>8, <2>1 DEF Brought
  <2> QED BY <1>1, <1>2, <1>4, <2>1, <2>2, MovedNot, UndoElementReturns
<1>9. CASE /\ cur # Frame.to /\ via = Frame.to
           /\ Goto([Frame EXCEPT !.from = cur, !.pc = "hook"]) /\ UNCHANGED ret
  <2> DEFINE a == [Frame EXCEPT !.from = cur, !.pc = "hook"]
  <2>1. /\ a \in FrameType /\ a.fn = "element" /\ a.el = Frame.el /\ a.to = Frame.to
        /\ a.from = cur /\ a.pc = "hook"
    BY <1>1, <1>2, <1>3 DEF FrameType
  <2>2. Goto(a)
    BY <1>9
  <2> HIDE DEF a
  <2>3. /\ SameCall(a, Frame) /\ Placed(a) /\ ~Walks(Frame) /\ ~Undoes(a)
        /\ a.pc \notin CallingPc \cup {"walked", "bin"}
    BY <1>1, <1>3, <2>1 DEF SameCall, Placed, Walks, Undoes, CallingPc
  <2>4. Fits(a)
    BY <1>7, <1>9, <2>1 DEF Fits, Mid, CallingPc, Undoes
  <2>5. Cur(a, state, pipeState) = cur
    BY <2>1 DEF Cur
  <2>6. ~dirty => Topped(a, state, ended, pipeState, ret)
    BY <1>5, <2>1 DEF Topped, ElementTopped
  <2> QED BY <1>1, <1>4, <1>9, <2>1, <2>2, <2>3, <2>4, <2>5, <2>6, UndoGoes
<1>10. CASE /\ cur # Frame.to /\ via # Frame.to
            /\ Call([Frame EXCEPT !.from = cur, !.pc = "first"], ElementFrame(Frame.el, via))
            /\ UNCHANGED ret
  <2> DEFINE a == [Frame EXCEPT !.from = cur, !.pc = "first"]
  <2>1. /\ a \in FrameType /\ a.fn = "element" /\ a.el = Frame.el /\ a.to = Frame.to
        /\ a.from = cur /\ a.pc = "first"
    BY <1>1, <1>2, <1>3 DEF FrameType
  <2>2. Call(a, ElementFrame(Frame.el, via))
    BY <1>10
  <2> HIDE DEF a
  <2>3. SameCall(a, Frame) /\ ~Undoes(a) /\ a.pc \in CallingPc
    BY <1>1, <2>1 DEF SameCall, Undoes, CallingPc
  <2>4. Fits(a) /\ via = Goal(a) /\ Begin(a) = cur
    BY <1>7, <1>10, <2>1 DEF Fits, Mid, CallingPc, WalkingPc, Undoes, Goal, Begin
  <2> QED BY <1>1, <1>3, <1>4, <1>5, <1>7, <1>10, <2>1, <2>2, <2>3, <2>4, UndoSelfCalls
<1> QED BY <1>6, <1>8, <1>9, <1>10

LEMMA UndoElementSteps ==
    ASSUME ChangeInv, UndoInv, ElementFirst \/ ElementSecond \/ ElementUndone PROVE UndoInv'
<1>1. /\ ~Idle /\ Frame.fn = "element" /\ Frame.pc \in CallingPc
      /\ UNCHANGED <<pipeState, state, errors, subject, before, dirty, ended>>
  BY DEF ElementFirst, ElementSecond, ElementUndone, At, CallingPc, histories
<1>2. /\ Frame \in FrameType /\ Placed(Frame) /\ dirty \in BOOLEAN /\ Fits(Frame)
      /\ ret \in {"OK", "ERROR"}
  BY <1>1, UndoTop
<1>3. /\ Frame.el \in All /\ Frame.to \in States /\ Frame.from \in States
  BY <1>1, ElementTop
<1>4. /\ Mid(Frame) \in States /\ Mid(Frame) # Frame.to /\ Frame.from # Frame.to
      /\ Frame.to < Frame.from => Mid(Frame) < Frame.from
  BY <1>1, <1>2, FrameSteps
<1>5. Cur(Frame, state, pipeState) = Frame.from
  BY <1>1 DEF Cur, CallingPc
<1>6. ASSUME ~dirty
      PROVE  /\ ElementTopped(Frame, state, ended, ret)
             /\ Frame.pc = "undo" => NoUndoBelow(stack)
             /\ Frame.pc \in {"first", "second"} /\ ret # "OK" => NoUndoBelow(stack)
  BY <1>1, <1>6, UndoTop DEF Topped, Undoes
<1>7. CASE ElementUndone
  <2>1. stack' = Tail(stack) /\ ret' = Frame.r /\ Frame.pc = "undo"
    BY <1>7 DEF ElementUndone, Return, At
  <2>2. Frame.r = "ERROR"
    BY <1>2, <2>1 DEF Fits, Undoes
  <2>3. ~dirty => Brought(Frame.el, Frame.from, Frame.to, state, ended, "ERROR")
    <3>1. ~dirty => Unit(state, ended, Frame.el, Frame.from)
      BY <1>6, <2>1 DEF ElementTopped
    <3> QED BY <1>3, <3>1, BroughtBack
  <2> QED BY <1>1, <1>2, <1>5, <1>6, <2>1, <2>2, <2>3, MovedNot, UndoElementReturns
<1>8. CASE ElementFirst /\ ret # "OK"
  <2>1. stack' = Tail(stack) /\ ret' = "ERROR" /\ Frame.pc = "first"
    BY <1>2, <1>8 DEF ElementFirst, Return, At
  <2>2. ~dirty => Brought(Frame.el, Frame.from, Frame.to, state, ended, "ERROR")
    <3>1. ~dirty => Unit(state, ended, Frame.el, Frame.from)
      BY <1>6, <1>8, <2>1 DEF ElementTopped
    <3> QED BY <1>3, <3>1, BroughtBack
  <2> QED BY <1>1, <1>2, <1>5, <1>6, <1>8, <2>1, <2>2, MovedNot, UndoElementReturns
<1>9. CASE ElementSecond /\ ret = "OK"
  <2>1. stack' = Tail(stack) /\ ret' = "OK" /\ Frame.pc = "second"
    BY <1>9 DEF ElementSecond, Return, At
  <2>2. ~dirty => Brought(Frame.el, Frame.from, Frame.to, state, ended, "OK")
    BY <1>6, <1>9, <2>1 DEF ElementTopped, Brought
  <2> QED BY <1>1, <1>2, <1>5, <2>1, <2>2, MovedNot, UndoElementReturns
<1>10. CASE ElementSecond /\ ret # "OK" /\ Frame.to < Frame.from
  <2>1. stack' = Tail(stack) /\ ret' = "ERROR" /\ Frame.pc = "second"
    BY <1>2, <1>10 DEF ElementSecond, Return, At
  <2>2. ASSUME ~dirty PROVE Brought(Frame.el, Frame.from, Frame.to, state, ended, "ERROR")
    <3>1. PICK u \in States : u <= Mid(Frame) /\ Unit(state, ended, Frame.el, u)
      BY <1>6, <1>10, <2>1, <2>2 DEF ElementTopped
    <3>2. u <= Frame.from /\ ~(Frame.from < Frame.to)
      BY <1>3, <1>4, <1>10, <3>1 DEF States, NULL, PLAYING
    <3>3. Toward(Frame.from, Frame.to) # Frame.to
      BY <1>4 DEF Mid
    <3> QED BY <3>1, <3>2, <3>3 DEF Brought
  <2> QED BY <1>1, <1>2, <1>5, <1>6, <1>10, <2>1, <2>2, MovedNot, UndoElementReturns
<1>11. CASE ElementFirst /\ ret = "OK"
  <2> DEFINE a == [Frame EXCEPT !.pc = "second"]
  <2>1. Call(a, ElementFrame(Frame.el, Frame.to)) /\ UNCHANGED ret /\ Frame.pc = "first"
    BY <1>11 DEF ElementFirst, At
  <2>2. /\ a \in FrameType /\ a.fn = "element" /\ a.el = Frame.el /\ a.to = Frame.to
        /\ a.from = Frame.from /\ a.pc = "second"
    BY <1>1, <1>2 DEF FrameType
  <2> HIDE DEF a
  <2>3. Frame.to = Goal(a) /\ SameCall(a, Frame) /\ a.pc \in CallingPc /\ ~Undoes(a) /\ Mid(a) = Mid(Frame)
    BY <1>1, <2>2 DEF Goal, Mid, SameCall, CallingPc, Undoes
  <2>4. Fits(a)
    BY <1>2, <2>1, <2>2, <2>3 DEF Fits, CallingPc, WalkingPc
  <2>5. ~dirty => Unit(state, ended, Frame.el, Begin(a))
    BY <1>6, <1>11, <2>1, <2>2, <2>3 DEF ElementTopped, Begin
  <2> QED BY <1>1, <1>3, <1>5, <2>1, <2>2, <2>3, <2>4, <2>5, UndoSelfCalls
<1>12. CASE ElementSecond /\ ret # "OK" /\ ~(Frame.to < Frame.from)
  <2> DEFINE a == [Frame EXCEPT !.pc = "undo", !.r = ret]
  <2>1. Call(a, ElementFrame(Frame.el, Frame.from)) /\ UNCHANGED ret /\ Frame.pc = "second" /\ ret = "ERROR"
    BY <1>2, <1>12 DEF ElementSecond, At
  <2>2. /\ a \in FrameType /\ a.fn = "element" /\ a.el = Frame.el /\ a.to = Frame.to
        /\ a.from = Frame.from /\ a.pc = "undo" /\ a.r = "ERROR"
    BY <1>1, <1>2, <2>1 DEF FrameType
  <2> HIDE DEF a
  <2>3. Frame.from = Goal(a) /\ SameCall(a, Frame) /\ a.pc \in CallingPc /\ Mid(a) = Mid(Frame)
    BY <1>1, <2>2 DEF Goal, Mid, SameCall, CallingPc, Undoes
  <2>4. Frame.from < Frame.to
    BY <1>3, <1>4, <1>12 DEF States, NULL, PLAYING
  <2>5. Fits(a)
    BY <1>2, <2>1, <2>2, <2>3, <2>4 DEF Fits, CallingPc, WalkingPc
  <2>6. ~dirty => Unit(state, ended, Frame.el, Begin(a)) /\ NoUndoBelow(stack)
    BY <1>6, <1>12, <2>1, <2>2, <2>3, <2>4 DEF ElementTopped, Begin
  <2> QED BY <1>1, <1>3, <1>5, <2>1, <2>2, <2>3, <2>5, <2>6, UndoSelfCalls
<1> QED BY <1>7, <1>8, <1>9, <1>10, <1>11, <1>12

LEMMA UndoHook ==
    ASSUME ChangeInv, UndoInv, ElementHook PROVE UndoInv'
<1>1. /\ ~Idle /\ Frame.fn = "element" /\ Frame.pc = "hook" /\ Frame.el \in Leafs
      /\ UNCHANGED <<pipeState, state, errors, subject, before, ended>>
  BY DEF ElementHook, At
<1>2. /\ Frame \in FrameType /\ Placed(Frame) /\ dirty \in BOOLEAN /\ Fits(Frame)
      /\ Stacked(stack) /\ Len(stack) \in Nat \ {0}
  BY <1>1, UndoTop
<1>3. /\ Frame.el \in All /\ Frame.to \in States /\ Frame.from \in States
  BY <1>1, ElementTop
<1>4. Cur(Frame, state, pipeState) = Frame.from
  BY <1>1 DEF Cur
<1>5. ~dirty => Unit(state, ended, Frame.el, Frame.from)
  BY <1>1, UndoTop DEF Topped, ElementTopped
<1>6. CASE Goto([Frame EXCEPT !.pc = "store"]) /\ UNCHANGED <<ret, failures, dirty>>
  <2> DEFINE a == [Frame EXCEPT !.pc = "store"]
  <2>1. /\ a \in FrameType /\ a.fn = "element" /\ a.el = Frame.el /\ a.to = Frame.to
        /\ a.from = Frame.from /\ a.pc = "store"
    BY <1>1, <1>2 DEF FrameType
  <2>2. Goto(a)
    BY <1>6
  <2> HIDE DEF a
  <2>3. /\ SameCall(a, Frame) /\ Placed(a) /\ ~Walks(Frame) /\ ~Undoes(a)
        /\ a.pc \notin CallingPc \cup {"walked", "bin"} /\ Mid(a) = Mid(Frame)
    BY <1>1, <1>3, <2>1 DEF SameCall, Placed, Walks, Undoes, CallingPc, Mid
  <2>4. Fits(a)
    BY <1>1, <1>2, <2>1, <2>3 DEF Fits, CallingPc
  <2>5. Cur(a, state, pipeState) = Frame.from
    BY <2>1 DEF Cur
  <2>6. Kids(Frame.el) = {}
    BY <1>1 DEF Kids, Leafs
  <2>7. ~dirty => Topped(a, state, ended, pipeState, ret)
    BY <1>5, <2>1, <2>6 DEF Topped, ElementTopped, Unit
  <2> QED BY <1>1, <1>4, <1>6, <2>1, <2>2, <2>3, <2>4, <2>5, <2>7, UndoGoes
<1>7. CASE dirty' = (dirty \/ Undoing) /\ Return("ERROR")
  <2>1. stack' = Tail(stack) /\ ret' = "ERROR"
    BY <1>7 DEF Return
  <2>2. DOMAIN stack = 1 .. Len(stack)
    BY <1>2, LenProperties DEF Stacked
  <2>3. ~Undoing => NoUndoBelow(stack)
    BY <1>2, <2>2 DEF Undoing, NoUndoBelow, Undoes
  <2>4. ~dirty => Brought(Frame.el, Frame.from, Frame.to, state, ended, "ERROR")
    BY <1>3, <1>5, BroughtBack
  <2> QED BY <1>1, <1>4, <1>7, <2>1, <2>3, <2>4, MovedNot, UndoElementReturns
<1> QED BY <1>6, <1>7 DEF ElementHook

LEMMA UndoStore ==
    ASSUME ChangeInv, UndoInv, ElementStore PROVE UndoInv'
<1>1. /\ ~Idle /\ Frame.fn = "element" /\ Frame.pc = "store" /\ stack' = Tail(stack) /\ ret' = "OK"
      /\ state' = [state EXCEPT ![Frame.el] = Frame.to]
      /\ UNCHANGED <<pipeState, errors, subject, before, dirty, ended>>
  BY DEF ElementStore, At, Return, histories
<1>2. state \in [All -> States] /\ Frame.el \in All
  BY <1>1, ElementTop
<1>3. state'[Frame.el] = Frame.to /\ Moved(state, state', Frame.el)
  BY <1>1, <1>2 DEF Moved
<1>4. ASSUME ~dirty PROVE Unit(state', ended, Frame.el, Frame.to)
  <2>1. \A c \in Kids(Frame.el) : Is(state, ended, c, Frame.to)
    BY <1>1, <1>4, UndoTop DEF Topped, ElementTopped
  <2>2. \A c \in Kids(Frame.el) : c \in All /\ c # Frame.el
    BY Family
  <2> QED BY <1>3, <2>1, <2>2 DEF Unit, Is, Moved
<1>5. ~dirty => Brought(Frame.el, Cur(Frame, state, pipeState), Frame.to, state', ended, "OK")
  BY <1>4 DEF Brought
<1> QED BY <1>1, <1>3, <1>5, UndoElementReturns

\* bin_change_state

LEMMA BinOver ==
    ASSUME NEW f \in FrameType, Placed(f), Fits(f), f.pc \in WaitingPc,
           NEW g, g.fn = "element", g.el \in Bins, Over(g, f), NEW c, c.fn = "bin", c.el = g.el
    PROVE  Over(c, f)
<1>1. \A x : g.el \notin Kids(x)
  BY Family
<1>2. f.fn # "bin"
  <2> SUFFICES ASSUME f.fn = "bin" PROVE FALSE
    OBVIOUS
  <2>1. f.pc \in {"walked", "rollback"}
    BY DEF Placed, WaitingPc, WalkingPc, CallingPc
  <2>2. g.el = Flux(f) /\ (f.pc = "rollback" => f.i >= 2)
    BY DEF Over
  <2>3. Flux(f) \in Kids(f.el)
    BY <2>1, <2>2, FluxIs
  <2> QED BY <1>1, <2>2, <2>3
<1> QED BY <1>1, <1>2 DEF Over

LEMMA KidOver ==
    ASSUME NEW f \in FrameType, Placed(f), Fits(f), f.pc \in WaitingPc,
           NEW h, h.fn = "bin", Over(h, f), NEW c, c.fn = "element", c.el \in Kids(h.el)
    PROVE  Over(c, f) /\ \A st, en, ps : Direct(c, f, st, en, ps)
<1>1. Over(c, f)
  BY DEF Over
<1>2. Walks(f) => c.el # Flux(f)
  <2> SUFFICES ASSUME Walks(f) PROVE c.el # Flux(f)
    OBVIOUS
  <2>1. f.fn = "pipeline" /\ f.pc \in {"walked", "rollback"}
    BY DEF Walks, WaitingPc, WalkingPc, CallingPc
  <2>2. Flux(f) \in ToSet(Elements)
    BY <2>1, FluxIs
  <2> QED BY <2>2, Family
<1> QED BY <1>1, <1>2 DEF Direct

LEMMA BinsGoOn == ASSUME NEW en, en \subseteq Sources, NEW b \in Bins PROVE b \notin en
BY Family

LEMMA UndoBinCalled ==
    ASSUME ChangeInv, UndoInv, ElementBin PROVE UndoInv'
<1> DEFINE x == Frame.el
           a == [Frame EXCEPT !.pc = "bin"]
           c == BinFrame(x, Frame.from, Frame.to)
<1>1. /\ ~Idle /\ Frame.fn = "element" /\ Frame.pc = "hook" /\ x \in Bins /\ Call(a, c)
      /\ UNCHANGED <<ret, pipeState, state, errors, subject, before, dirty, ended>>
  BY DEF ElementBin, At, histories
<1>2. /\ Frame \in FrameType /\ Fits(Frame) /\ ended \subseteq Sources
      /\ Frame.to \in States /\ Frame.from \in States /\ x \in All
  BY <1>1, UndoTop, ElementTop
<1>3. /\ a \in FrameType /\ a.fn = "element" /\ a.el = x /\ a.to = Frame.to
      /\ a.from = Frame.from /\ a.pc = "bin"
  BY <1>1, <1>2 DEF FrameType
<1>4. c \in FrameType /\ Placed(c)
  <2> HIDE DEF x
  <2> QED BY <1>1, <1>2, NewFrames
<1>5. /\ c.fn = "bin" /\ c.el = x /\ c.to = Frame.to /\ c.from = Frame.from /\ c.pc = "walk" /\ c.i = 1
  BY NewFields
<1>6. x = Frame.el
  OBVIOUS
<1> HIDE DEF a, c, x
<1>7. SameCall(a, Frame) /\ Placed(a) /\ a.pc \in WaitingPc
  BY <1>1, <1>2, <1>3, <1>6 DEF SameCall, Placed, WaitingPc
<1>8. ~Walks(a) /\ ~Walks(c) /\ ~Walks(Frame)
  BY <1>1, <1>3, <1>5 DEF Walks
<1>9. Mid(a) = Mid(Frame) /\ Mid(c) = Mid(Frame) /\ ~Undoes(a) /\ ~Undoes(c) /\ Goal(a) = c.to /\ Begin(a) = c.from
  BY <1>3, <1>5 DEF Mid, Undoes, Goal, Begin
<1>10. Fits(a)
  BY <1>1, <1>2, <1>3, <1>9 DEF Fits, CallingPc
<1>11. Fits(c)
  <2>1. 1 \in 1 .. Len(Children[x]) + 1
    BY <1>1, SequencesGiven
  <2>2. Frame.from # Frame.to /\ Mid(Frame) = Frame.to
    BY <1>1, <1>2 DEF Fits
  <2> QED BY <1>5, <1>9, <2>1, <2>2 DEF Fits, CallingPc
<1>12. Over(c, a) /\ Asked(c, a)
  BY <1>3, <1>5, <1>8, <1>9 DEF Over, Asked, CallingPc
<1>13. ASSUME NEW k \in 2 .. Len(stack) PROVE Over(c, stack[k])
  <2>1. /\ stack[k] \in FrameType /\ Fits(stack[k]) /\ Placed(stack[k])
        /\ stack[k].pc \in WaitingPc /\ Over(Frame, stack[k])
    BY <1>1, BelowElement
  <2> QED BY <1>1, <1>5, <1>6, <2>1, BinOver
<1>14. \A f : Direct(c, f, state, ended, pipeState)
  BY <1>5 DEF Direct
<1>15. ASSUME ~dirty
       PROVE  /\ Cur(a, state, pipeState) = Cur(Frame, state, pipeState)
              /\ Lowered(a, state, ended, pipeState)
              /\ Topped(c, state, ended, pipeState, ret)
              /\ Begun(c, a, state, ended, pipeState)
  <2>1. Unit(state, ended, x, Frame.from)
    BY <1>1, <1>6, <1>15, UndoTop DEF Topped, ElementTopped
  <2>2. state[x] = Frame.from
    BY <1>1, <1>2, <2>1, BinsGoOn DEF Unit, Is
  <2>3. \A k \in DOMAIN Children[x] : Place(c, k, ret) = c.from
    <3>1. \A k \in DOMAIN Children[x] : ~(k < 1)
      BY <1>1, SequencesGiven
    <3> QED BY <1>5, <3>1 DEF Place
  <2>4. \A k \in DOMAIN Children[x] : Is(state, ended, Children[x][k], Frame.from)
    BY <1>1, <2>1, KidsWalk DEF Unit
  <2>5. Topped(c, state, ended, pipeState, ret)
    BY <1>5, <2>2, <2>3, <2>4 DEF Topped, BinLeft
  <2>6. Lowered(a, state, ended, pipeState)
    BY <1>3, <1>8, <2>1 DEF Lowered, Unit
  <2> QED BY <1>1, <1>3, <1>5, <1>9, <2>5, <2>6 DEF Begun, Cur
<1> QED BY <1>1, <1>3, <1>4, <1>5, <1>7, <1>8, <1>9, <1>10, <1>11, <1>12, <1>13, <1>14, <1>15, UndoGrows

LEMMA UndoBinDone ==
    ASSUME ChangeInv, UndoInv, ElementBinDone PROVE UndoInv'
<1>1. /\ ~Idle /\ Frame.fn = "element" /\ Frame.pc = "bin"
      /\ UNCHANGED <<pipeState, state, errors, subject, before, dirty, ended>>
  BY DEF ElementBinDone, At, histories
<1>2. /\ Frame \in FrameType /\ Placed(Frame) /\ dirty \in BOOLEAN /\ Fits(Frame)
      /\ ret \in {"OK", "ERROR"}
  BY <1>1, UndoTop
<1>3. /\ Frame.el \in All /\ Frame.to \in States /\ Frame.from \in States
  BY <1>1, ElementTop
<1>4. Cur(Frame, state, pipeState) = Frame.from
  BY <1>1 DEF Cur
<1>5. ASSUME ~dirty
      PROVE  /\ Is(state, ended, Frame.el, Frame.from)
             /\ \A c \in Kids(Frame.el) : Is(state, ended, c, IF ret = "OK" THEN Frame.to ELSE Frame.from)
             /\ ret # "OK" => NoUndoBelow(stack)
  BY <1>1, <1>5, UndoTop DEF Topped, ElementTopped
<1>6. CASE ret = "OK"
  <2> DEFINE a == [Frame EXCEPT !.pc = "store"]
  <2>1. /\ a \in FrameType /\ a.fn = "element" /\ a.el = Frame.el /\ a.to = Frame.to
        /\ a.from = Frame.from /\ a.pc = "store"
    BY <1>1, <1>2 DEF FrameType
  <2>2. Goto(a) /\ UNCHANGED ret
    BY <1>6 DEF ElementBinDone
  <2> HIDE DEF a
  <2>3. /\ SameCall(a, Frame) /\ Placed(a) /\ ~Walks(Frame) /\ ~Undoes(a)
        /\ a.pc \notin CallingPc \cup {"walked", "bin"} /\ Mid(a) = Mid(Frame)
    BY <1>1, <1>3, <2>1 DEF SameCall, Placed, Walks, Undoes, CallingPc, Mid
  <2>4. Fits(a)
    BY <1>1, <1>2, <2>1, <2>3 DEF Fits, CallingPc
  <2>5. Cur(a, state, pipeState) = Frame.from
    BY <2>1 DEF Cur
  <2>6. ~dirty => Topped(a, state, ended, pipeState, ret)
    BY <1>5, <1>6, <2>1 DEF Topped, ElementTopped
  <2> QED BY <1>1, <1>4, <2>1, <2>2, <2>3, <2>4, <2>5, <2>6, UndoGoes
<1>7. CASE ret # "OK"
  <2>1. stack' = Tail(stack) /\ ret' = "ERROR" /\ ret = "ERROR"
    BY <1>2, <1>7 DEF ElementBinDone, Return
  <2>2. ~dirty => Brought(Frame.el, Frame.from, Frame.to, state, ended, "ERROR")
    <3>1. ~dirty => Unit(state, ended, Frame.el, Frame.from)
      BY <1>5, <1>7 DEF Unit
    <3> QED BY <1>3, <3>1, BroughtBack
  <2> QED BY <1>1, <1>4, <1>5, <1>7, <2>1, <2>2, MovedNot, UndoElementReturns
<1> QED BY <1>6, <1>7

LEMMA UndoBinAsks ==
    ASSUME ChangeInv, UndoInv, ~Idle, Frame.fn = "bin",
           NEW a \in FrameType, SameCall(a, Frame), a.from = Frame.from, a.pc \in {"walked", "rollback"},
           a.pc = "rollback" => a.i >= 2,
           Placed(a), Fits(a), FluxAt(a) = Frame.i, Undoes(a) => Undoes(Frame),
           Call(a, ElementFrame(Flux(a), Goal(a))),
           UNCHANGED <<ret, pipeState, state, errors, subject, before, dirty, ended>>,
           Place(Frame, Frame.i, ret) = Begin(a),
           \A k \in DOMAIN Children[Frame.el] \ {Frame.i} : Place(a, k, "OK") = Place(Frame, k, ret)
    PROVE  UndoInv'
<1> DEFINE x == Flux(a)
           v == Goal(a)
           c == ElementFrame(x, v)
<1>1. a.fn = "bin" /\ a.to = Frame.to /\ a.el = Frame.el /\ ~Walks(a) /\ ~Walks(Frame)
  BY DEF SameCall, Walks
<1>2. x \in Kids(Frame.el) /\ x = Children[Frame.el][Frame.i] /\ Frame.i \in DOMAIN Children[Frame.el]
  BY <1>1, FluxIs
<1>3. v \in States /\ x \in All /\ Kids(x) = {}
  BY <1>1, <1>2, Fields, Family DEF Goal, Undoes
<1>5. Call(a, c)
  OBVIOUS
<1> HIDE DEF x, v
<1>4. c \in FrameType /\ Placed(c) /\ c.fn = "element" /\ c.pc = "enter" /\ c.to = v /\ c.el = x
  <2>1. c \in FrameType /\ Placed(c)
    BY <1>3, NewFrames
  <2>2. c.fn = "element" /\ c.pc = "enter" /\ c.to = v /\ c.el = x
    BY DEF ElementFrame, PipelineFrame
  <2> QED BY <2>1, <2>2
<1> HIDE DEF c
<1>6. ASSUME NEW k \in 2 .. Len(stack)
      PROVE  Over(c, stack[k]) /\ Direct(c, stack[k], state, ended, pipeState)
  <2>1. /\ stack[k] \in FrameType /\ Fits(stack[k]) /\ Placed(stack[k])
        /\ stack[k].pc \in WaitingPc /\ Over(Frame, stack[k])
    BY BelowElement
  <2>2. c.fn = "element" /\ c.el \in Kids(Frame.el)
    BY <1>2, <1>4
  <2> QED BY <2>1, <2>2, KidOver
<1>8. ~Walks(c) /\ a.pc \in WaitingPc /\ a.pc # "undo" /\ a.pc \notin CallingPc
  BY <1>4 DEF Walks, WaitingPc, CallingPc
<1>9. Fits(c)
  BY <1>4 DEF Fits, WalkingPc, CallingPc, Undoes
<1>10. Over(c, a) /\ Asked(c, a)
  BY <1>1, <1>4, <1>8 DEF Over, Asked, x, v
<1>11. Cur(a, state, pipeState) = Cur(Frame, state, pipeState)
  <2>1. Frame.pc # "enter"
    BY UndoTop DEF Placed, WalkingPc
  <2> QED BY <2>1 DEF Cur
<1>12. ASSUME ~dirty
       PROVE  /\ Lowered(a, state, ended, pipeState) /\ (Undoes(a) => NoUndoBelow(stack))
              /\ Topped(c, state, ended, pipeState, ret)
              /\ Begun(c, a, state, ended, pipeState) /\ Direct(c, a, state, ended, pipeState)
  <2>1. BinLeft(Frame, state, ended, ret, {}) /\ (Undoes(Frame) => NoUndoBelow(stack))
    BY <1>1, <1>12, UndoTop DEF Topped
  <2> DEFINE b == Begin(a)
  <2>2. Is(state, ended, x, b)
    BY <1>2, <2>1 DEF BinLeft
  <2>3. BinLeft(a, state, ended, "OK", {FluxAt(a)})
    BY <1>1, <2>1 DEF BinLeft
  <2>4. Lowered(a, state, ended, pipeState)
    BY <1>1, <2>3 DEF Lowered
  <2>5. Direct(c, a, state, ended, pipeState)
    BY <1>1 DEF Direct
  <2> HIDE DEF b
  <2>6. Topped(c, state, ended, pipeState, ret)
    BY <1>3, <1>4 DEF Topped, ElementTopped
  <2>7. Begun(c, a, state, ended, pipeState)
    BY <1>4, <2>2 DEF Is, Begun, Cur, b
  <2> QED BY <2>1, <2>4, <2>5, <2>6, <2>7
<1> QED BY <1>1, <1>4, <1>5, <1>6, <1>8, <1>9, <1>10, <1>11, <1>12, UndoGrows

\* The top frame of a bin
LEMMA BinTop ==
    ASSUME ChangeInv, UndoInv, ~Idle, Frame.fn = "bin"
    PROVE  /\ Frame \in FrameType /\ Fits(Frame) /\ Placed(Frame) /\ ret \in {"OK", "ERROR"}
           /\ Frame.el \in Bins /\ Frame.i \in Nat /\ Frame.lim \in Nat /\ Frame.r \in {"OK", "ERROR"}
           /\ Frame.to \in States /\ Frame.from \in States
           /\ DOMAIN Children[Frame.el] = 1 .. Len(Children[Frame.el])
           /\ Len(Children[Frame.el]) \in Nat /\ ~Walks(Frame) /\ dirty \in BOOLEAN
<1>1. Frame \in FrameType /\ Fits(Frame) /\ Placed(Frame) /\ ret \in {"OK", "ERROR"} /\ dirty \in BOOLEAN
  BY UndoTop
<1>2. Frame.el \in Bins /\ ~Walks(Frame)
  BY <1>1 DEF Placed, Walks
<1>3. /\ Frame.i \in Nat /\ Frame.lim \in Nat /\ Frame.r \in {"OK", "ERROR"}
      /\ Frame.to \in States /\ Frame.from \in States
  BY <1>1, Fields
<1> QED BY <1>1, <1>2, <1>3, SequencesGiven

LEMMA UndoBinReturns ==
    ASSUME ChangeInv, UndoInv, ~Idle, Frame.fn = "bin", stack' = Tail(stack),
           ret' \in {"OK", "ERROR"}, UNCHANGED <<pipeState, state, subject, before, dirty, ended>>,
           errors => errors',
           ~dirty => /\ ret' = "OK" \/ NoUndoBelow(stack)
                     /\ \A k \in DOMAIN Children[Frame.el] :
                           Place(Frame, k, ret) = IF ret' = "OK" THEN Frame.to ELSE Frame.from
    PROVE  UndoInv'
<1>1. /\ Stacked(stack) /\ stack # <<>> /\ Frame = stack[1] /\ Shaped(stack, subject)
      /\ subject \in Loose \cup {None} /\ dirty \in BOOLEAN
  BY UndoTop
<1>2. ASSUME ~dirty PROVE Clean(stack', state, ended, pipeState, ret', subject, before)
  <2>1. /\ Clean(stack, state, ended, pipeState, ret, subject, before)
        /\ BinLeft(Frame, state, ended, ret, {})
    BY <1>2, UndoTop DEF Topped
  <2> DEFINE r == ret'
  <2>2. r \in {"OK", "ERROR"} /\ (r = "OK" \/ NoUndoBelow(stack))
    BY <1>2
  <2>3. \A k \in DOMAIN Children[Frame.el] :
           Is(state, ended, Children[Frame.el][k], IF r = "OK" THEN Frame.to ELSE Frame.from)
    BY <1>2, <2>1 DEF BinLeft
  <2> HIDE DEF r
  <2>4. Frame.el \in Bins
    BY BinTop
  <2>5. \A c \in Kids(Frame.el) : Is(state, ended, c, IF r = "OK" THEN Frame.to ELSE Frame.from)
    BY <2>3, <2>4, KidsWalk
  <2>6. Clean(Tail(stack), state, ended, pipeState, r, subject, before)
    BY <1>1, <2>1, <2>2, <2>5, BinBack
  <2> QED BY <2>6 DEF r
<1> QED BY <1>1, <1>2, UndoReturns

LEMMA UndoBinWalks ==
    ASSUME ChangeInv, UndoInv, BinWalk PROVE UndoInv'
<1>1. /\ ~Idle /\ Frame.fn = "bin" /\ Frame.pc = "walk"
      /\ UNCHANGED <<pipeState, state, errors, subject, before, dirty, ended>>
  BY DEF BinWalk, At, histories
<1>2. /\ Frame \in FrameType /\ Fits(Frame) /\ Frame.el \in Bins /\ Frame.i \in Nat
      /\ DOMAIN Children[Frame.el] = 1 .. Len(Children[Frame.el]) /\ Len(Children[Frame.el]) \in Nat
      /\ dirty \in BOOLEAN
  BY <1>1, BinTop
<1>3. CASE Frame.i \in DOMAIN Children[Frame.el]
  <2> DEFINE a == [Frame EXCEPT !.pc = "walked"]
  <2>1. /\ a \in FrameType /\ a.fn = "bin" /\ a.el = Frame.el /\ a.to = Frame.to
        /\ a.from = Frame.from /\ a.pc = "walked" /\ a.i = Frame.i
    BY <1>1, <1>2 DEF FrameType
  <2>2. Call(a, ElementFrame(Children[Frame.el][Frame.i], Frame.to)) /\ UNCHANGED ret
    BY <1>3 DEF BinWalk
  <2> HIDE DEF a
  <2>3. Goal(a) = Frame.to /\ Flux(a) = Children[Frame.el][Frame.i] /\ FluxAt(a) = Frame.i
        /\ Begin(a) = Frame.from /\ Mid(a) = Mid(Frame) /\ ~Undoes(a)
    BY <2>1 DEF Goal, Flux, FluxAt, Begin, Undoes, Mid
  <2>4. SameCall(a, Frame) /\ Placed(a)
    BY <1>1, <1>2, <1>3, <2>1 DEF SameCall, Placed, WalkingPc
  <2>5. Fits(a)
    BY <1>1, <1>2, <2>1, <2>3 DEF Fits, CallingPc, WalkingPc
  <2>6. /\ Place(Frame, Frame.i, ret) = Frame.from
        /\ \A k \in DOMAIN Children[Frame.el] \ {Frame.i} : Place(a, k, "OK") = Place(Frame, k, ret)
    <3>1. ~(Frame.i < Frame.i)
      BY <1>2
    <3> QED BY <1>1, <2>1, <3>1 DEF Place
  <2> QED BY <1>1, <2>1, <2>2, <2>3, <2>4, <2>5, <2>6, UndoBinAsks
<1>4. CASE Frame.i \notin DOMAIN Children[Frame.el]
  <2>1. stack' = Tail(stack) /\ ret' = "OK"
    BY <1>4 DEF BinWalk, Return
  <2>2. Frame.i \in 1 .. Len(Children[Frame.el]) + 1
    BY <1>1, <1>2 DEF Fits
  <2>3. \A k \in DOMAIN Children[Frame.el] : k < Frame.i
    BY <1>2, <1>4, <2>2
  <2>4. \A k \in DOMAIN Children[Frame.el] : Place(Frame, k, ret) = Frame.to
    BY <1>1, <2>3 DEF Place
  <2> QED BY <1>1, <1>2, <2>1, <2>4, UndoBinReturns
<1> QED BY <1>3, <1>4

LEMMA UndoBinRollsBack ==
    ASSUME ChangeInv, UndoInv, BinRollback PROVE UndoInv'
<1>1. /\ ~Idle /\ Frame.fn = "bin" /\ Frame.pc = "rollback"
      /\ UNCHANGED <<pipeState, state, subject, before, dirty, ended>>
  BY DEF BinRollback, At, histories
<1>2. /\ Frame \in FrameType /\ Fits(Frame) /\ Placed(Frame) /\ Frame.el \in Bins
      /\ Frame.i \in Nat /\ Frame.lim \in Nat
      /\ DOMAIN Children[Frame.el] = 1 .. Len(Children[Frame.el]) /\ Len(Children[Frame.el]) \in Nat
      /\ dirty \in BOOLEAN
  BY <1>1, BinTop
<1>3. /\ Frame.i \in Nat \ {0} /\ Frame.lim \in DOMAIN Children[Frame.el] /\ Frame.i <= Frame.lim
      /\ Frame.r = "ERROR" /\ Undoes(Frame)
  BY <1>1, <1>2 DEF Placed, Fits, Undoes
<1>4. CASE Frame.i < Frame.lim
  <2>0. Frame.i + 1 \in Nat \ {0} /\ Frame.i + 1 >= 2 /\ Frame.i + 1 <= Frame.lim
        /\ (Frame.i + 1) - 1 = Frame.i
    BY <1>2, <1>3, <1>4
  <2> DEFINE a == [Frame EXCEPT !.i = Frame.i + 1]
  <2>1. /\ a \in FrameType /\ a.fn = "bin" /\ a.el = Frame.el /\ a.to = Frame.to /\ a.lim = Frame.lim
        /\ a.from = Frame.from /\ a.pc = "rollback" /\ a.i = Frame.i + 1 /\ a.r = Frame.r
    BY <1>1, <1>2, <2>0, Zenon DEF FrameType
  <2>2. Call(a, ElementFrame(Children[Frame.el][Frame.i], Frame.from)) /\ UNCHANGED <<ret, errors>>
    BY <1>4 DEF BinRollback
  <2> HIDE DEF a
  <2>3. FluxAt(a) = Frame.i
    BY <2>0, <2>1 DEF FluxAt
  <2>4. Goal(a) = Frame.from /\ Flux(a) = Children[Frame.el][Frame.i]
        /\ Begin(a) = Frame.to /\ Mid(a) = Mid(Frame)
    BY <2>1, <2>3 DEF Goal, Flux, Begin, Undoes, Mid
  <2>5. SameCall(a, Frame) /\ Placed(a)
    BY <1>1, <1>2, <1>3, <2>0, <2>1 DEF SameCall, Placed, WalkingPc
  <2>6. Fits(a)
    BY <1>1, <1>2, <2>0, <2>1, <2>4 DEF Fits, CallingPc, WalkingPc, Undoes
  <2>7. Place(Frame, Frame.i, ret) = Frame.to
    <3>1. Frame.i <= Frame.i
      BY <1>2
    <3> QED BY <1>1, <1>4, <3>1 DEF Place
  <2>8. ASSUME NEW k \in DOMAIN Children[Frame.el] \ {Frame.i}
        PROVE  Place(a, k, "OK") = Place(Frame, k, ret)
    <3>1. Frame.i + 1 <= k <=> Frame.i <= k
      BY <1>2
    <3> QED BY <1>1, <2>1, <3>1 DEF Place
  <2> QED BY <1>1, <1>3, <2>0, <2>1, <2>2, <2>3, <2>4, <2>5, <2>6, <2>7, <2>8, UndoBinAsks
<1>5. CASE ~(Frame.i < Frame.lim)
  <2>1. stack' = Tail(stack) /\ ret' = "ERROR" /\ errors' = TRUE
    BY <1>3, <1>5 DEF BinRollback, Return
  <2>2. \A k \in DOMAIN Children[Frame.el] : ~(Frame.i <= k /\ k < Frame.lim)
    BY <1>2, <1>3, <1>5
  <2>3. \A k \in DOMAIN Children[Frame.el] : Place(Frame, k, ret) = Frame.from
    BY <1>1, <2>2 DEF Place
  <2>4. ~dirty => NoUndoBelow(stack)
    BY <1>1, <1>3, UndoTop
  <2> QED BY <1>1, <1>2, <2>1, <2>3, <2>4, UndoBinReturns
<1> QED BY <1>4, <1>5

LEMMA UndoBinWalked ==
    ASSUME ChangeInv, UndoInv, BinWalked PROVE UndoInv'
<1>1. ~Idle /\ Frame.fn = "bin" /\ Frame.pc = "walked"
      /\ UNCHANGED <<ret, pipeState, state, errors, subject, before, dirty, ended>>
  BY DEF BinWalked, At, histories
<1>2. /\ Frame \in FrameType /\ Fits(Frame) /\ Placed(Frame) /\ ret \in {"OK", "ERROR"}
      /\ Frame.el \in Bins /\ Frame.i \in Nat /\ ~Walks(Frame)
      /\ DOMAIN Children[Frame.el] = 1 .. Len(Children[Frame.el]) /\ Len(Children[Frame.el]) \in Nat
  BY <1>1, BinTop
<1>3. /\ Frame.i \in DOMAIN Children[Frame.el] /\ Frame.i + 1 \in Nat
      /\ Frame.i + 1 \in 1 .. Len(Children[Frame.el]) + 1 /\ 1 <= Frame.i
  <2>1. Frame.i \in DOMAIN Children[Frame.el]
    BY <1>1, <1>2 DEF Placed
  <2> QED BY <1>2, <2>1
<1>4. \E a \in FrameType :
         /\ SameCall(a, Frame) /\ a.from = Frame.from /\ Goto(a)
         /\ \/ ret = "OK" /\ a.pc = "walk" /\ a.i = Frame.i + 1
            \/ ret # "OK" /\ a.pc = "rollback" /\ a.i = 1 /\ a.lim = Frame.i /\ a.r = "ERROR"
  <2>1. CASE ret = "OK"
    <3> DEFINE a == [Frame EXCEPT !.pc = "walk", !.i = Frame.i + 1]
    <3>1. /\ a \in FrameType /\ a.fn = Frame.fn /\ a.el = Frame.el /\ a.to = Frame.to
          /\ a.from = Frame.from /\ a.pc = "walk" /\ a.i = Frame.i + 1
      BY <1>1, <1>2, <1>3, Zenon DEF FrameType
    <3>2. Goto(a)
      BY <2>1 DEF BinWalked
    <3> HIDE DEF a
    <3> QED BY <2>1, <3>1, <3>2 DEF SameCall
  <2>2. CASE ret # "OK"
    <3> DEFINE a == [Frame EXCEPT !.pc = "rollback", !.i = 1, !.lim = Frame.i, !.r = ret]
    <3>1. /\ a \in FrameType /\ a.fn = Frame.fn /\ a.el = Frame.el /\ a.to = Frame.to
          /\ a.from = Frame.from /\ a.pc = "rollback" /\ a.i = 1 /\ a.lim = Frame.i /\ a.r = ret
      BY <1>1, <1>2 DEF FrameType
    <3>2. Goto(a)
      BY <2>2 DEF BinWalked
    <3> HIDE DEF a
    <3> QED BY <1>2, <2>2, <3>1, <3>2 DEF SameCall
  <2> QED BY <2>1, <2>2
<1>5. PICK a \in FrameType :
         /\ SameCall(a, Frame) /\ a.from = Frame.from /\ Goto(a)
         /\ \/ ret = "OK" /\ a.pc = "walk" /\ a.i = Frame.i + 1
            \/ ret # "OK" /\ a.pc = "rollback" /\ a.i = 1 /\ a.lim = Frame.i /\ a.r = "ERROR"
  BY <1>4
<1>6. a.fn = "bin" /\ a.to = Frame.to /\ a.el = Frame.el /\ Mid(a) = Mid(Frame)
  BY <1>1, <1>5 DEF SameCall, Mid
<1>7. Placed(a) /\ a.pc \notin CallingPc \cup {"walked", "bin"}
  BY <1>2, <1>3, <1>5, <1>6 DEF Placed, WalkingPc, CallingPc
<1>8. Fits(a)
  BY <1>1, <1>2, <1>3, <1>5, <1>6 DEF Fits, CallingPc, WalkingPc, Undoes
<1>9. Cur(a, state, pipeState) = Cur(Frame, state, pipeState)
  BY <1>1, <1>5 DEF Cur
<1>10. ASSUME ~dirty PROVE Topped(a, state, ended, pipeState, ret) /\ (Undoes(a) => NoUndoBelow(stack))
  <2>1. BinLeft(Frame, state, ended, ret, {}) /\ (ret # "OK" => NoUndoBelow(stack))
    BY <1>1, <1>10, UndoTop DEF Topped
  <2>2. ASSUME NEW k \in DOMAIN Children[Frame.el] PROVE Place(a, k, ret) = Place(Frame, k, ret)
    <3>1. k \in Nat /\ 1 <= k
      BY <1>2
    <3>2. k < Frame.i + 1 <=> (k < Frame.i \/ k = Frame.i)
      BY <1>2, <3>1
    <3> QED BY <1>1, <1>5, <1>6, <3>1, <3>2 DEF Place
  <2>3. BinLeft(a, state, ended, ret, {})
    BY <1>5, <1>6, <2>1, <2>2 DEF BinLeft
  <2>4. Undoes(a) => ret # "OK"
    BY <1>5 DEF Undoes
  <2> QED BY <1>5, <1>6, <2>1, <2>3, <2>4 DEF Topped
<1> QED BY <1>1, <1>2, <1>5, <1>7, <1>8, <1>9, <1>10, UndoGoes

-----------------------------------------------------------------------------
(* The application's calls and the workers.                                 *)

LEMMA UndoOneCall ==
    ASSUME NEW c \in FrameType, c.pc = "enter", NEW subj, Bottom(c, subj), c.fn # "pipeline" => subj # None,
           NEW rt
    PROVE  /\ Shaped(<<c>>, subj)
           /\ \A err : Posted(<<c>>, rt, err, subj)
           /\ \A st, en, ps, subj0, bef0 :
                 /\ Clean(<<>>, st, en, ps, rt, subj0, bef0) /\ Topped(c, st, en, ps, rt)
                 => Clean(<<c>>, st, en, ps, rt, subj, Cur(c, st, ps))
<1> DEFINE s == <<c>>
           o == <<>>
<1>1. Len(s) = 1 /\ s[1] = c /\ s # <<>> /\ Len(o) = 0 /\ o = <<>>
  OBVIOUS
<1> HIDE DEF s
<1>2. /\ \A k \in 1 .. Len(s) : k = 1
      /\ \A j, k \in 1 .. Len(s) : ~(j < k) /\ j = k
      /\ 1 .. Len(s) - 1 = {} /\ 2 .. Len(s) = {}
  BY <1>1
<1>3. Fits(c)
  BY DEF Fits, WalkingPc, CallingPc, Undoes
<1>4. Shaped(s, subj)
  BY <1>1, <1>2, <1>3 DEF Shaped
<1>5. \A err : Posted(s, rt, err, subj)
  BY <1>1, <1>2 DEF Posted
<1>6. OneUndo(s, rt)
  BY <1>1, <1>2 DEF OneUndo
<1>7. ~SomeWalks(o)
  BY <1>1 DEF SomeWalks
<1>8. ASSUME NEW st, NEW en, NEW ps, NEW subj0, NEW bef0,
             Clean(o, st, en, ps, rt, subj0, bef0), Topped(c, st, en, ps, rt)
      PROVE  Clean(s, st, en, ps, rt, subj, Cur(c, st, ps))
  <2>1. /\ \A x \in ToSet(Elements) : Unit(st, en, x, ps)
        /\ \A b \in Loose : \A k \in Kids(b) : Is(st, en, k, st[b])
    BY <1>7, <1>8 DEF Clean
  <2> QED BY <1>1, <1>2, <1>6, <1>8, <2>1 DEF Clean
<1> QED BY <1>4, <1>5, <1>8 DEF s

LEMMA UndoBegins ==
    ASSUME ChangeInv, UndoInv, NEW s \in States,
           SetState(s) \/ \E e \in Loose : SetElementState(e, s)
    PROVE  UndoInv'
<1>1. ASSUME SetState(s) PROVE UndoInv'
  <2> DEFINE c == PipelineFrame(s)
  <2>1. /\ stack = <<>> /\ stack' = <<c>> /\ subject' = None /\ before' = pipeState
        /\ UNCHANGED <<ret, pipeState, state, dirty, ended>>
    BY <1>1 DEF SetState, Idle
  <2>2. c \in FrameType /\ c.pc = "enter" /\ c.fn = "pipeline"
    BY NewFrames
  <2> HIDE DEF c
  <2>3. Bottom(c, None) /\ Cur(c, state, pipeState) = pipeState
    BY <2>2 DEF Bottom, Cur
  <2>4. Topped(c, state, ended, pipeState, ret)
    BY <2>2 DEF Topped, PipelineTopped, WalkingPc
  <2>5. ~dirty => Clean(<<>>, state, ended, pipeState, ret, subject, before)
    BY <2>1 DEF UndoInv
  <2>6. /\ Shaped(<<c>>, None) /\ Posted(<<c>>, ret, errors', None)
        /\ ~dirty => Clean(<<c>>, state, ended, pipeState, ret, None, pipeState)
    <3>1. Shaped(<<c>>, None) /\ \A err : Posted(<<c>>, ret, err, None)
      BY <2>2, <2>3, UndoOneCall
    <3>2. ~dirty => Clean(<<c>>, state, ended, pipeState, ret, None, Cur(c, state, pipeState))
      BY <2>2, <2>3, <2>4, <2>5, UndoOneCall
    <3> QED BY <2>3, <3>1, <3>2
  <2> QED BY <2>1, <2>6 DEF UndoInv
<1>2. ASSUME NEW e \in Loose, SetElementState(e, s) PROVE UndoInv'
  <2> DEFINE c == ElementFrame(e, s)
  <2>1. /\ stack = <<>> /\ stack' = <<c>> /\ subject' = e /\ before' = state[e]
        /\ UNCHANGED <<ret, pipeState, state, dirty, ended>>
    BY <1>2 DEF SetElementState, Idle
  <2>2. e # None /\ e \in All
    BY Family
  <2>3. c \in FrameType /\ c.pc = "enter" /\ c.fn = "element"
    BY <2>2, NewFrames
  <2>4. c.el = e
    BY NewFields
  <2> HIDE DEF c
  <2>5. Bottom(c, e) /\ Cur(c, state, pipeState) = state[e]
    BY <2>3, <2>4 DEF Bottom, Cur
  <2>6. ~dirty => Clean(<<>>, state, ended, pipeState, ret, subject, before)
    BY <2>1 DEF UndoInv
  <2>7. ~dirty => Topped(c, state, ended, pipeState, ret)
    <3>1. ~dirty => \A k \in Kids(e) : Is(state, ended, k, state[e])
      BY <2>6 DEF Clean
    <3> QED BY <2>3, <2>4, <3>1 DEF Topped, ElementTopped
  <2>8. /\ Shaped(<<c>>, e) /\ \A err : Posted(<<c>>, ret, err, e)
        /\ ~dirty => Clean(<<c>>, state, ended, pipeState, ret, e, state[e])
    <3>1. Shaped(<<c>>, e) /\ \A err : Posted(<<c>>, ret, err, e)
      BY <2>2, <2>3, <2>5, UndoOneCall
    <3>2. ~dirty => Clean(<<c>>, state, ended, pipeState, ret, e, Cur(c, state, pipeState))
      BY <2>2, <2>3, <2>5, <2>6, <2>7, UndoOneCall
    <3> QED BY <2>5, <3>1, <3>2
  <2> QED BY <2>1, <2>8 DEF UndoInv
<1> QED BY <1>1, <1>2

\* An element that ends is left out, and no other has moved.
LEMMA EndedLeftOut ==
    ASSUME NEW s, Stacked(s), NEW subj \in Loose \cup {None}, Shaped(s, subj),
           NEW e \in Sources, NEW st, NEW st2, NEW en, NEW en2, NEW ps, NEW rt, NEW bef,
           \A z \in All : z # e => st2[z] = st[z], en2 = en \cup {e},
           Clean(s, st, en, ps, rt, subj, bef)
    PROVE  Clean(s, st2, en2, ps, rt, subj, bef)
<1>1. /\ e \notin Bins /\ Kids(e) = {} /\ e \notin Loose
      /\ \A x : \A c \in Kids(x) : c \in All
      /\ \A x \in Loose : x \in All /\ x # None
      /\ \A x \in ToSet(Elements) : x \in All
  BY Family
<1>2. \A x \in All : \A v : Is(st, en, x, v) => Is(st2, en2, x, v)
  BY DEF Is
<1>3. \A x \in All : \A v : Unit(st, en, x, v) => Unit(st2, en2, x, v)
  BY <1>1, <1>2 DEF Unit
<1>4. \A b \in Bins \cup Loose : st2[b] = st[b]
  BY <1>1, BinsAll
<1>5. \A k \in 1 .. Len(s) : s[k] \in FrameType /\ Placed(s[k]) /\ Fits(s[k])
  BY DEF Stacked, Shaped
<1>6. s # <<>> => Len(s) \in Nat \ {0}
  BY TopRest DEF Stacked
<1>7. ASSUME NEW f \in FrameType, Placed(f), f.fn = "bin", NEW r, NEW K, BinLeft(f, st, en, r, K)
      PROVE  BinLeft(f, st2, en2, r, K)
  <2>1. f.el \in Bins
    BY <1>7 DEF Placed
  <2>2. \A k \in DOMAIN Children[f.el] : Children[f.el][k] \in All
    BY <2>1, SequencesGiven
  <2> QED BY <1>2, <1>4, <1>7, <2>1, <2>2 DEF BinLeft
<1>8. ASSUME NEW f, NEW r, NEW K, PipeLeft(f, st, en, ps, r, K)
      PROVE  PipeLeft(f, st2, en2, ps, r, K)
  <2>1. \A k \in DOMAIN Elements : Nth(f.to > f.from, k) \in All
    BY <1>1, Walk
  <2> QED BY <1>3, <1>8, <2>1 DEF PipeLeft
<1>9. ASSUME NEW f \in FrameType, Placed(f), f.fn = "element", ElementTopped(f, st, en, rt)
      PROVE  ElementTopped(f, st2, en2, rt)
  <2>1. f.el \in All
    BY <1>9 DEF Placed
  <2>2. f.pc = "enter" => \A c \in Kids(f.el) : Is(st2, en2, c, st2[f.el])
    <3>1. CASE f.el = e
      BY <1>1, <3>1
    <3>2. CASE f.el # e
      <4>1. st2[f.el] = st[f.el]
        BY <2>1, <3>2
      <4> QED BY <1>1, <1>2, <1>9, <4>1 DEF ElementTopped
    <3> QED BY <3>1, <3>2
  <2>3. \A v : (\A c \in Kids(f.el) : Is(st, en, c, v)) => \A c \in Kids(f.el) : Is(st2, en2, c, v)
    BY <1>1, <1>2
  <2> QED BY <1>2, <1>3, <1>9, <2>1, <2>2, <2>3 DEF ElementTopped
<1>10. ASSUME s # <<>>
       PROVE  Topped(s[1], st2, en2, ps, rt) /\ Cur(s[Len(s)], st2, ps) = bef
  <2> DEFINE f == s[1]
             g == s[Len(s)]
  <2>1. 1 \in 1 .. Len(s) /\ Len(s) \in 1 .. Len(s)
    BY <1>6, <1>10
  <2>2. f \in FrameType /\ Placed(f) /\ Topped(f, st, en, ps, rt) /\ Bottom(g, subj) /\ Cur(g, st, ps) = bef
    BY <1>5, <1>10, <2>1 DEF Clean, Shaped
  <2> HIDE DEF f, g
  <2>3. Topped(f, st2, en2, ps, rt)
    <3>1. f.fn = "element" => ElementTopped(f, st2, en2, rt)
      BY <1>9, <2>2 DEF Topped
    <3>2. f.fn = "pipeline" => PipelineTopped(f, st2, en2, ps, rt)
      BY <1>8, <2>2 DEF Topped, PipelineTopped
    <3>3. f.fn = "bin" => BinLeft(f, st2, en2, rt, {})
      BY <1>7, <2>2 DEF Topped
    <3> QED BY <3>1, <3>2, <3>3 DEF Topped
  <2>4. Cur(g, st2, ps) = bef
    BY <1>4, <2>2 DEF Cur, Bottom
  <2> QED BY <2>3, <2>4 DEF f, g
<1>11. ASSUME NEW k \in 2 .. Len(s) PROVE Lowered(s[k], st2, en2, ps)
  <2> DEFINE f == s[k]
  <2>1. s \in Seq(FrameType) /\ Len(s) \in Nat
    BY LenProperties DEF Stacked
  <2>2. k \in 1 .. Len(s)
    BY <2>1
  <2>3. f \in FrameType /\ Placed(f) /\ Fits(f) /\ f.pc \in WaitingPc /\ Lowered(f, st, en, ps)
    BY <1>5, <2>2 DEF Clean, Stacked
  <2> HIDE DEF f
  <2>4. f.fn = "bin" => BinLeft(f, st2, en2, "OK", {FluxAt(f)})
    BY <1>7, <2>3 DEF Lowered
  <2>5. Walks(f) => /\ PipeLeft(f, st2, en2, ps, "OK", {FluxAt(f)})
                    /\ Is(st2, en2, Flux(f), f.from) \/ Is(st2, en2, Flux(f), f.to)
    <3> SUFFICES ASSUME Walks(f)
                 PROVE  /\ PipeLeft(f, st2, en2, ps, "OK", {FluxAt(f)})
                        /\ Is(st2, en2, Flux(f), f.from) \/ Is(st2, en2, Flux(f), f.to)
      OBVIOUS
    <3>1. f.fn = "pipeline" /\ f.pc \in {"walked", "rollback"}
      BY <2>3 DEF Walks, WaitingPc, WalkingPc, CallingPc
    <3>2. Flux(f) \in All
      BY <1>1, <2>3, <3>1, FluxIs
    <3> QED BY <1>2, <1>8, <2>3, <3>2 DEF Lowered
  <2>6. f.fn = "element" /\ f.pc = "bin" => Is(st2, en2, f.el, f.from)
    BY <1>2, <2>3 DEF Lowered, Placed
  <2> QED BY <2>4, <2>5, <2>6 DEF Lowered, f
<1>12. ASSUME NEW k \in 1 .. Len(s) PROVE s[k].fn = "element" => s[k].el = e \/ Cur(s[k], st2, ps) = Cur(s[k], st, ps)
  <2>1. s[k].fn = "element" => s[k].el \in All
    BY <1>5 DEF Placed
  <2> QED BY <2>1 DEF Cur
<1>13. ASSUME NEW k \in 1 .. Len(s) PROVE s[k].fn # "element" => Cur(s[k], st2, ps) = Cur(s[k], st, ps)
  <2>1. s[k].fn = "bin" => s[k].pc # "enter"
    BY <1>5 DEF Placed, WalkingPc
  <2>2. s[k].fn \in {"pipeline", "element", "bin"}
    BY <1>5, Fields
  <2> QED BY <2>1, <2>2 DEF Cur
<1>14. ASSUME NEW k \in 1 .. Len(s) - 1 PROVE Begun(s[k], s[k + 1], st2, en2, ps)
  <2>1. k \in 1 .. Len(s)
    <3>1. s \in Seq(FrameType) /\ Len(s) \in Nat
      BY LenProperties DEF Stacked
    <3> QED BY <3>1
  <2>2. Begun(s[k], s[k + 1], st, en, ps)
    BY DEF Clean
  <2> QED BY <1>12, <1>13, <2>1, <2>2 DEF Begun
<1>15. ASSUME NEW j \in 1 .. Len(s), NEW k \in 1 .. Len(s), j < k PROVE Direct(s[j], s[k], st2, en2, ps)
  <2>1. Direct(s[j], s[k], st, en, ps)
    BY <1>15 DEF Clean
  <2> QED BY <1>12, <2>1 DEF Direct
<1>16. ~SomeWalks(s) => \A x \in ToSet(Elements) : Unit(st2, en2, x, ps)
  BY <1>1, <1>3 DEF Clean
<1>17. \A b \in Loose : s = <<>> \/ b # subj => \A c \in Kids(b) : Is(st2, en2, c, st2[b])
  BY <1>1, <1>2, <1>4 DEF Clean
<1>18. s = <<>> /\ rt = "ERROR" => IF subj = None THEN ps = bef ELSE st2[subj] <= bef
  BY <1>4 DEF Clean
<1>19. OneUndo(s, rt)
  BY DEF Clean
<1> QED BY <1>10, <1>11, <1>14, <1>15, <1>16, <1>17, <1>18, <1>19 DEF Clean

LEMMA UndoWorkers ==
    ASSUME ChangeInv, UndoInv, NEW e \in Sources, WorkerTakes(e) \/ WorkerReturns(e) \/ WorkerEof(e)
    PROVE  UndoInv'
<1>1. UNCHANGED <<stack, ret, pipeState, errors, subject, before, dirty>>
  BY DEF WorkerTakes, WorkerReturns, WorkerEof, histories
<1>2. CASE UNCHANGED <<state, ended>>
  BY <1>1, <1>2 DEF UndoInv
<1>3. CASE WorkerEof(e)
  <2>1. /\ state \in [All -> States] /\ Stacked(stack) /\ subject \in Loose \cup {None}
        /\ Shaped(stack, subject)
    BY DEF ChangeInv, Values, UndoInv
  <2>2. /\ state' = [state EXCEPT ![e] = READY] /\ ended' = ended \cup {e}
    BY <1>3 DEF WorkerEof
  <2> DEFINE w == state'
             n == ended'
  <2>3. (\A z \in All : z # e => w[z] = state[z]) /\ n = ended \cup {e}
    BY <2>1, <2>2
  <2> HIDE DEF w, n
  <2>4. ~dirty => Clean(stack, w, n, pipeState, ret, subject, before)
    BY <2>1, <2>3, EndedLeftOut DEF UndoInv
  <2> QED BY <1>1, <2>4 DEF UndoInv, w, n
<1> QED BY <1>2, <1>3 DEF WorkerTakes, WorkerReturns, histories

LEMMA UndoStarts ==
    ASSUME Init PROVE UndoInv
<1> DEFINE s == stack
<1>1. /\ s = <<>> /\ Len(s) = 0 /\ ret = "OK" /\ pipeState = NULL
      /\ state = [e \in All |-> NULL] /\ subject = None
  BY DEF Init
<1>2. Shaped(s, subject)
  BY <1>1 DEF Shaped
<1>3. Posted(s, ret, errors, subject)
  BY <1>1 DEF Posted
<1>4. \A x \in All : state[x] = NULL
  BY <1>1
<1>5. \A x \in ToSet(Elements) : Unit(state, ended, x, pipeState)
  BY <1>1, <1>4, Family DEF Unit, Is
<1>6. \A b \in Loose : \A c \in Kids(b) : Is(state, ended, c, state[b])
  BY <1>4, Family DEF Is
<1>7. OneUndo(s, ret)
  BY <1>1 DEF OneUndo
<1>8. Clean(s, state, ended, pipeState, ret, subject, before)
  <2> HIDE DEF s
  <2> QED BY <1>1, <1>5, <1>6, <1>7 DEF Clean
<1> QED BY <1>2, <1>3, <1>8 DEF UndoInv

\* zst_pipeline.c:381-496, zst_element.c:142-208, zst_bin.c:322-348: at every
\* moment of a change, a walk has left each element where its place in the walk
\* says, and, as long as no hook fails in a rollback, the rollback of a failed
\* step finds what it has to undo and succeeds.
THEOREM UndoInvariant == Spec => []UndoInv
<1>1. Init => UndoInv
  BY UndoStarts
<1>2. ChangeInv /\ UndoInv /\ [Next]_vars => UndoInv'
  <2> SUFFICES ASSUME ChangeInv, UndoInv, [Next]_vars PROVE UndoInv'
    OBVIOUS
  <2>1. CASE \E s \in States : SetState(s) \/ \E e \in Loose : SetElementState(e, s)
    BY <2>1, UndoBegins
  <2>2. CASE Pipeline
    BY <2>2, UndoSteps, UndoDecomposes, UndoEnters, UndoWalks, UndoWalked, UndoRollsBack, UndoLeaves
       DEF Pipeline
  <2>3. CASE Element
    BY <2>3, UndoElementEnters, UndoElementSteps, UndoHook, UndoBinCalled, UndoBinDone, UndoStore
       DEF Element
  <2>4. CASE Bin
    BY <2>4, UndoBinWalks, UndoBinWalked, UndoBinRollsBack DEF Bin
  <2>5. CASE \E e \in Sources : WorkerTakes(e) \/ WorkerReturns(e) \/ WorkerEof(e)
    BY <2>5, UndoWorkers
  <2>6. CASE UNCHANGED vars
    BY <2>6 DEF vars, UndoInv
  <2> QED BY <2>1, <2>2, <2>3, <2>4, <2>5, <2>6 DEF Next
<1> QED BY <1>1, <1>2, ChangeInvariant, PTL DEF Spec

-----------------------------------------------------------------------------
(* What the invariant gives between calls, and during a walk.               *)

\* zst_pipeline.c:381-496, zst_bin.c:322-348: a change of state moves every
\* element or, when a hook fails anywhere, none: between calls the elements of
\* the pipeline and the children of its bins are where pipe->state says, a
\* change that failed is undone, and an error was posted.
THEOREM ChangeIsAllOrNothing == Spec => []AllOrNothing
<1>1. ChangeInv /\ UndoInv => Agreement
  <2> SUFFICES ASSUME ChangeInv, UndoInv, Idle, ~dirty
               PROVE  /\ \A e \in InPipeline \ ended : state[e] = pipeState
                      /\ \A b \in Bins : \A c \in ToSet(Children[b]) \ ended : state[c] = state[b]
    BY DEF Agreement
  <2>1. stack = <<>> /\ ended \subseteq Sources
    BY DEF Idle, ChangeInv, Values
  <2>2. ~SomeWalks(stack)
    <3>1. Len(stack) = 0
      BY <2>1
    <3> QED BY <3>1 DEF SomeWalks
  <2>3. /\ \A x \in ToSet(Elements) : Unit(state, ended, x, pipeState)
        /\ \A b \in Loose : \A c \in Kids(b) : Is(state, ended, c, state[b])
    BY <2>1, <2>2 DEF UndoInv, Clean
  <2>4. ASSUME NEW e \in InPipeline \ ended PROVE state[e] = pipeState
    <3>1. CASE e \in ToSet(Elements)
      BY <2>3, <2>4, <3>1 DEF Unit, Is
    <3>2. ASSUME NEW b \in Bins \ Loose, e \in ToSet(Children[b]) PROVE state[e] = pipeState
      <4>1. b \in ToSet(Elements) /\ e \in Kids(b)
        BY <3>2, Family DEF Kids
      <4> QED BY <2>3, <2>4, <4>1 DEF Unit, Is
    <3> QED BY <3>1, <3>2 DEF InPipeline
  <2>5. ASSUME NEW b \in Bins, NEW c \in ToSet(Children[b]) \ ended PROVE state[c] = state[b]
    <3>1. c \in Kids(b) /\ b \notin ended
      BY <2>1, BinsGoOn DEF Kids
    <3>2. CASE b \in Loose
      BY <2>3, <2>5, <3>1, <3>2 DEF Is
    <3>3. CASE b \in ToSet(Elements)
      BY <2>3, <2>5, <3>1, <3>3 DEF Unit, Is
    <3> QED BY <3>2, <3>3, Family
  <2> QED BY <2>4, <2>5
<1>2. ChangeInv /\ UndoInv => FailureUndone
  <2> SUFFICES ASSUME ChangeInv, UndoInv, Idle, ret = "ERROR"
               PROVE  /\ ~dirty => IF subject = None THEN pipeState = before
                                   ELSE state[subject] = before \/ state[subject] < before
                      /\ subject = None => errors
    BY DEF FailureUndone
  <2>1. stack = <<>>
    BY DEF Idle
  <2>2. subject = None => errors
    BY <2>1 DEF UndoInv, Posted
  <2>3. ~dirty => IF subject = None THEN pipeState = before ELSE state[subject] <= before
    BY <2>1 DEF UndoInv, Clean
  <2>4. before \in States /\ (subject # None => state[subject] \in States)
    BY Family DEF ChangeInv, Values
  <2>5. subject # None /\ state[subject] <= before => state[subject] = before \/ state[subject] < before
    BY <2>4 DEF States, NULL, PLAYING
  <2> QED BY <2>2, <2>3, <2>5
<1> QED BY <1>1, <1>2, ChangeInvariant, UndoInvariant, WalkAlwaysBracketed, PTL DEF AllOrNothing

\* A walk has a place where it is: the elements before it have moved, the ones
\* after it have not.
LEMMA Stairs ==
    ASSUME ChangeInv, UndoInv, ~dirty, NEW n \in 1 .. Len(stack), Walks(stack[n])
    PROVE  LET f == stack[n]
           IN  /\ f \in FrameType /\ Fits(f)
               /\ \E b \in Nat : \A k \in DOMAIN Elements :
                     /\ k < b => Is(state, ended, Nth(f.to > f.from, k), f.to)
                     /\ k > b => Is(state, ended, Nth(f.to > f.from, k), f.from)
                     /\ \/ Is(state, ended, Nth(f.to > f.from, k), f.to)
                        \/ Is(state, ended, Nth(f.to > f.from, k), f.from)
<1> DEFINE f == stack[n]
           b == IF f.pc = "rollback" THEN f.i + 1 ELSE f.i
           x(k) == Nth(f.to > f.from, k)
<1>1. Clean(stack, state, ended, pipeState, ret, subject, before) /\ Stacked(stack) /\ Shaped(stack, subject)
  BY DEF UndoInv, ChangeInv
<1>2. stack \in Seq(FrameType) /\ Len(stack) \in Nat
  BY <1>1, LenProperties DEF Stacked
<1>3. f \in FrameType /\ Placed(f) /\ Fits(f) /\ Walks(f) /\ f.fn = "pipeline" /\ f.pc \in WalkingPc
  BY <1>1, <1>2 DEF Stacked, Shaped, Walks
<1>4. stack # <<>>
  BY <1>2
<1>5. n = 1 => PipeLeft(f, state, ended, pipeState, ret, {})
  BY <1>1, <1>3, <1>4 DEF Clean, Topped, PipelineTopped
<1>6. n # 1 => n \in 2 .. Len(stack)
  BY <1>2
<1>7. n # 1 => /\ PipeLeft(f, state, ended, pipeState, "OK", {FluxAt(f)}) /\ f.pc \in {"walked", "rollback"}
               /\ Is(state, ended, Flux(f), f.from) \/ Is(state, ended, Flux(f), f.to)
  BY <1>1, <1>3, <1>6 DEF Clean, Lowered, Stacked, WaitingPc, CallingPc, WalkingPc
<1> HIDE DEF f
<1>8. f.i \in Nat /\ b \in Nat
  BY <1>3, Fields
<1>9. ASSUME NEW k \in DOMAIN Elements, NEW r
      PROVE  /\ k < b => Place(f, k, r) = f.to
             /\ k > b => Place(f, k, r) = f.from
             /\ Place(f, k, r) \in {f.to, f.from}
  <2>1. k \in Nat
    BY SequencesGiven
  <2>2. CASE f.pc = "rollback"
    <3>1. (k < b => k <= f.i) /\ (k > b => ~(k <= f.i))
      BY <1>8, <2>1, <2>2
    <3> QED BY <1>3, <2>2, <3>1 DEF Place
  <2>3. CASE f.pc # "rollback"
    <3>1. b = f.i /\ (k > b => ~(k < b) /\ k # b)
      BY <1>8, <2>1, <2>3
    <3> QED BY <1>3, <2>3, <3>1 DEF Place, WalkingPc
  <2> QED BY <2>2, <2>3
<1>10. n # 1 => FluxAt(f) = b /\ Flux(f) = x(b)
  <2>1. n # 1 => FluxAt(f) = b
    BY <1>3, <1>7 DEF FluxAt
  <2> QED BY <1>3, <2>1 DEF Flux
<1> HIDE DEF b
<1>11. ASSUME NEW k \in DOMAIN Elements
       PROVE  /\ k < b => Is(state, ended, x(k), f.to)
              /\ k > b => Is(state, ended, x(k), f.from)
              /\ Is(state, ended, x(k), f.to) \/ Is(state, ended, x(k), f.from)
  <2>0. k \in Nat
    BY SequencesGiven
  <2>1. CASE n = 1
    <3>1. Is(state, ended, x(k), Place(f, k, ret))
      BY <1>5, <2>1 DEF PipeLeft, Unit
    <3> QED BY <1>9, <3>1
  <2>2. CASE n # 1 /\ k = b
    BY <1>7, <1>8, <1>10, <2>2
  <2>3. CASE n # 1 /\ k # b
    <3>1. Is(state, ended, x(k), Place(f, k, "OK"))
      BY <1>7, <1>10, <2>3 DEF PipeLeft, Unit
    <3> QED BY <1>9, <3>1
  <2> QED BY <2>1, <2>2, <2>3
<1>12. \E bb \in Nat : \A k \in DOMAIN Elements :
              /\ k < bb => Is(state, ended, x(k), f.to)
              /\ k > bb => Is(state, ended, x(k), f.from)
              /\ Is(state, ended, x(k), f.to) \/ Is(state, ended, x(k), f.from)
  BY <1>8, <1>11
<1> QED BY <1>3, <1>12 DEF f

\* zst_pipeline.c:443-489: in any change and any rollback sources go up first
\* and down last, one state at a time, and exactly the frame that walks over
\* the elements holds their lock.
THEOREM WalksAlwaysInOrder == Spec => []WalksInOrder
<1>1. ChangeInv /\ UndoInv => Staircase
  <2> SUFFICES ASSUME ChangeInv, UndoInv, ~dirty, NEW i \in DOMAIN Elements, NEW j \in DOMAIN Elements,
                      i < j, Elements[i] \notin ended, Elements[j] \notin ended
               PROVE  state[Elements[i]] - state[Elements[j]] \in {0, 1}
    BY DEF Staircase
  <2>1. /\ i \in Nat /\ j \in Nat /\ Elements[i] \in ToSet(Elements) /\ Elements[j] \in ToSet(Elements)
        /\ Elements[i] \in All /\ Elements[j] \in All /\ Len(Elements) \in Nat
        /\ DOMAIN Elements = 1 .. Len(Elements)
    BY SequencesGiven DEF ToSet
  <2> DEFINE p == state[Elements[i]]
             q == state[Elements[j]]
  <2>2. p \in States /\ q \in States
    BY <2>1 DEF ChangeInv, Values
  <2>3. CASE ~SomeWalks(stack)
    <3>1. p = pipeState /\ q = pipeState
      BY <2>1, <2>3 DEF UndoInv, Clean, Unit, Is
    <3> HIDE DEF p, q
    <3>2. p - q \in {0, 1}
      BY <2>2, <3>1 DEF States, NULL, PLAYING
    <3> QED BY <3>2 DEF p, q
  <2>4. CASE SomeWalks(stack)
    <3>1. PICK n \in 1 .. Len(stack) : Walks(stack[n])
      BY <2>4 DEF SomeWalks
    <3> DEFINE f == stack[n]
               up == f.to > f.from
    <3>2. /\ f \in FrameType /\ Fits(f)
          /\ \E b \in Nat : \A k \in DOMAIN Elements :
                     /\ k < b => Is(state, ended, Nth(up, k), f.to)
                     /\ k > b => Is(state, ended, Nth(up, k), f.from)
                     /\ \/ Is(state, ended, Nth(up, k), f.to)
                        \/ Is(state, ended, Nth(up, k), f.from)
      BY <3>1, Stairs
    <3>3. PICK b \in Nat : \A k \in DOMAIN Elements :
                     /\ k < b => Is(state, ended, Nth(up, k), f.to)
                     /\ k > b => Is(state, ended, Nth(up, k), f.from)
                     /\ \/ Is(state, ended, Nth(up, k), f.to)
                        \/ Is(state, ended, Nth(up, k), f.from)
      BY <3>2
    <3>4. f.to \in States /\ f.from \in States /\ f.from # f.to /\ Toward(f.from, f.to) = f.to
      BY <3>1, <3>2, Fields DEF Fits, Walks, Mid
    <3> HIDE DEF f, p, q
    <3>5. CASE up
      <4>1. Nth(up, i) = Elements[i] /\ Nth(up, j) = Elements[j]
        BY <3>5 DEF Nth
      <4>2. /\ (i < b => p = f.to) /\ (i > b => p = f.from) /\ (p = f.to \/ p = f.from)
            /\ (j < b => q = f.to) /\ (j > b => q = f.from) /\ (q = f.to \/ q = f.from)
        BY <3>3, <4>1 DEF Is, p, q
      <4>3. f.to = f.from + 1
        BY <3>4, <3>5 DEF Toward
      <4>4. p - q \in {0, 1}
        BY <2>1, <2>2, <3>4, <4>2, <4>3 DEF States, NULL, PLAYING
      <4> QED BY <4>4 DEF p, q
    <3>6. CASE ~up
      <4> DEFINE ii == Len(Elements) + 1 - i
                 jj == Len(Elements) + 1 - j
      <4>0. ii \in DOMAIN Elements /\ jj \in DOMAIN Elements /\ jj < ii
            /\ Len(Elements) + 1 - ii = i /\ Len(Elements) + 1 - jj = j
            /\ ii \in Nat /\ jj \in Nat
        BY <2>1
      <4> HIDE DEF ii, jj
      <4>1. Nth(up, ii) = Elements[i] /\ Nth(up, jj) = Elements[j]
        BY <3>6, <4>0 DEF Nth
      <4>2. /\ (ii < b => p = f.to) /\ (ii > b => p = f.from) /\ (p = f.to \/ p = f.from)
            /\ (jj < b => q = f.to) /\ (jj > b => q = f.from) /\ (q = f.to \/ q = f.from)
        BY <3>3, <4>0, <4>1 DEF Is, p, q
      <4>3. f.to = f.from - 1
        BY <3>4, <3>6 DEF Toward
      <4>4. p - q \in {0, 1}
        <5>1. ii > b \/ jj < b
          BY <4>0
        <5>2. p - q = 0 \/ p - q = f.from - f.to
          <6>1. p = q \/ (p = f.from /\ q = f.to)
            BY <4>2, <5>1
          <6> QED BY <2>2, <6>1 DEF States, NULL, PLAYING
        <5> QED BY <3>4, <4>3, <5>2 DEF States, NULL, PLAYING
      <4> QED BY <4>4 DEF p, q
    <3> QED BY <3>5, <3>6
  <2> QED BY <2>3, <2>4
<1> QED BY <1>1, ChangeInvariant, UndoInvariant, WalkAlwaysBracketed, PTL DEF WalksInOrder
=============================================================================
