----------------------------- MODULE ZstHooks -----------------------------
(***************************************************************************)
(* The vocabulary in which the hooks of the elements (zst_element_ops_t,   *)
(* zst_element.h) are written.                                             *)
(*                                                                         *)
(* An element's private structure is a record:                             *)
(*   held   the pointers, descriptors, threads and strings it owns;        *)
(*   lost   what was overwritten while it was still owned;                 *)
(*   on     its Boolean fields that are set;                               *)
(*   n      frames a codec library, a device or a parser has taken and not *)
(*          given back, or records the element keeps of its own;           *)
(*   pend   the element's own list of finished buffers, oldest first;      *)
(*   sent   the last thing pushed downstream: "none", "data", "eos", or    *)
(*          "late" once anything followed EOS;                             *)
(*   stray  what was used through a field that did not own it;             *)
(*   shed   a frame was given up because a library call, a buffer pool or  *)
(*          the downstream peer failed;                                    *)
(*   links  the sink pads that have a peer.                                *)
(*                                                                         *)
(* A hook is an operator from such a record to the set of its outcomes,    *)
(* [ret, p, out]: the result it returns, the structure it leaves, and the  *)
(* buffer it hands back in *out.  A call that may fail contributes the     *)
(* outcomes of both ways, so the early returns of the code are members of  *)
(* the set.                                                                *)
(***************************************************************************)
EXTENDS Integers, Sequences, FiniteSets, SequencesExt

CONSTANT MaxInside        \* bound: frames inside a codec library

ASSUME MaxInsideAssumption == MaxInside \in Nat \ {0}

(* The private structure of a new element: calloc. *)
Calloc == [held |-> {}, lost |-> {}, on |-> {}, n |-> 0, pend |-> <<>>,
           sent |-> "none", stray |-> {}, shed |-> FALSE, links |-> {}]

Outcome(r, p, o) == [ret |-> r, p |-> p, out |-> o]

Ok(p)      == {Outcome("ok", p, "none")}
Fail(p)    == {Outcome("err", p, "none")}
Again(p)   == {Outcome("again", p, "none")}
Eof(p)     == {Outcome("eof", p, "none")}
Out(p, o)  == {Outcome("ok", p, o)}
MayFail(p) == Ok(p) \cup Fail(p)

(* The call does not return: its caller waits, and may be tried again. *)
Blocked(p) == {Outcome("blocked", p, "none")}

(* ret = S; if (ret != ZST_OK) return ret; then F *)
Then(S, F(_)) == UNION {IF r.ret = "ok" THEN F(r.p) ELSE {r} : r \in S}

(* S; its result is ignored; then F *)
Regardless(S, F(_)) == UNION {F(r.p) : r \in S}

(* Both: after S, whatever F does to the structure is done on every path. *)
Finally(S, F(_)) == {Outcome(r.ret, F(r.p), r.out) : r \in S}

On(p, F)    == [p EXCEPT !.on = @ \cup F]
Off(p, F)   == [p EXCEPT !.on = @ \ F]
Get(p, R)   == [p EXCEPT !.held = @ \cup R, !.lost = @ \cup (R \cap p.held)]
Free(p, R)  == [p EXCEPT !.held = @ \ R]
Null(p, R)  == [p EXCEPT !.held = @ \ R, !.lost = @ \cup (R \cap p.held)]
Lose(p, R)  == [p EXCEPT !.lost = @ \cup R]
Stray(p, R) == [p EXCEPT !.stray = @ \cup R]
Use(p, R)   == Stray(p, R \ p.held)
Shed(p)     == [p EXCEPT !.shed = TRUE]
Inside(p, k)    == [p EXCEPT !.n = k]
Listed(p, s)    == [p EXCEPT !.pend = s]
Unlinked(p, m)  == [p EXCEPT !.links = @ \ {m}]
(* A codec is closed: what was inside it goes too. *)
FreeCodec(p, R) == Inside(Off(Free(p, R), {"ended"}), 0)
Has(p, x)   == x \in p.held
Is(p, f)    == f \in p.on

(* What an element keeps per sink pad: video_eos, inputs[0].queue. *)
PadFields ==
    [video  |-> [eos |-> "video_eos", linked |-> "video_linked", idx |-> "video_idx",
                 pacer |-> "video_pacer"],
     audio  |-> [eos |-> "audio_eos", linked |-> "audio_linked", idx |-> "audio_idx",
                 pacer |-> "audio_pacer"],
     sink_0 |-> [eos |-> "sink_0_eos", active |-> "sink_0_active", data |-> "sink_0_data",
                 queue |-> "sink_0_queue", input |-> "sink_0_input"],
     sink_1 |-> [eos |-> "sink_1_eos", active |-> "sink_1_active", data |-> "sink_1_data",
                 queue |-> "sink_1_queue", input |-> "sink_1_input"]]

PadFlag(m, f)     == PadFields[m][f]
PadFlags(pads, f) == {PadFlag(m, f) : m \in pads}

(* x = make(); if (!x) { undo all; return ZST_ERROR; } for every x of R *)
AllOrNothing(p, R) == Ok(Get(p, R)) \cup Fail(p)

(* The members of s are made in turn; a failure returns and undoes nothing. *)
StepByStep(p, s) ==
    Ok(Get(p, ToSet(s))) \cup
    UNION {Fail(Get(p, ToSet(SubSeq(s, 1, i)))) : i \in 0 .. Len(s) - 1}

(* What the downstream peer has seen after the buffers of s, in order. *)
Seen(last, s) ==
    LET all == <<last>> \o s
    IN  IF last = "late" \/ \E i, j \in 1 .. Len(all) :
                                i < j /\ all[i] = "eos"
        THEN "late" ELSE Last(all)

Send(p, s) == [p EXCEPT !.sent = Seen(@, s)]

(* zst_pad_push of one buffer: the peer may refuse it, and it is then gone. *)
Push(p, o) == Ok(Send(p, <<o>>)) \cup Fail(Shed(p))

(* A library takes one more frame; it is full at the bound, and takes      *)
(* nothing after it was told of the end of the stream.                     *)
Taken(p)   == Inside(p, p.n + 1)
CanTake(p) == p.n < MaxInside /\ ~Is(p, "ended")
End(p)     == On(p, {"ended"})

(* avcodec_flush_buffers and its like: what was inside is dropped. *)
Flushed(p) == Shed(Off(Inside(p, 0), {"ended"}))

(* A sink pad whose push function calls process and pushes what it returns. *)
PushOut(S) ==
    UNION {IF r.out = "none" THEN {r}
           ELSE {Outcome(IF r.ret = "ok" THEN q.ret ELSE r.ret, q.p, "none") :
                     q \in Push(r.p, r.out)} : r \in S}

(* The same for an element with a list of finished buffers, which the push *)
(* function empties; the first refusal ends the loop and leaves the rest.  *)
PushList(S) ==
    UNION {IF r.out = "none" THEN {r}
           ELSE LET all == <<r.out>> \o r.p.pend
                IN  {Outcome(r.ret, Send(Listed(r.p, <<>>), all), "none")}
                    \cup
                    {Outcome("err", Shed(Send(Listed(r.p, SubSeq(all, k + 1, Len(all))),
                                              SubSeq(all, 1, k - 1))), "none") :
                         k \in 1 .. Len(all)} : r \in S}

(* A hook the ops table leaves null. *)
NoHook == {}
===========================================================================
