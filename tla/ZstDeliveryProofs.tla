------------------------- MODULE ZstDeliveryProofs -------------------------
(***************************************************************************)
(* What is delivered, of what was sent.                                    *)
(*                                                                         *)
(* Part 1: the events of the bus of zst_bus.c, for every number of         *)
(* posting, popping and dispatching threads, every set of handlers and     *)
(* every number of events.                                                 *)
(*                                                                         *)
(* Part 2: what the RTP receivers make of a network that loses, repeats    *)
(* and reorders packets, for streams of any length and shape, every        *)
(* modulus of the sequence number, every history and every reorder buffer. *)
(***************************************************************************)
EXTENDS ZstBus, ZstReceiver, SequenceTheorems, FiniteSetTheorems, TLAPS

-----------------------------------------------------------------------------
(* The inductive invariant.                                                 *)

Args == {NoArg, "zero", "timed", "inf"} \cup Handlers \cup {NoHandler}

\* Which program points belong to which threads, and what a thread's argument
\* is where it matters.
BusPlaces ==
    /\ arg \in [Threads -> Args]
    /\ \A t \in Posters : pc[t] = "run"
    /\ \A t \in Poppers : pc[t] \in {"run", "pop", "wait"}
    /\ pc[Controller] \in {"run", "join", "destroy", "gone"}
    /\ \A d \in Dispatchers :
          /\ pc[d] \in {"none", "pop", "wait", "took", "handle", "check", "exited"}
          /\ pc[d] \in {"pop", "wait", "check"} => arg[d] = "inf"
    /\ pc[Controller] = "join" =>
          thread # NoThread /\ arg[Controller] \in Handlers \cup {NoHandler}

\* A dispatch thread that is alive is the bus's thread, and has a handler.
Alive ==
    /\ \A d \in Dispatchers : pc[d] \notin {"none", "exited"} => d = thread
    /\ \A d \in Dispatchers : pc[d] = "handle" => arg[d] = handler
    /\ thread # NoThread => handler # NoHandler

\* The handlers lag behind the dequeued events by the event in the hands of
\* the dispatch thread.
InHand ==
    /\ (\E d \in Dispatchers : pc[d] \in {"took", "handle"}) =>
          /\ dispatched # <<>> /\ handled = Front(dispatched)
          /\ event[thread] = Last(dispatched)
    /\ (\A d \in Dispatchers : pc[d] \notin {"took", "handle"}) => handled = dispatched

Account == BusTypeOK /\ BusPlaces /\ NothingLost /\ Alive /\ InHand

-----------------------------------------------------------------------------
(* Facts about sequences.                                                   *)

LEMMA FrontAppend ==
    ASSUME NEW S, NEW s \in Seq(S), NEW e \in S
    PROVE  /\ Append(s, e) # <<>> /\ Append(s, e) \in Seq(S)
           /\ Front(Append(s, e)) = s /\ Last(Append(s, e)) = e
<1>1. /\ Append(s, e) \in Seq(S) /\ Len(Append(s, e)) = Len(s) + 1
      /\ \A i \in 1..Len(s) : Append(s, e)[i] = s[i]
      /\ Append(s, e)[Len(s) + 1] = e
  BY AppendProperties
<1>2. Len(s) \in Nat
  BY LenProperties
<1>3. Front(Append(s, e)) = SubSeq(Append(s, e), 1, Len(s))
  BY <1>1, <1>2 DEF Front
<1>4. SubSeq(Append(s, e), 1, Len(s)) = s
  BY <1>1, <1>2
<1> QED BY <1>1, <1>2, <1>3, <1>4 DEF Last

LEMMA FrontLast ==
    ASSUME NEW S, NEW s \in Seq(S), s # <<>>
    PROVE  Front(s) \in Seq(S) /\ Append(Front(s), Last(s)) = s
<1>1. Len(s) \in Nat \ {0}
  BY EmptySeq
<1>2. Front(s) \in Seq(S) /\ Len(Front(s)) = Len(s) - 1
  <2>1. \A i \in 1..(Len(s) - 1) : s[i] \in S
    BY <1>1, ElementOfSeq
  <2>2. PICK n \in Nat : n = Len(s) - 1
    BY <1>1
  <2>3. SubSeq(s, 1, n) \in Seq(S) /\ Len(SubSeq(s, 1, n)) = IF 1 <= n THEN n - 1 + 1 ELSE 0
    BY <2>1, <2>2, SubSeqProperties
  <2>4. Front(s) = SubSeq(s, 1, n)
    BY <2>2 DEF Front
  <2> QED BY <2>2, <2>3, <2>4
<1>3. Last(s) \in S
  BY <1>1, ElementOfSeq DEF Last
<1>4. Append(Front(s), Last(s)) \in Seq(S) /\ Len(Append(Front(s), Last(s))) = Len(s)
  BY <1>1, <1>2, <1>3
<1>5. ASSUME NEW i \in 1..Len(s) PROVE Append(Front(s), Last(s))[i] = s[i]
  BY <1>1, <1>2, <1>3 DEF Front, Last
<1> QED BY <1>2, <1>4, <1>5, SeqEqual

LEMMA MoveHead ==
    ASSUME NEW S, NEW s \in Seq(S), NEW q \in Seq(S), q # <<>>
    PROVE  /\ Head(q) \in S /\ Tail(q) \in Seq(S) /\ Len(Tail(q)) = Len(q) - 1
           /\ Append(s, Head(q)) \in Seq(S)
           /\ Append(s, Head(q)) \o Tail(q) = s \o q
<1>1. Head(q) \in S /\ Tail(q) \in Seq(S) /\ Len(Tail(q)) = Len(q) - 1
  BY HeadTailProperties
<1>2. Append(s, Head(q)) \in Seq(S)
  BY <1>1
<1>3. Append(s, Head(q)) = s \o <<Head(q)>>
  BY <1>1, AppendIsConcat
<1>4. (s \o <<Head(q)>>) \o Tail(q) = s \o (<<Head(q)>> \o Tail(q))
  BY <1>1, ConcatAssociative
<1>5. <<Head(q)>> \o Tail(q) = q
  BY <1>1
<1> QED BY <1>1, <1>2, <1>3, <1>4, <1>5

-----------------------------------------------------------------------------
(* The invariant is inductive.                                              *)

LEMMA AccountInit == BusInit => Account
<1> SUFFICES ASSUME BusInit PROVE Account
  OBVIOUS
<1> USE BusConstants DEF BusInit
<1>1. BusTypeOK
  <2>1. <<>> \in Seq(Events)
    BY EmptySeq
  <2>2. /\ pc \in [Threads -> {"none", "run", "pop", "wait", "took", "handle", "check",
                               "exited", "join", "destroy", "gone"}]
        /\ event \in [Consumers -> Events \cup {NoEvent}]
        /\ posts \in [Posters -> 0..MaxPosts]
    OBVIOUS
  <2> QED BY <2>1, <2>2 DEF BusTypeOK
<1>2. BusPlaces
  <2>1. arg \in [Threads -> Args]
    BY DEF Args
  <2> QED BY <2>1 DEF BusPlaces, Threads
<1>3. NothingLost
  BY DEF NothingLost
<1>4. Alive /\ InHand
  BY DEF Alive, InHand, Threads
<1> QED BY <1>1, <1>2, <1>3, <1>4 DEF Account

\* A step of one consumer t that only moves it: before or after pop's loop,
\* but not in or out of the hands of a dispatcher.
LEMMA ConsumerMoves ==
    ASSUME Account, NEW t \in Consumers, NEW l, Goto(t, l),
           UNCHANGED <<bus, freed, event, arg, posts, history>>,
           pc[t] \in {"pop", "wait", "check"},
           \/ t \in Poppers /\ l \in {"run", "pop", "wait"}
           \/ t \in Dispatchers /\ l \in {"pop", "wait", "check", "exited"}
    PROVE  Account'
<1> USE BusConstants DEF Account
<1>1. /\ pc' \in [Threads -> {"none", "run", "pop", "wait", "took", "handle", "check",
                              "exited", "join", "destroy", "gone"}]
      /\ \A u \in Threads : pc'[u] = IF u = t THEN l ELSE pc[u]
  BY DEF Goto, BusTypeOK, Threads, Consumers
<1>2. BusTypeOK'
  BY <1>1 DEF BusTypeOK, bus, history
<1>3. BusPlaces'
  BY <1>1 DEF BusPlaces, bus, Consumers, Threads
<1>4. NothingLost'
  BY DEF NothingLost, bus, history
<1>5. Alive'
  BY <1>1 DEF Alive, bus, Consumers, Threads
<1>6. \A d \in Dispatchers : pc'[d] \in {"took", "handle"} <=> pc[d] \in {"took", "handle"}
  BY <1>1 DEF Consumers, Threads
<1>7. InHand'
  BY <1>6 DEF InHand, bus, history
<1> QED BY <1>2, <1>3, <1>4, <1>5, <1>7

\* What changes when set_handler installs a handler: no dispatch thread is
\* alive at that moment, and at most one is afterwards.
LEMMA InstallKeeps ==
    ASSUME Account, NEW h \in Handlers \cup {NoHandler}, Install(Controller, h),
           pc[Controller] \in {"run", "join"}, flushing' \in BOOLEAN,
           \A d \in Dispatchers : pc[d] \in {"none", "exited"},
           UNCHANGED <<queue, freed, event, posts, history>>
    PROVE  Account'
<1> USE BusConstants DEF Account
<1>1. PICK n \in Dispatchers \cup {NoThread} :
          /\ thread' = n /\ (n # NoThread => h # NoHandler)
          /\ pc' = [u \in Threads |-> IF u = Controller THEN "run"
                                      ELSE IF u = n THEN "pop" ELSE pc[u]]
          /\ arg' = [u \in Threads |-> IF u = Controller THEN NoArg
                                       ELSE IF u = n THEN "inf" ELSE arg[u]]
  BY DEF Install, Goto, Unused, BusTypeOK, BusPlaces, Threads
<1>2. handler' = h
  BY DEF Install
<1>3. BusTypeOK'
  BY <1>1, <1>2 DEF BusTypeOK, history
<1>4. BusPlaces'
  BY <1>1 DEF BusPlaces, Threads, Args
<1>5. NothingLost'
  BY DEF NothingLost, history
<1>6. Alive'
  BY <1>1, <1>2 DEF Alive, Threads
<1>7. \A d \in Dispatchers : pc[d] \notin {"took", "handle"} /\ pc'[d] \notin {"took", "handle"}
  BY <1>1 DEF Threads
<1>8. InHand'
  BY <1>7 DEF InHand, history
<1> QED BY <1>3, <1>4, <1>5, <1>6, <1>8

\* A broadcast by the controller sends the sleeping consumers back to pop.
LEMMA BroadcastKeeps ==
    ASSUME Account, NEW l \in {"join", "destroy"}, Broadcast(Controller, l),
           pc[Controller] = "run", flushing' = TRUE,
           UNCHANGED <<queue, thread, handler, freed, event, posts, history>>,
           \/ UNCHANGED arg
           \/ \E h \in Handlers \cup {NoHandler} : arg' = [arg EXCEPT ![Controller] = h],
           l = "join" => thread # NoThread /\ arg'[Controller] \in Handlers \cup {NoHandler}
    PROVE  Account'
<1> USE BusConstants DEF Account
<1>1. \A u \in Threads :
          pc'[u] = IF u = Controller THEN l
                   ELSE IF u \in Consumers /\ pc[u] = "wait" THEN "pop" ELSE pc[u]
  BY DEF Broadcast, Waiting
<1>2. BusTypeOK'
  <2>1. pc' \in [Threads -> {"none", "run", "pop", "wait", "took", "handle", "check",
                            "exited", "join", "destroy", "gone"}]
    BY DEF Broadcast, BusTypeOK
  <2> QED BY <2>1 DEF BusTypeOK, history
<1>3. \A u \in Threads : u # Controller => arg'[u] = arg[u]
  BY DEF BusPlaces, Threads
<1>4. BusPlaces'
  <2>1. arg' \in [Threads -> Args]
    BY DEF BusPlaces, Args
  <2> QED BY <1>1, <1>3, <2>1 DEF BusPlaces, Threads, Consumers
<1>5. NothingLost'
  BY DEF NothingLost, history
<1>6. Alive'
  BY <1>1, <1>3 DEF Alive, Threads, Consumers
<1>7. \A d \in Dispatchers : pc'[d] \in {"took", "handle"} <=> pc[d] \in {"took", "handle"}
  BY <1>1 DEF Consumers, Threads
<1>8. InHand'
  BY <1>7 DEF InHand, history
<1> QED BY <1>2, <1>4, <1>5, <1>6, <1>8

LEMMA PostKeeps ==
    ASSUME Account, NEW t \in Posters, Post(t) PROVE Account'
<1> USE BusConstants DEF Account
<1> DEFINE e == <<t, posts[t] + 1>>
<1>1. e \in Events
  BY DEF Post, BusTypeOK, Events
<1>2. /\ posts' \in [Posters -> 0..MaxPosts]
      /\ UNCHANGED <<flushing, thread, handler, freed, event, arg, taken, dispatched, handled>>
  BY DEF Post, BusTypeOK
<1>3. /\ pc' \in [Threads -> {"none", "run", "pop", "wait", "took", "handle", "check",
                              "exited", "join", "destroy", "gone"}]
      /\ \A u \in Threads :
            pc'[u] = pc[u] \/ (u \in Consumers /\ pc[u] = "wait" /\ pc'[u] = "pop")
  BY DEF Post, Signal, Waiting, Goto, BusTypeOK, Threads, Consumers
<1>4. \/ UNCHANGED <<queue, accepted>>
      \/ queue' = Append(queue, e) /\ accepted' = Append(accepted, e)
  BY DEF Post
<1>5. BusTypeOK'
  <2> HIDE DEF e
  <2>1. queue' \in Seq(Events) /\ accepted' \in Seq(Events)
    <3>1. queue \in Seq(Events) /\ accepted \in Seq(Events)
      BY DEF BusTypeOK
    <3>2. Append(queue, e) \in Seq(Events) /\ Append(accepted, e) \in Seq(Events)
      BY <1>1, <3>1, AppendProperties
    <3> QED BY <1>4, <3>1, <3>2
  <2>2. refused' \subseteq Events
    BY <1>1 DEF Post, BusTypeOK, e
  <2> QED BY <1>2, <1>3, <2>1, <2>2 DEF BusTypeOK
<1>6. BusPlaces'
  BY <1>2, <1>3 DEF BusPlaces, Threads, Consumers
<1>7. NothingLost'
  <2>1. taken \in Seq(Events) /\ queue \in Seq(Events) /\ <<e>> \in Seq(Events)
    BY <1>1 DEF BusTypeOK
  <2>2. taken \o (queue \o <<e>>) = (taken \o queue) \o <<e>>
    BY <2>1, ConcatAssociative
  <2>3. Append(queue, e) = queue \o <<e>>
    BY <1>1, <2>1, AppendIsConcat
  <2>4. Append(taken \o queue, e) = (taken \o queue) \o <<e>>
    BY <1>1, <2>1, ConcatProperties, AppendIsConcat
  <2>5. taken \o Append(queue, e) = Append(taken \o queue, e)
    BY <2>2, <2>3, <2>4
  <2> HIDE DEF e
  <2> QED BY <1>2, <1>4, <2>5 DEF NothingLost
<1>8. Alive'
  BY <1>2, <1>3 DEF Alive, Threads, Consumers
<1>9. \A d \in Dispatchers : pc'[d] \in {"took", "handle"} <=> pc[d] \in {"took", "handle"}
  BY <1>3 DEF Threads
<1>10. InHand'
  BY <1>2, <1>9 DEF InHand
<1> QED BY <1>5, <1>6, <1>7, <1>8, <1>10

LEMMA PopEventKeeps ==
    ASSUME Account, NEW t \in Consumers, PopEvent(t) PROVE Account'
<1> USE BusConstants DEF Account
<1>1. /\ UNCHANGED <<flushing, thread, handler, freed, arg, posts, accepted, refused, handled>>
      /\ queue' = Tail(queue) /\ taken' = Append(taken, Head(queue))
      /\ dispatched' = IF t \in Dispatchers THEN Append(dispatched, Head(queue)) ELSE dispatched
      /\ pc[t] = "pop" /\ t \in Threads
  BY DEF PopEvent, Consumers, Threads
<1>2. /\ Head(queue) \in Events /\ queue' \in Seq(Events) /\ taken' \in Seq(Events)
      /\ taken' \o queue' = taken \o queue
  BY <1>1, MoveHead DEF BusTypeOK, PopEvent
<1>3. /\ pc' \in [Threads -> {"none", "run", "pop", "wait", "took", "handle", "check",
                              "exited", "join", "destroy", "gone"}]
      /\ \A u \in Threads : pc'[u] = IF u = t THEN AfterOk(t) ELSE pc[u]
  BY <1>1 DEF PopEvent, Goto, AfterOk, BusTypeOK
<1>4. /\ event' \in [Consumers -> Events \cup {NoEvent}]
      /\ \A u \in Consumers : event'[u] = IF u = t THEN Head(queue) ELSE event[u]
  BY <1>2 DEF PopEvent, BusTypeOK
<1>5. BusTypeOK'
  <2>1. dispatched' \in Seq(Events)
    BY <1>1, <1>2, AppendProperties DEF BusTypeOK
  <2> QED BY <1>1, <1>2, <1>3, <1>4, <2>1 DEF BusTypeOK
<1>6. BusPlaces'
  BY <1>1, <1>3 DEF BusPlaces, Threads, Consumers, AfterOk
<1>7. NothingLost'
  BY <1>1, <1>2 DEF NothingLost
<1>8. Alive'
  BY <1>1, <1>3 DEF Alive, Threads, Consumers, AfterOk
<1>9. InHand'
  <2>1. CASE t \in Dispatchers
    <3>1. thread = t /\ thread' = t /\ pc'[t] = "took"
      BY <2>1, <1>1, <1>3 DEF Alive, AfterOk
    <3>2. \A d \in Dispatchers : pc[d] \notin {"took", "handle"}
      BY <3>1, <1>1 DEF Alive
    <3>3. handled = dispatched
      BY <3>2 DEF InHand
    <3>4. /\ dispatched' # <<>> /\ Front(dispatched') = dispatched
          /\ Last(dispatched') = Head(queue)
      BY <2>1, <1>1, <1>2, FrontAppend DEF BusTypeOK
    <3>5. event'[t] = Head(queue)
      BY <1>4
    <3> QED BY <2>1, <3>1, <3>3, <3>4, <3>5, <1>1 DEF InHand
  <2>2. CASE t \notin Dispatchers
    <3>1. \A d \in Dispatchers : pc'[d] = pc[d]
      BY <2>2, <1>3 DEF Threads
    <3>2. dispatched' = dispatched
      BY <2>2, <1>1
    <3>3. ASSUME \E d \in Dispatchers : pc[d] \in {"took", "handle"}
          PROVE  event'[thread] = event[thread]
      BY <2>2, <3>3, <1>4 DEF Alive, Consumers
    <3> QED BY <3>1, <3>2, <3>3, <1>1 DEF InHand
  <2> QED BY <2>1, <2>2
<1> QED BY <1>5, <1>6, <1>7, <1>8, <1>9

LEMMA DispatchKeeps ==
    ASSUME Account, NEW d \in Dispatchers, ReadHandler(d) \/ CallHandler(d) PROVE Account'
<1> USE BusConstants DEF Account
<1>0. d \in Threads /\ d \in Consumers
  BY DEF Threads, Consumers
<1>1. CASE ReadHandler(d)
  <2>1. /\ UNCHANGED <<bus, freed, event, posts, history>> /\ pc[d] = "took"
        /\ \A u \in Threads : pc'[u] = IF u = d THEN "handle" ELSE pc[u]
        /\ \A u \in Threads : arg'[u] = IF u = d THEN handler ELSE arg[u]
        /\ pc' \in [Threads -> {"none", "run", "pop", "wait", "took", "handle", "check",
                              "exited", "join", "destroy", "gone"}]
    BY <1>0, <1>1 DEF ReadHandler, Goto, BusTypeOK, BusPlaces
  <2>2. arg' \in [Threads -> Args]
    BY <1>0, <1>1 DEF ReadHandler, BusTypeOK, BusPlaces, Args
  <2>3. BusTypeOK'
    BY <2>1 DEF BusTypeOK, bus, history
  <2>4. BusPlaces'
    BY <2>1, <2>2 DEF BusPlaces, bus, Threads
  <2>5. NothingLost'
    BY <2>1 DEF NothingLost, bus, history
  <2>6. Alive'
    BY <2>1, <1>0 DEF Alive, bus, Threads
  <2>7. InHand'
    BY <2>1, <1>0 DEF InHand, bus, history, Threads
  <2> QED BY <2>3, <2>4, <2>5, <2>6, <2>7
<1>2. CASE CallHandler(d)
  <2>1. /\ UNCHANGED <<bus, freed, posts, accepted, refused, taken, dispatched>>
        /\ pc[d] = "handle"
        /\ \A u \in Threads : pc'[u] = IF u = d THEN "pop" ELSE pc[u]
        /\ \A u \in Threads : arg'[u] = IF u = d THEN "inf" ELSE arg[u]
        /\ pc' \in [Threads -> {"none", "run", "pop", "wait", "took", "handle", "check",
                              "exited", "join", "destroy", "gone"}]
        /\ event' \in [Consumers -> Events \cup {NoEvent}]
    BY <1>0, <1>2 DEF CallHandler, Goto, BusTypeOK, BusPlaces
  <2>2. arg' \in [Threads -> Args]
    BY <1>0, <1>2 DEF CallHandler, BusPlaces, Args
  <2>3. d = thread /\ handler # NoHandler /\ arg[d] = handler
    BY <1>0, <2>1 DEF Alive
  <2>4. dispatched # <<>> /\ handled = Front(dispatched) /\ event[d] = Last(dispatched)
    BY <2>1, <2>3 DEF InHand
  <2>5. handled' = dispatched
    <3>1. handled' = Append(handled, event[d])
      BY <1>2, <2>3 DEF CallHandler
    <3> QED BY <3>1, <2>4, FrontLast DEF BusTypeOK
  <2>6. BusTypeOK'
    BY <2>1, <2>5 DEF BusTypeOK, bus
  <2>7. BusPlaces'
    BY <2>1, <2>2 DEF BusPlaces, bus, Threads
  <2>8. NothingLost'
    BY <2>1 DEF NothingLost, bus
  <2>9. Alive'
    BY <2>1, <1>0 DEF Alive, bus, Threads
  <2>10. \A u \in Dispatchers : pc'[u] \notin {"took", "handle"}
    BY <2>1, <2>3 DEF Alive, Threads
  <2>11. InHand'
    BY <2>1, <2>5, <2>10 DEF InHand
  <2> QED BY <2>6, <2>7, <2>8, <2>9, <2>11
<1> QED BY <1>1, <1>2

LEMMA AccountStep == Account /\ [BusNext]_busVars => Account'
<1> SUFFICES ASSUME Account, [BusNext]_busVars PROVE Account'
  OBVIOUS
<1> USE BusConstants
<1>1. ASSUME NEW t \in Posters, Post(t) PROVE Account'
  BY <1>1, PostKeeps
<1>2. ASSUME NEW t \in Poppers, NEW w \in Timeouts, PopCall(t, w) PROVE Account'
  <2>1. /\ UNCHANGED <<bus, freed, posts, history>> /\ pc[t] = "run"
        /\ \A u \in Threads : pc'[u] = IF u = t THEN "pop" ELSE pc[u]
        /\ \A u \in Threads : arg'[u] = IF u = t THEN w ELSE arg[u]
        /\ \A u \in Consumers : u # t => event'[u] = event[u]
    BY <1>2 DEF PopCall, Goto, Account, BusTypeOK, BusPlaces, Threads, Consumers
  <2>2. BusTypeOK'
    BY <1>2, <2>1 DEF PopCall, Goto, Account, BusTypeOK, bus, history
  <2>3. BusPlaces'
    <3>1. arg' \in [Threads -> Args]
      BY <1>2 DEF PopCall, Account, BusPlaces, Args
    <3> QED BY <2>1, <3>1 DEF Account, BusPlaces, bus, Threads
  <2>4. NothingLost'
    BY <2>1 DEF Account, NothingLost, bus, history
  <2>5. Alive'
    BY <2>1 DEF Account, Alive, bus, Threads
  <2>6. InHand'
    <3>1. \A d \in Dispatchers : pc'[d] = pc[d]
      BY <2>1 DEF Threads
    <3>2. ASSUME \E d \in Dispatchers : pc[d] \in {"took", "handle"}
          PROVE  event'[thread] = event[thread]
      BY <2>1, <3>2 DEF Account, Alive, Consumers
    <3> QED BY <2>1, <3>1, <3>2 DEF Account, InHand, bus, history
  <2> QED BY <2>2, <2>3, <2>4, <2>5, <2>6 DEF Account
<1>3. ASSUME NEW t \in Consumers,
             PopBlocks(t) \/ PopFails(t) \/ SpuriousWakeup(t) \/ Deadline(t)
      PROVE  Account'
  <2>1. t \in Dispatchers /\ pc[t] \in {"pop", "wait"} => arg[t] = "inf"
    BY DEF Account, BusPlaces
  <2>2. CASE PopBlocks(t)
    BY <2>1, <2>2, ConsumerMoves DEF PopBlocks, Consumers
  <2>3. CASE PopFails(t)
    BY <2>1, <2>3, ConsumerMoves DEF PopFails, AfterError, Consumers
  <2>4. CASE SpuriousWakeup(t)
    BY <2>1, <2>4, ConsumerMoves DEF SpuriousWakeup, Consumers
  <2>5. CASE Deadline(t)
    BY <2>1, <2>5, ConsumerMoves DEF Deadline, Consumers
  <2> QED BY <1>3, <2>2, <2>3, <2>4, <2>5
<1>4. ASSUME NEW t \in Consumers, PopEvent(t) PROVE Account'
  BY <1>4, PopEventKeeps
<1>5. ASSUME NEW d \in Dispatchers, ReadHandler(d) \/ CallHandler(d) PROVE Account'
  BY <1>5, DispatchKeeps
<1>6. ASSUME NEW d \in Dispatchers, CheckExit(d) PROVE Account'
  BY <1>6, ConsumerMoves DEF CheckExit, Consumers
<1>7. ASSUME NEW h \in Handlers \cup {NoHandler}, SetHandler(h) PROVE Account'
  <2>1. \A d \in Dispatchers : pc[d] \in {"none", "exited"}
    BY <1>7 DEF SetHandler, Account, Alive, Threads
  <2> QED BY <1>7, <2>1, InstallKeeps DEF SetHandler, Account, BusTypeOK
<1>8. ASSUME NEW h \in Handlers \cup {NoHandler}, StopThread(h) PROVE Account'
  <2>1. arg'[Controller] = h
    BY <1>8 DEF StopThread, Account, BusPlaces, Threads
  <2> QED BY <1>8, <2>1, BroadcastKeeps DEF StopThread
<1>9. CASE SwapHandler
  <2>1. \A d \in Dispatchers : pc[d] \in {"none", "exited"}
    BY <1>9 DEF SwapHandler, Account, Alive
  <2>2. arg[Controller] \in Handlers \cup {NoHandler}
    BY <1>9 DEF SwapHandler, Account, BusPlaces
  <2> QED BY <1>9, <2>1, <2>2, InstallKeeps DEF SwapHandler
<1>10. CASE Destroy
  BY <1>10, BroadcastKeeps DEF Destroy
<1>11. CASE FreeBus
  <2>1. /\ \A u \in Threads : pc'[u] = IF u = Controller THEN "gone" ELSE pc[u]
        /\ UNCHANGED <<flushing, thread, handler, event, arg, posts, history>>
        /\ queue' = <<>> /\ freed' = TRUE
    BY <1>11 DEF FreeBus, Goto, Account, BusTypeOK, Threads
  <2>2. BusTypeOK'
    BY <1>11, <2>1, EmptySeq DEF FreeBus, Goto, Account, BusTypeOK, history
  <2>3. BusPlaces' /\ NothingLost' /\ Alive'
    BY <2>1 DEF Account, BusPlaces, NothingLost, Alive, Threads
  <2>4. InHand'
    BY <2>1 DEF Account, InHand, Threads, history
  <2> QED BY <2>2, <2>3, <2>4 DEF Account
<1>12. CASE UNCHANGED busVars
  <2>1. BusTypeOK'
    BY <1>12 DEF busVars, bus, history, Account, BusTypeOK
  <2>2. BusPlaces' /\ NothingLost' /\ Alive'
    BY <1>12 DEF busVars, bus, history, Account, BusPlaces, NothingLost, Alive
  <2>3. InHand'
    BY <1>12 DEF busVars, bus, history, Account, InHand
  <2> QED BY <2>1, <2>2, <2>3 DEF Account
<1> QED BY <1>1, <1>2, <1>3, <1>4, <1>5, <1>6, <1>7, <1>8, <1>9, <1>10, <1>11, <1>12
        DEF BusNext, Pop, Dispatch, Control, Finish

LEMMA AccountImplies == Account => EventsAccounted
<1> SUFFICES ASSUME Account PROVE EventsAccounted
  OBVIOUS
<1>1. OneDispatcher
  BY BusConstants DEF Account, Alive, OneDispatcher, Threads
<1>2. EveryTakenHandled
  BY BusConstants DEF Account, Alive, InHand, EveryTakenHandled, Threads
<1> QED BY <1>1, <1>2 DEF Account, EventsAccounted

\* Whatever threads post, poll, dispatch and replace handlers, the bus loses,
\* reorders and repeats nothing, and one handler at a time sees the events, in
\* posting order (zst_bus.c:56-74, 133-150, 188-199, 217-240).
THEOREM BusAccounted == BusSpec => []EventsAccounted
<1>1. BusInit => Account
  BY AccountInit
<1>2. Account /\ [BusNext]_busVars => Account'
  BY AccountStep
<1> QED BY <1>1, <1>2, AccountImplies, PTL DEF BusSpec

-----------------------------------------------------------------------------
(* Nobody sleeps beside an event.  Each post wakes one sleeper, and a        *)
(* consumer sleeps only when it has found the queue empty: while somebody    *)
(* sleeps, there are as many consumers on their way to the queue as events.  *)

OnTheWay == {t \in Consumers : pc[t] = "pop"}

Awake ==
    /\ flushing => Waiting = {}
    /\ Waiting # {} => Len(queue) <= Cardinality(OnTheWay)

LEMMA ConsumersFinite ==
    ASSUME NEW S, S \subseteq Consumers
    PROVE  IsFiniteSet(S) /\ Cardinality(S) \in Nat
<1>1. IsFiniteSet(Consumers)
  BY BusConstants, FS_Union DEF Consumers
<1> QED BY <1>1, FS_Subset, FS_CardinalityType

\* A step that takes nobody off the way and sends nobody to sleep.
LEMMA AwakeGrows ==
    ASSUME Awake, queue \in Seq(Events), queue' = queue, flushing' => flushing,
           Waiting' \subseteq Waiting, OnTheWay \subseteq OnTheWay'
    PROVE  Awake'
<1>1. OnTheWay' \subseteq Consumers /\ OnTheWay \subseteq Consumers
  BY DEF OnTheWay
<1>2. /\ Cardinality(OnTheWay) \in Nat /\ Cardinality(OnTheWay') \in Nat
      /\ IsFiniteSet(OnTheWay')
  BY <1>1, ConsumersFinite
<1>3. Cardinality(OnTheWay) <= Cardinality(OnTheWay')
  BY <1>2, FS_Subset
<1>4. Len(queue) \in Nat
  BY LenProperties
<1> QED BY <1>2, <1>3, <1>4 DEF Awake

LEMMA AwakeStep ==
    ASSUME Account, Awake, [BusNext]_busVars PROVE Awake'
<1> USE BusConstants
<1>0. queue \in Seq(Events) /\ Len(queue) \in Nat
  BY LenProperties DEF Account, BusTypeOK
<1>1. ASSUME NEW t \in Posters, Post(t) PROVE Awake'
  <2>1. CASE flushing \/ Waiting = {}
    <3>1. pc' = pc /\ flushing' = flushing
      BY <1>1, <2>1 DEF Post, Signal
    <3>2. Waiting' = {}
      BY <2>1, <3>1 DEF Awake, Waiting
    <3> QED BY <3>2 DEF Awake
  <2>2. CASE ~flushing /\ Waiting # {}
    <3>1. PICK u \in Waiting : Goto(u, "pop")
      BY <1>1, <2>2 DEF Post, Signal
    <3>2. OnTheWay' = OnTheWay \cup {u} /\ u \notin OnTheWay
      BY <3>1 DEF OnTheWay, Waiting, Goto, Account, BusTypeOK, Threads, Consumers
    <3>3. IsFiniteSet(OnTheWay) /\ Cardinality(OnTheWay) \in Nat
      BY ConsumersFinite DEF OnTheWay
    <3>4. Cardinality(OnTheWay') = Cardinality(OnTheWay) + 1
      BY <3>2, <3>3, FS_AddElement
    <3>5. Len(queue') = Len(queue) + 1 /\ flushing' = flushing
      <4>1. <<t, posts[t] + 1>> \in Events
        BY <1>1 DEF Post, Account, BusTypeOK, Events
      <4> QED BY <1>0, <1>1, <2>2, <4>1, AppendProperties DEF Post
    <3> QED BY <1>0, <2>2, <3>3, <3>4, <3>5 DEF Awake
  <2> QED BY <2>1, <2>2
<1>2. ASSUME NEW t \in Poppers, NEW w \in Timeouts, PopCall(t, w) PROVE Awake'
  <2>1. Waiting' \subseteq Waiting /\ OnTheWay \subseteq OnTheWay'
    BY <1>2 DEF PopCall, Goto, Waiting, OnTheWay, Account, BusTypeOK, Threads, Consumers
  <2> QED BY <1>0, <1>2, <2>1, AwakeGrows DEF PopCall, bus
<1>3. ASSUME NEW t \in Consumers, PopBlocks(t) PROVE Awake'
  <2>1. Cardinality(OnTheWay') \in Nat
    BY ConsumersFinite DEF OnTheWay
  <2>2. Len(queue') = 0 /\ ~flushing'
    BY <1>3 DEF PopBlocks, bus
  <2> QED BY <2>1, <2>2 DEF Awake
<1>4. ASSUME NEW t \in Consumers, SpuriousWakeup(t) \/ Deadline(t) PROVE Awake'
  <2>1. Waiting' \subseteq Waiting /\ OnTheWay \subseteq OnTheWay'
    BY <1>4 DEF SpuriousWakeup, Deadline, Goto, Waiting, OnTheWay, Account, BusTypeOK, Threads,
                Consumers
  <2> QED BY <1>0, <1>4, <2>1, AwakeGrows DEF SpuriousWakeup, Deadline, bus
<1>5. ASSUME NEW t \in Consumers, PopFails(t) PROVE Awake'
  <2>1. Waiting = {}
    BY <1>5 DEF PopFails, Awake
  <2>2. Waiting' = {}
    BY <1>5, <2>1 DEF PopFails, Goto, AfterError, Waiting, Account, BusTypeOK, Threads, Consumers
  <2> QED BY <2>2 DEF Awake
<1>6. ASSUME NEW t \in Consumers, PopEvent(t) PROVE Awake'
  <2>1. Waiting' = Waiting /\ t \in OnTheWay /\ OnTheWay' = OnTheWay \ {t}
    BY <1>6 DEF PopEvent, Goto, AfterOk, Waiting, OnTheWay, Account, BusTypeOK, Threads, Consumers
  <2>2. Len(queue') = Len(queue) - 1 /\ flushing' = flushing
    BY <1>0, <1>6, HeadTailProperties DEF PopEvent
  <2>3. IsFiniteSet(OnTheWay) /\ Cardinality(OnTheWay) \in Nat
    BY ConsumersFinite DEF OnTheWay
  <2>4. Cardinality(OnTheWay') = Cardinality(OnTheWay) - 1
    BY <2>1, <2>3, FS_RemoveElement
  <2> QED BY <1>0, <2>1, <2>2, <2>3, <2>4 DEF Awake
<1>7. ASSUME NEW d \in Dispatchers, ReadHandler(d) \/ CallHandler(d) \/ CheckExit(d)
      PROVE  Awake'
  <2>1. Waiting' \subseteq Waiting /\ OnTheWay \subseteq OnTheWay'
    BY <1>7 DEF ReadHandler, CallHandler, CheckExit, Goto, Waiting, OnTheWay, Account, BusTypeOK,
                Threads, Consumers
  <2> QED BY <1>0, <1>7, <2>1, AwakeGrows DEF ReadHandler, CallHandler, CheckExit, bus
<1>8. ASSUME NEW h, Install(Controller, h), queue' = queue, flushing' => flushing
      PROVE  Awake'
  <2>1. Waiting' \subseteq Waiting /\ OnTheWay \subseteq OnTheWay'
    BY <1>8 DEF Install, Unused, Goto, Waiting, OnTheWay, Account, BusTypeOK, BusPlaces, Threads,
                Consumers
  <2> QED BY <1>0, <1>8, <2>1, AwakeGrows
<1>9. ASSUME NEW l \in {"join", "destroy"}, Broadcast(Controller, l) PROVE Awake'
  <2>1. Waiting' = {}
    BY <1>9 DEF Broadcast, Waiting, Threads, Consumers
  <2> QED BY <2>1 DEF Awake
<1>10. CASE FreeBus
  <2>1. Cardinality(OnTheWay') \in Nat
    BY ConsumersFinite DEF OnTheWay
  <2>2. Waiting' = Waiting
    BY <1>10 DEF FreeBus, Goto, Waiting, Account, BusTypeOK, Threads, Consumers
  <2>3. Len(queue') = 0 /\ flushing' = flushing
    BY <1>10 DEF FreeBus
  <2> QED BY <2>1, <2>2, <2>3 DEF Awake
<1>11. CASE UNCHANGED busVars
  BY <1>11 DEF busVars, bus, Awake, Waiting, OnTheWay
<1>12. ASSUME NEW h \in Handlers \cup {NoHandler}, SetHandler(h) \/ StopThread(h)
       PROVE  Awake'
  BY <1>8, <1>9, <1>12 DEF SetHandler, StopThread
<1>13. CASE SwapHandler \/ Destroy
  BY <1>8, <1>9, <1>13 DEF SwapHandler, Destroy
<1> QED BY <1>1, <1>2, <1>3, <1>4, <1>5, <1>6, <1>7, <1>10, <1>11, <1>12, <1>13
        DEF BusNext, Pop, Dispatch, Control, Finish

\* No wakeup is lost between a post, a sleeping pop, its deadline, a dispatch
\* thread and the replacement of that thread: when all of them are at rest,
\* nobody sleeps beside a queued event (zst_bus.c:141-150, 166-186).
THEOREM BusNeverStuck == BusSpec => []NoStuckPop
<1>1. BusInit => Account /\ Awake
  BY AccountInit DEF BusInit, Awake, Waiting, Consumers, Threads
<1>2. Account /\ Awake /\ [BusNext]_busVars => Account' /\ Awake'
  BY AccountStep, AwakeStep
<1>3. Account /\ Awake => NoStuckPop
  <2> SUFFICES ASSUME Account, Awake, Waiting # {},
                      \A t \in Threads : pc[t] \in {"none", "run", "wait", "exited"}
               PROVE  queue = <<>>
    BY DEF NoStuckPop
  <2>1. OnTheWay = {}
    BY DEF OnTheWay, Consumers, Threads
  <2>2. Len(queue) <= 0
    BY <2>1, FS_EmptySet DEF Awake
  <2> QED BY <2>2, EmptySeq DEF Account, BusTypeOK
<1> QED BY <1>1, <1>2, <1>3, PTL DEF BusSpec

-----------------------------------------------------------------------------
(* The receivers.                                                           *)

-----------------------------------------------------------------------------
(* Induction, and what FlattenSeq computes.                                 *)

\* A set of numbers from 0 to N that has with each one the smaller ones is an
\* interval: its size tells where it ends.
LEMMA DownClosed ==
    ASSUME NEW N \in Nat, NEW B \in SUBSET (0 .. N), 0 \in B,
           \A i \in B : \A j \in 0 .. i : j \in B
    PROVE  \E c \in B : B = 0 .. c
<1>1. IsFiniteSet(B) /\ Cardinality(B) \in Nat
  <2>1. IsFiniteSet(0 .. N) BY FS_Interval
  <2> QED BY <2>1, FS_Subset, FS_CardinalityType
<1>2. ASSUME NEW k \in Nat, 0 .. k \subseteq B PROVE k + 1 <= Cardinality(B)
  <2>1. Cardinality(0 .. k) = k + 1 BY FS_Interval
  <2>2. Cardinality(0 .. k) <= Cardinality(B) BY <1>1, <1>2, FS_Subset
  <2> QED BY <2>1, <2>2, <1>1
<1>3. \A i \in B : i \in Nat /\ 0 .. i \subseteq B
  OBVIOUS
<1> DEFINE c == Cardinality(B) - 1
<1>4. c \in Nat
  <2>1. 0 + 1 <= Cardinality(B) BY <1>2, <1>3
  <2> QED BY <2>1, <1>1
<1>5. B \subseteq 0 .. c
  <2> SUFFICES ASSUME NEW i \in B PROVE i \in 0 .. c OBVIOUS
  <2>1. i + 1 <= Cardinality(B) BY <1>2, <1>3
  <2> QED BY <2>1, <1>1, <1>3
<1>6. B = 0 .. c
  <2>1. IsFiniteSet(0 .. c) /\ Cardinality(0 .. c) = c + 1 BY <1>4, FS_Interval
  <2>2. Cardinality(B) = Cardinality(0 .. c) BY <2>1, <1>1
  <2>3. \A S, T : IsFiniteSet(T) /\ S \subseteq T /\ Cardinality(S) = Cardinality(T) => S = T
    BY FS_Subset
  <2> HIDE DEF c
  <2> QED BY <2>1, <2>2, <2>3, <1>5
<1> HIDE DEF c
<1> QED BY <1>4, <1>6

\* The least number of a set, hence induction, with a set for the property.
LEMMA LeastNat ==
    ASSUME NEW T \in SUBSET Nat, T # {}
    PROVE  \E x \in T : \A y \in T : x <= y
<1>1. PICK t \in T : TRUE OBVIOUS
<1> DEFINE B == {x \in 0 .. t : \A y \in T : x <= y}
<1>2. t \in Nat /\ B \in SUBSET (0 .. t) /\ 0 \in B OBVIOUS
<1>3. \A i \in B : \A j \in 0 .. i : j \in B OBVIOUS
<1>4. PICK c \in B : B = 0 .. c
  <2> HIDE DEF B
  <2> QED BY <1>2, <1>3, DownClosed
<1>a. c \in Nat OBVIOUS
<1>5. c + 1 \notin B
  <2> HIDE DEF B
  <2> QED BY <1>4, <1>a
<1>6. PICK y \in T : y <= c
  BY <1>4, <1>5, <1>a
<1> QED BY <1>4, <1>6

LEMMA Induction ==
    ASSUME NEW P \in SUBSET Nat, 0 \in P, \A n \in P : n + 1 \in P
    PROVE  P = Nat
<1>1. SUFFICES ASSUME Nat \ P # {} PROVE FALSE OBVIOUS
<1>2. PICK x \in Nat \ P : \A y \in Nat \ P : x <= y
  <2>1. Nat \ P \in SUBSET Nat OBVIOUS
  <2> QED BY <2>1, <1>1, LeastNat
<1>3. x # 0 OBVIOUS
<1>4. x - 1 \in Nat /\ x - 1 < x BY <1>3
<1>5. x - 1 \in P BY <1>2, <1>4
<1> QED BY <1>5, <1>4

\* The accumulating function inside FlattenSeq
Acc(ss, n, f) ==
    f = [i \in 1 .. n |-> IF i = 1 THEN ss[i] ELSE f[i - 1] \o ss[i]]

\* It exists, for any number of sequences.
LEMMA AccExists ==
    ASSUME NEW ss, NEW n \in Nat
    PROVE  \E f : Acc(ss, n, f)
<1> DEFINE P == {k \in Nat : \E f : Acc(ss, k, f)}
<1>1. 0 \in P
  <2>1. Acc(ss, 0, [i \in 1 .. 0 |-> i]) BY DEF Acc
  <2> QED BY <2>1
<1>2. ASSUME NEW k \in P PROVE k + 1 \in P
  <2>1. PICK f : Acc(ss, k, f) OBVIOUS
  <2> DEFINE g == [i \in 1 .. k + 1 |-> IF i = k + 1 THEN (IF i = 1 THEN ss[i] ELSE f[i - 1] \o ss[i]) ELSE f[i]]
  <2>2. Acc(ss, k + 1, g)
    <3>1. ASSUME NEW i \in 1 .. k + 1 PROVE g[i] = IF i = 1 THEN ss[i] ELSE g[i - 1] \o ss[i]
      <4>1. CASE i = k + 1 
        BY <4>1
      <4>2. CASE i # k + 1
        <5>1. i \in 1 .. k BY <4>2
        <5>2. f[i] = IF i = 1 THEN ss[i] ELSE f[i - 1] \o ss[i] BY <5>1, <2>1 DEF Acc
        <5> QED BY <5>1, <5>2, <4>2
      <4> QED BY <4>1, <4>2
    <3> QED BY <3>1 DEF Acc
  <2> QED BY <2>2
<1>3. P = Nat
  <2>1. P \in SUBSET Nat OBVIOUS
  <2> HIDE DEF P
  <2> QED BY <2>1, <1>1, <1>2, Induction
<1> QED BY <1>3

\* FlattenSeq is its last value.
LEMMA FlattenAcc ==
    ASSUME NEW ss, Len(ss) \in Nat, Len(ss) # 0
    PROVE  \E f : Acc(ss, Len(ss), f) /\ FlattenSeq(ss) = f[Len(ss)]
<1> DEFINE F == CHOOSE f : f = [i \in 1 .. Len(ss) |-> IF i = 1 THEN ss[i] ELSE f[i - 1] \o ss[i]]
<1>1. \E f : Acc(ss, Len(ss), f) BY AccExists
<1>2. F = [i \in 1 .. Len(ss) |-> IF i = 1 THEN ss[i] ELSE F[i - 1] \o ss[i]]
  BY <1>1 DEF Acc
<1>3. FlattenSeq(ss) = F[Len(ss)]
  BY DEF FlattenSeq
<1> HIDE DEF F
<1> QED BY <1>2, <1>3 DEF Acc


\* t is the first m sequences of ss, one after the other: item i of it is item
\* q[i] of sequence o[i].
Joined(ss, t, m, o, q) ==
    /\ o \in [1 .. Len(t) -> 1 .. m] /\ q \in [1 .. Len(t) -> Nat]
    /\ \A i \in 1 .. Len(t) : q[i] \in 1 .. Len(ss[o[i]]) /\ t[i] = ss[o[i]][q[i]]
    /\ \A i, j \in 1 .. Len(t) :
          i < j => o[i] <= o[j] /\ (o[i] = o[j] => q[j] = q[i] + (j - i))
    /\ \A i \in 1 .. Len(t) :
          /\ i = 1 \/ o[i - 1] # o[i] => q[i] = 1
          /\ i = Len(t) \/ o[i + 1] # o[i] => q[i] = Len(ss[o[i]])

LEMMA JoinedNext ==
    ASSUME NEW S, NEW ss \in Seq(Seq(S)), NEW m \in Nat, m + 1 <= Len(ss),
           NEW t \in Seq(S), NEW o, NEW q, Joined(ss, t, m, o, q)
    PROVE  \E o2, q2 : Joined(ss, t \o ss[m + 1], m + 1, o2, q2)
<1> DEFINE u == ss[m + 1]
           tu == t \o u
           L == Len(t)
           M == Len(u)
           o2 == [i \in 1 .. L + M |-> IF i <= L THEN o[i] ELSE m + 1]
           q2 == [i \in 1 .. L + M |-> IF i <= L THEN q[i] ELSE i - L]
<1>1. u \in Seq(S) /\ L \in Nat /\ M \in Nat /\ tu \in Seq(S) /\ Len(tu) = L + M
  BY ConcatProperties
<1>2. \A i \in 1 .. L + M : tu[i] = IF i <= L THEN t[i] ELSE u[i - L]
  BY <1>1, ConcatProperties
<1>h1. o \in [1 .. L -> 1 .. m] /\ q \in [1 .. L -> Nat] BY DEF Joined
<1>h2. \A i \in 1 .. L : q[i] \in 1 .. Len(ss[o[i]]) /\ t[i] = ss[o[i]][q[i]] BY DEF Joined
<1>h3. \A i, j \in 1 .. L : i < j => o[i] <= o[j] /\ (o[i] = o[j] => q[j] = q[i] + (j - i))
  BY DEF Joined
<1>h4. \A i \in 1 .. L : i = 1 \/ o[i - 1] # o[i] => q[i] = 1
  BY DEF Joined
<1>h5. \A i \in 1 .. L : i = L \/ o[i + 1] # o[i] => q[i] = Len(ss[o[i]])
  BY DEF Joined
<1> HIDE DEF tu, L
<1>a. M = Len(ss[m + 1]) /\ u = ss[m + 1] OBVIOUS
<1>b. \A i \in 1 .. L + M : i \in 1 .. L \/ (i > L /\ i - L \in 1 .. M) BY <1>1
<1>c. \A i \in 1 .. L : o2[i] = o[i] /\ q2[i] = q[i] /\ o[i] \in 1 .. m BY <1>1, <1>h1
<1>d. \A i \in 1 .. L + M : i > L => o2[i] = m + 1 /\ q2[i] = i - L BY <1>1
<1>e. o2 \in [1 .. L + M -> 1 .. m + 1] /\ q2 \in [1 .. L + M -> Nat]
  BY <1>1, <1>h1
<1> HIDE DEF o2, q2, M, u
<1>f. m \in Nat /\ L \in Nat /\ M \in Nat BY <1>1
<1>3. \A i \in 1 .. L + M : q2[i] \in 1 .. Len(ss[o2[i]]) /\ tu[i] = ss[o2[i]][q2[i]]
  <2> TAKE i \in 1 .. L + M
  <2>1. CASE i \in 1 .. L
    <3>1. i <= L /\ tu[i] = t[i] BY <2>1, <1>2, <1>f
    <3>2. o2[i] = o[i] /\ q2[i] = q[i] BY <2>1, <1>c
    <3>3. q[i] \in 1 .. Len(ss[o[i]]) /\ t[i] = ss[o[i]][q[i]] BY <2>1, <1>h2
    <3> QED BY <3>1, <3>2, <3>3
  <2>2. CASE i > L /\ i - L \in 1 .. M
    <3>1. tu[i] = u[i - L] BY <2>2, <1>2, <1>f
    <3>2. o2[i] = m + 1 /\ q2[i] = i - L BY <2>2, <1>d
    <3> QED BY <3>1, <3>2, <2>2, <1>a
  <2> QED BY <2>1, <2>2, <1>b
<1>4. \A i, j \in 1 .. L + M : i < j => o2[i] <= o2[j] /\ (o2[i] = o2[j] => q2[j] = q2[i] + (j - i))
  <2> TAKE i, j \in 1 .. L + M
  <2> HAVE i < j
  <2>1. CASE i \in 1 .. L /\ j \in 1 .. L BY <2>1, <1>c, <1>h3
  <2>2. CASE i \in 1 .. L /\ j > L
    <3>1. o2[i] \in 1 .. m /\ o2[j] = m + 1 BY <2>2, <1>c, <1>d
    <3> QED BY <3>1, <1>f
  <2>3. CASE i > L /\ j > L BY <2>3, <1>1, <1>d
  <2> QED BY <2>1, <2>2, <2>3, <1>b, <1>1
<1>5. \A i \in 1 .. L + M : i = 1 \/ o2[i - 1] # o2[i] => q2[i] = 1
  <2> TAKE i \in 1 .. L + M
  <2> HAVE i = 1 \/ o2[i - 1] # o2[i]
  <2>1. CASE i \in 1 .. L
    <3>1. i = 1 \/ i - 1 \in 1 .. L BY <2>1, <1>f
    <3>2. i = 1 \/ o[i - 1] # o[i] BY <2>1, <3>1, <1>c
    <3>3. q[i] = 1 BY <3>2, <2>1, <1>h4
    <3> QED BY <3>3, <2>1, <1>c
  <2>2. CASE i > L /\ i - 1 \in 1 .. L
    BY <2>2, <1>d, <1>1
  <2>3. CASE i > L /\ i - 1 \notin 1 .. L
    <3>1. i = 1 \/ (i - 1 > L /\ i - 1 \in 1 .. L + M) BY <2>3, <1>1
    <3>2. CASE i = 1 BY <3>2, <2>3, <1>1, <1>d
    <3>3. CASE i # 1 BY <3>3, <3>1, <2>3, <1>1, <1>d
    <3> QED BY <3>2, <3>3
  <2> QED BY <2>1, <2>2, <2>3, <1>b
<1>6. \A i \in 1 .. L + M : i = L + M \/ o2[i + 1] # o2[i] => q2[i] = Len(ss[o2[i]])
  <2> TAKE i \in 1 .. L + M
  <2> HAVE i = L + M \/ o2[i + 1] # o2[i]
  <2>1. CASE i \in 1 .. L
    <3>1. i = L \/ i + 1 \in 1 .. L BY <2>1, <1>f
    <3>2. i = L \/ o[i + 1] # o[i]
      <4>1. CASE i # L
        <5>1. i # L + M BY <4>1, <2>1, <1>f
        <5> QED BY <5>1, <4>1, <3>1, <2>1, <1>c
      <4> QED BY <4>1
    <3>3. q[i] = Len(ss[o[i]]) BY <3>2, <2>1, <1>h5
    <3> QED BY <3>3, <2>1, <1>c
  <2>2. CASE i > L
    <3>1. i = L + M \/ (i + 1 \in 1 .. L + M /\ i + 1 > L) BY <2>2, <1>1
    <3>2. i = L + M BY <3>1, <2>2, <1>d
    <3>3. o2[i] = m + 1 /\ q2[i] = i - L BY <2>2, <1>d
    <3>4. i - L = M BY <3>2, <1>f
    <3> QED BY <3>3, <3>4, <1>a
  <2> QED BY <2>1, <2>2, <1>b
<1>7. Joined(ss, tu, m + 1, o2, q2)
  BY <1>1, <1>e, <1>3, <1>4, <1>5, <1>6 DEF Joined
<1> QED BY <1>7 DEF tu, u

LEMMA JoinedFirst ==
    ASSUME NEW S, NEW ss \in Seq(Seq(S)), 1 <= Len(ss)
    PROVE  \E o, q : Joined(ss, ss[1], 1, o, q)
<1> DEFINE o == [i \in 1 .. Len(ss[1]) |-> 1]
           q == [i \in 1 .. Len(ss[1]) |-> i]
<1>0. ss[1] \in Seq(S) /\ Len(ss[1]) \in Nat OBVIOUS
<1>1. Joined(ss, ss[1], 1, o, q)
  BY <1>0 DEF Joined
<1> QED BY <1>1

LEMMA FlattenJoined ==
    ASSUME NEW S, NEW ss \in Seq(Seq(S))
    PROVE  /\ FlattenSeq(ss) \in Seq(S)
           /\ \E o, q : Joined(ss, FlattenSeq(ss), Len(ss), o, q)
<1>1. CASE Len(ss) = 0
  <2>1. FlattenSeq(ss) = ss /\ ss = << >> BY <1>1 DEF FlattenSeq
  <2>2. Joined(ss, ss, 0, << >>, << >>)
    <3>1. 1 .. Len(ss) = {} BY <1>1
    <3>2. << >> \in [{} -> 1 .. 0] /\ << >> \in [{} -> Nat] OBVIOUS
    <3> QED BY <3>1, <3>2 DEF Joined
  <2> QED BY <2>1, <2>2, <1>1
<1>2. CASE Len(ss) # 0
  <2>1. PICK f : Acc(ss, Len(ss), f) /\ FlattenSeq(ss) = f[Len(ss)]
    BY <1>2, FlattenAcc
  <2>2. \A i \in 1 .. Len(ss) : f[i] = IF i = 1 THEN ss[i] ELSE f[i - 1] \o ss[i]
    BY <2>1 DEF Acc
  <2> DEFINE P == {k \in Nat : k + 1 <= Len(ss) => /\ f[k + 1] \in Seq(S)
                                                   /\ \E o, q : Joined(ss, f[k + 1], k + 1, o, q)}
  <2>3. 0 \in P
    <3>1. 1 <= Len(ss) => f[1] = ss[1] BY <2>2
    <3>2. 1 <= Len(ss) => \E o, q : Joined(ss, f[1], 1, o, q) BY <3>1, JoinedFirst
    <3> QED BY <3>1, <3>2
  <2>4. ASSUME NEW k \in P PROVE k + 1 \in P
    <3> SUFFICES ASSUME (k + 1) + 1 <= Len(ss)
                 PROVE  f[(k + 1) + 1] \in Seq(S) /\ \E o, q : Joined(ss, f[(k + 1) + 1], (k + 1) + 1, o, q)
      OBVIOUS
    <3>0. k \in Nat OBVIOUS
    <3>1. f[k + 1] \in Seq(S) /\ \E o, q : Joined(ss, f[k + 1], k + 1, o, q)
      BY <3>0
    <3>2. f[(k + 1) + 1] = f[k + 1] \o ss[(k + 1) + 1]
      <4>1. (k + 1) + 1 \in 1 .. Len(ss) /\ (k + 1) + 1 # 1 /\ ((k + 1) + 1) - 1 = k + 1 BY <3>0
      <4> QED BY <4>1, <2>2
    <3>3. PICK o, q : Joined(ss, f[k + 1], k + 1, o, q) BY <3>1
    <3>4. \E o2, q2 : Joined(ss, f[k + 1] \o ss[(k + 1) + 1], (k + 1) + 1, o2, q2)
      <4>1. k + 1 \in Nat BY <3>0
      <4> HIDE DEF P
      <4> QED BY <4>1, <3>1, <3>3, JoinedNext
    <3>5. ss[(k + 1) + 1] \in Seq(S) BY <3>0
    <3> QED BY <3>1, <3>2, <3>4, <3>5, ConcatProperties
  <2>5. P = Nat
    <3>1. P \in SUBSET Nat OBVIOUS
    <3> HIDE DEF P
    <3> QED BY <3>1, <2>3, <2>4, Induction
  <2>6. Len(ss) - 1 \in Nat /\ (Len(ss) - 1) + 1 = Len(ss) BY <1>2
  <2>7. Len(ss) - 1 \in P BY <2>5, <2>6
  <2> QED BY <2>1, <2>6, <2>7
<1> QED BY <1>1, <1>2

-----------------------------------------------------------------------------
(* The packets of a stream.                                                 *)

\* One access unit: all its packets carry its number; for video they carry its
\* timestamp too, the first one starts a NAL unit and only the last one can
\* have the marker; for PCM the last one has it.
UnitShape(u, a, codec) ==
    /\ u \in Seq(Packet)
    /\ \A i \in 1 .. Len(u) : u[i].au = a
    /\ codec \notin {"aac", "pcm"} =>
          /\ \A i \in 1 .. Len(u) : u[i].ts = 10 * a
          /\ \A i \in 1 .. Len(u) : i = 1 => u[i].start
          /\ \A i \in 1 .. Len(u) : u[i].marker => i = Len(u)
    /\ codec = "pcm" => \A i \in 1 .. Len(u) : i = Len(u) => u[i].marker

\* The whole stream: the access units follow each other.
StreamShape(p, codec) ==
    /\ p \in Seq(Packet)
    /\ \A i, j \in 1 .. Len(p) : i < j => p[i].au <= p[j].au
    /\ codec \notin {"aac", "pcm"} =>
          /\ \A i \in 1 .. Len(p) : p[i].ts = 10 * p[i].au
          /\ \A i \in 1 .. Len(p) : i = 1 \/ p[i - 1].au # p[i].au => p[i].start
          /\ \A i, j \in 1 .. Len(p) : i < j /\ p[i].marker => p[i].au # p[j].au
    /\ codec = "pcm" =>
          \A i \in 1 .. Len(p) : i # Len(p) /\ p[i + 1].au # p[i].au => p[i].marker

LEMMA NalShape ==
    ASSUME NEW a \in Nat, NEW nals \in Seq(Nat)
    PROVE  UnitShape(Packetize(a, nals), a, "h264")
<1> DEFINE pkt(j, i) == [au |-> a, ts |-> 10 * a, start |-> i = 1,
                         marker |-> j = Len(nals) /\ i = nals[j]]
           ss == [j \in DOMAIN nals |-> [i \in 1 .. nals[j] |-> pkt(j, i)]]
           u == FlattenSeq(ss)
<1>1. \A j, i : /\ pkt(j, i) \in Packet /\ pkt(j, i).au = a /\ pkt(j, i).ts = 10 * a
                /\ pkt(j, i).start <=> i = 1
                /\ pkt(j, i).marker <=> j = Len(nals) /\ i = nals[j]
  <2>1. 10 * a \in Nat
    OBVIOUS
  <2> QED BY <2>1, Zenon DEF Packet
<1>2. ss \in Seq(Seq(Packet)) /\ Len(ss) = Len(nals)
  <2>1. \A j \in DOMAIN nals : ss[j] \in Seq(Packet)
    <3>1. \A j, i : pkt(j, i) \in Packet
      BY <1>1
    <3> HIDE DEF pkt
    <3> QED BY <3>1
  <2> QED BY <2>1
<1>3. \A j \in 1 .. Len(nals) : /\ Len(ss[j]) = nals[j]
                                /\ \A i \in 1 .. nals[j] : ss[j][i] = pkt(j, i)
  <2> HIDE DEF pkt
  <2> QED OBVIOUS
<1> HIDE DEF ss, pkt
<1>4. u \in Seq(Packet)
  BY <1>2, FlattenJoined
<1>5. PICK o, q : Joined(ss, u, Len(ss), o, q)
  BY <1>2, FlattenJoined
<1> HIDE DEF u
<1>6. o \in [1 .. Len(u) -> 1 .. Len(nals)] /\ q \in [1 .. Len(u) -> Nat]
  BY <1>2, <1>5 DEF Joined
<1>7. \A i \in 1 .. Len(u) : q[i] \in 1 .. nals[o[i]] /\ u[i] = pkt(o[i], q[i])
  <2> TAKE i \in 1 .. Len(u)
  <2>1. q[i] \in 1 .. Len(ss[o[i]]) /\ u[i] = ss[o[i]][q[i]]
    BY <1>5 DEF Joined
  <2>2. o[i] \in 1 .. Len(nals)
    BY <1>6
  <2> HIDE DEF pkt
  <2> QED BY <2>1, <2>2, <1>3
<1>8. \A i \in 1 .. Len(u) : u[i].au = a /\ u[i].ts = 10 * a
  BY <1>1, <1>7
<1>9. \A i \in 1 .. Len(u) : i = 1 => u[i].start
  <2> SUFFICES ASSUME NEW i \in 1 .. Len(u), i = 1 PROVE u[i].start
    OBVIOUS
  <2>1. q[i] = 1
    BY <1>5 DEF Joined
  <2> QED BY <2>1, <1>1, <1>7
<1>10. \A i \in 1 .. Len(u) : u[i].marker => i = Len(u)
  <2> SUFFICES ASSUME NEW i \in 1 .. Len(u), u[i].marker, i # Len(u) PROVE FALSE
    OBVIOUS
  <2>1. o[i] = Len(nals) /\ q[i] = nals[o[i]]
    BY <1>1, <1>7
  <2>2. i + 1 \in 1 .. Len(u) /\ i < i + 1
    BY <1>4
  <2>3. o[i] <= o[i + 1] /\ (o[i] = o[i + 1] => q[i + 1] = q[i] + ((i + 1) - i))
    BY <2>2, <1>5 DEF Joined
  <2>4. o[i + 1] = o[i]
    BY <2>1, <2>2, <2>3, <1>6
  <2>5. q[i + 1] \in 1 .. nals[o[i]] /\ nals[o[i]] \in Nat
    <3>1. q[i + 1] \in 1 .. nals[o[i + 1]] /\ o[i] \in 1 .. Len(nals)
      BY <2>2, <1>6, <1>7
    <3> QED BY <3>1, <2>4
  <2> QED BY <2>1, <2>3, <2>4, <2>5
<1> QED BY <1>4, <1>8, <1>9, <1>10 DEF UnitShape, Packetize, u, ss, pkt

LEMMA PcmShape ==
    ASSUME NEW a \in Nat, NEW nals \in Seq(Nat)
    PROVE  UnitShape(PacketizePcm(a, nals), a, "pcm")
<1> DEFINE w == Packetize(a, nals)
<1>1. w \in Seq(Packet) /\ \A i \in 1 .. Len(w) : w[i].au = a
  BY NalShape DEF UnitShape
<1> HIDE DEF w
<1> DEFINE pkt(i) == [w[i] EXCEPT !.ts = 10 * a + i, !.start = TRUE, !.marker = i = Len(w)]
           u == [i \in DOMAIN w |-> pkt(i)]
<1>2. Len(w) \in Nat /\ DOMAIN w = 1 .. Len(w) /\ \A i \in 1 .. Len(w) : w[i] \in Packet
  BY <1>1
<1>3. \A i \in 1 .. Len(w) : pkt(i) \in Packet /\ pkt(i).au = a /\ (pkt(i).marker <=> i = Len(w))
  <2> TAKE i \in 1 .. Len(w)
  <2>1. 10 * a + i \in Nat
    BY <1>2
  <2>2. w[i] \in Packet /\ w[i].au = a
    BY <1>1, <1>2
  <2> QED BY <2>1, <2>2, Zenon DEF Packet
<1> HIDE DEF pkt
<1>4. u \in Seq(Packet) /\ Len(u) = Len(w) /\ \A i \in 1 .. Len(u) : u[i] = pkt(i)
  <2>1. u = [i \in 1 .. Len(w) |-> pkt(i)]
    BY <1>2
  <2>2. \A i \in 1 .. Len(w) : pkt(i) \in Packet
    BY <1>3
  <2> HIDE DEF u
  <2>3. u \in [1 .. Len(w) -> Packet]
    BY <2>1, <2>2
  <2>4. u \in Seq(Packet) /\ Len(u) = Len(w)
    BY <2>3, <1>2
  <2> QED BY <2>1, <2>4
<1>5. UnitShape(u, a, "pcm")
  <2> HIDE DEF u
  <2>1. \A i \in 1 .. Len(u) : u[i].au = a /\ (i = Len(u) => u[i].marker)
    BY <1>3, <1>4
  <2> QED BY <2>1, <1>4 DEF UnitShape
<1> QED BY <1>5 DEF PacketizePcm, w, u, pkt

LEMMA AacShape ==
    ASSUME NEW a \in Nat, NEW nals
    PROVE  UnitShape(PacketizeAac(a, nals), a, "aac")
BY DEF UnitShape, PacketizeAac, Packet

LEMMA StreamShaped ==
    ASSUME NEW s \in Seq(Seq(Nat)), NEW codec
    PROVE  StreamShape(PacketsOf(s, codec), codec)
<1> DEFINE unit(a) == IF codec = "pcm" THEN PacketizePcm(a, s[a])
                      ELSE IF codec = "aac" THEN PacketizeAac(a, s[a])
                      ELSE Packetize(a, s[a])
           ss == [a \in DOMAIN s |-> unit(a)]
           p == FlattenSeq(ss)
<1>1. \A a \in 1 .. Len(s) : UnitShape(unit(a), a, codec)
  <2> TAKE a \in 1 .. Len(s)
  <2>1. a \in Nat /\ s[a] \in Seq(Nat)
    OBVIOUS
  <2>2. CASE codec = "pcm"
    BY <2>1, <2>2, PcmShape
  <2>3. CASE codec = "aac"
    BY <2>1, <2>3, AacShape
  <2>4. CASE codec \notin {"pcm", "aac"}
    BY <2>1, <2>4, NalShape DEF UnitShape
  <2> QED BY <2>2, <2>3, <2>4
<1> HIDE DEF unit
<1>2. /\ ss \in Seq(Seq(Packet)) /\ Len(ss) = Len(s)
      /\ \A a \in 1 .. Len(s) : UnitShape(ss[a], a, codec)
  <2>1. \A a \in 1 .. Len(s) : unit(a) \in Seq(Packet)
    BY <1>1 DEF UnitShape
  <2>2. DOMAIN ss = 1 .. Len(s) /\ Len(s) \in Nat /\ \A a \in 1 .. Len(s) : ss[a] = unit(a)
    OBVIOUS
  <2>3. ss \in Seq(Seq(Packet)) /\ Len(ss) = Len(s)
    BY <2>1, <2>2
  <2> QED BY <2>2, <2>3, <1>1
<1> HIDE DEF ss
<1>3. p \in Seq(Packet)
  BY <1>2, FlattenJoined
<1>4. PICK o, q : Joined(ss, p, Len(ss), o, q)
  BY <1>2, FlattenJoined
<1> HIDE DEF p
<1>5. \A i \in 1 .. Len(p) :
         /\ o[i] \in 1 .. Len(s) /\ q[i] \in 1 .. Len(ss[o[i]]) /\ p[i] = ss[o[i]][q[i]]
         /\ UnitShape(ss[o[i]], o[i], codec)
  BY <1>2, <1>4 DEF Joined
<1>6. \A i, j \in 1 .. Len(p) :
          i < j => o[i] <= o[j] /\ (o[i] = o[j] => q[j] = q[i] + (j - i))
  BY <1>4 DEF Joined
<1>7. \A i \in 1 .. Len(p) : i = 1 \/ o[i - 1] # o[i] => q[i] = 1
  BY <1>4 DEF Joined
<1>8. \A i \in 1 .. Len(p) : i = Len(p) \/ o[i + 1] # o[i] => q[i] = Len(ss[o[i]])
  BY <1>4 DEF Joined
<1>9. \A i \in 1 .. Len(p) : p[i].au = o[i]
  <2> TAKE i \in 1 .. Len(p)
  <2>1. \A k \in 1 .. Len(ss[o[i]]) : ss[o[i]][k].au = o[i]
    BY <1>5 DEF UnitShape
  <2> QED BY <2>1, <1>5
<1>10. \A i, j \in 1 .. Len(p) : i < j => p[i].au <= p[j].au
  BY <1>6, <1>9
<1>11. ASSUME codec \notin {"aac", "pcm"}
       PROVE  /\ \A i \in 1 .. Len(p) : p[i].ts = 10 * p[i].au
              /\ \A i \in 1 .. Len(p) : i = 1 \/ p[i - 1].au # p[i].au => p[i].start
              /\ \A i, j \in 1 .. Len(p) : i < j /\ p[i].marker => p[i].au # p[j].au
  <2>1. \A i \in 1 .. Len(p) : /\ p[i].ts = 10 * o[i]
                               /\ q[i] = 1 => p[i].start
                               /\ p[i].marker => q[i] = Len(ss[o[i]])
    <3> TAKE i \in 1 .. Len(p)
    <3>1. \A k \in 1 .. Len(ss[o[i]]) : /\ ss[o[i]][k].ts = 10 * o[i]
                                        /\ k = 1 => ss[o[i]][k].start
                                        /\ ss[o[i]][k].marker => k = Len(ss[o[i]])
      BY <1>5, <1>11 DEF UnitShape
    <3>2. q[i] \in 1 .. Len(ss[o[i]]) /\ p[i] = ss[o[i]][q[i]]
      BY <1>5
    <3> QED BY <3>1, <3>2, Zenon
  <2>2. \A i \in 1 .. Len(p) : i = 1 \/ p[i - 1].au # p[i].au => p[i].start
    <3> SUFFICES ASSUME NEW i \in 1 .. Len(p), i = 1 \/ p[i - 1].au # p[i].au
                 PROVE  p[i].start
      OBVIOUS
    <3>1. i = 1 \/ i - 1 \in 1 .. Len(p)
      BY <1>3
    <3>2. i = 1 \/ o[i - 1] # o[i]
      BY <3>1, <1>9
    <3> QED BY <3>2, <1>7, <2>1
  <2>3. ASSUME NEW i \in 1 .. Len(p), NEW j \in 1 .. Len(p), i < j, p[i].marker, p[i].au = p[j].au
        PROVE  FALSE
    <3>1. o[i] = o[j] /\ q[i] = Len(ss[o[i]])
      BY <2>1, <2>3, <1>9
    <3>2. q[j] = q[i] + (j - i)
      BY <2>3, <3>1, <1>6
    <3>3. q[j] \in 1 .. Len(ss[o[i]]) /\ Len(ss[o[i]]) \in Nat
      BY <3>1, <1>5 DEF UnitShape
    <3> QED BY <2>3, <3>1, <3>2, <3>3
  <2> QED BY <2>1, <2>2, <2>3, <1>9
<1>12. ASSUME codec = "pcm", NEW i \in 1 .. Len(p), i # Len(p), p[i + 1].au # p[i].au
       PROVE  p[i].marker
  <2>1. i + 1 \in 1 .. Len(p)
    BY <1>12, <1>3
  <2>2. o[i + 1] # o[i]
    BY <2>1, <1>9, <1>12
  <2>3. q[i] = Len(ss[o[i]])
    BY <2>2, <1>8
  <2>4. UnitShape(ss[o[i]], o[i], codec) /\ q[i] \in 1 .. Len(ss[o[i]]) /\ p[i] = ss[o[i]][q[i]]
    BY <1>5
  <2> QED BY <2>3, <2>4, <1>12 DEF UnitShape
<1>13. p = PacketsOf(s, codec)
  BY DEF p, ss, unit, PacketsOf
<1>14. StreamShape(p, codec)
  BY <1>3, <1>10, <1>11, <1>12 DEF StreamShape
<1> QED BY <1>13, <1>14

-----------------------------------------------------------------------------
(* Sequence numbers.  The rest of the proof never expands Seqno or Diff.    *)

LEMMA DivisionFact ==
    ASSUME NEW m \in Nat \ {0}, NEW a \in Int
    PROVE  /\ a = m * (a \div m) + (a % m)
           /\ (a \div m) \in Int
           /\ (a % m) \in 0 .. m - 1
OBVIOUS

LEMMA SmallMultiple ==
    ASSUME NEW m \in Nat \ {0}, NEW q \in Int, -m < m * q, m * q < m
    PROVE  q = 0
<1>1. ASSUME q >= 1 PROVE FALSE
  <2>1. m * q >= m * 1
    BY <1>1
  <2> QED BY <2>1
<1>2. ASSUME q <= -1 PROVE FALSE
  <2>1. m * q <= m * (-1)
    BY <1>2
  <2> QED BY <2>1
<1> QED BY <1>1, <1>2

LEMMA Distribute ==
    ASSUME NEW m \in Int, NEW p \in Int, NEW q \in Int
    PROVE  /\ m * p \in Int /\ m * q \in Int /\ m * (p - q) = m * p - m * q
           /\ m * (p + q) = m * p + m * q
OBVIOUS

\* A remainder is the only one there is.
LEMMA RemainderIs ==
    ASSUME NEW m \in Nat \ {0}, NEW a \in Int, NEW q \in Int, NEW r \in 0 .. m - 1,
           a = m * q + r
    PROVE  a % m = r
<1> DEFINE p == a \div m
           t == a % m
           x == m * p
           y == m * q
<1>1. p \in Int /\ t \in 0 .. m - 1 /\ a = x + t /\ a = y + r
  BY DivisionFact
<1> HIDE DEF p, t
<1>2. x \in Int /\ y \in Int /\ m * (p - q) = x - y /\ p - q \in Int
  BY <1>1, Distribute
<1> HIDE DEF x, y
<1>3. x - y = r - t /\ -m < r - t /\ r - t < m
  BY <1>1, <1>2
<1> DEFINE z == p - q
<1>4. z \in Int /\ -m < m * z /\ m * z < m
  BY <1>2, <1>3
<1> HIDE DEF z
<1>5. z = 0 /\ m * 0 = 0
  BY <1>4, SmallMultiple
<1>6. m * (p - q) = 0
  BY <1>5 DEF z
<1>7. t = r
  BY <1>1, <1>2, <1>3, <1>6
<1> QED BY <1>7 DEF t

\* Numbers less than m apart with the same remainder are the same.
LEMMA SameRemainder ==
    ASSUME NEW m \in Nat \ {0}, NEW a \in Int, NEW b \in Int,
           a - b < m, b - a < m, a % m = b % m
    PROVE  a = b
<1>1. PICK p \in Int : a = m * p + (a % m)
  BY DivisionFact
<1>2. PICK q \in Int : b = m * q + (b % m)
  BY DivisionFact
<1>3. m * p \in Int /\ m * q \in Int /\ m * (p - q) = m * p - m * q /\ (a % m) \in Int
  BY DivisionFact
<1>4. m * (p - q) = a - b
  BY <1>1, <1>2, <1>3
<1>5. p - q = 0
  <2>1. p - q \in Int /\ -m < a - b
    OBVIOUS
  <2> QED BY <2>1, <1>4, SmallMultiple
<1>6. m * (p - q) = 0
  BY <1>5
<1> QED BY <1>4, <1>6

\* Adding before or after taking the remainder.
LEMMA RemainderOfSum ==
    ASSUME NEW m \in Nat \ {0}, NEW a \in Int, NEW b \in Int
    PROVE  ((a % m) + b) % m = (a + b) % m
<1>1. PICK p \in Int : a = m * p + (a % m)
  BY DivisionFact
<1>2. PICK q \in Int, t \in 0 .. m - 1 : (a % m) + b = m * q + t /\ t = ((a % m) + b) % m
  <2>1. (a % m) + b \in Int
    BY DivisionFact
  <2> QED BY <2>1, DivisionFact
<1>3. m * p \in Int /\ m * q \in Int /\ m * (p + q) = m * p + m * q /\ (a % m) \in Int
  BY DivisionFact
<1> DEFINE s == p + q
           c == a + b
<1>4. s \in Int /\ c \in Int /\ c = m * s + t
  <2> DEFINE x == m * p
             y == m * q
             e == a % m
  <2>1. x \in Int /\ y \in Int /\ m * s = x + y /\ e \in Int /\ a = x + e /\ e + b = y + t
    BY <1>1, <1>2, <1>3
  <2> HIDE DEF x, y, e
  <2> QED BY <2>1
<1> HIDE DEF s, c
<1>5. c % m = t
  BY <1>4, RemainderIs
<1> QED BY <1>2, <1>5 DEF c

\* The remainder by a divisor of the modulus.
LEMMA RemainderTwice ==
    ASSUME NEW m \in Nat \ {0}, NEW h \in Nat \ {0}, m % h = 0, NEW a \in Int
    PROVE  (a % m) % h = a % h
<1>1. PICK c \in Int : m = h * c
  <2>1. m = h * (m \div h) + (m % h) /\ (m \div h) \in Int
    BY DivisionFact
  <2> QED BY <2>1
<1>2. PICK p \in Int : a = m * p + (a % m)
  BY DivisionFact
<1>3. (a % m) \in Int
  BY DivisionFact
<1>4. PICK q \in Int, t \in 0 .. h - 1 : a % m = h * q + t /\ t = (a % m) % h
  BY <1>3, DivisionFact
<1> DEFINE k == c * p
           s == k + q
<1>5. k \in Int /\ m * p = h * k
  BY <1>1
<1> HIDE DEF k
<1>6. s \in Int /\ a = h * s + t
  <2> DEFINE x == h * k
             y == h * q
             e == a % m
  <2>1. x \in Int /\ y \in Int /\ h * s = x + y
    BY <1>5, Distribute
  <2>2. e \in Int /\ a = x + e /\ e = y + t /\ s \in Int
    BY <1>2, <1>3, <1>4, <1>5
  <2> HIDE DEF x, y, e, s
  <2> QED BY <2>1, <2>2
<1> HIDE DEF s
<1>7. a % h = t
  BY <1>6, RemainderIs
<1> QED BY <1>4, <1>7

LEMMA Constants ==
    /\ Modulus \in Nat \ {0} /\ History \in Nat \ {0} /\ Capacity \in Nat \ {0}
    /\ FirstSeq \in Nat /\ History < Modulus
BY ReceiverConstants

LEMMA SeqnoType ==
    ASSUME NEW n \in Nat \ {0} PROVE Seqno(n) \in 0 .. Modulus - 1
<1>1. FirstSeq + n - 1 \in Int
  BY Constants
<1> QED BY <1>1, Constants, DivisionFact DEF Seqno

LEMMA SeqnoSum ==
    ASSUME NEW n \in Nat \ {0}, NEW i \in Nat
    PROVE  (Seqno(n) + i) % Modulus = Seqno(n + i)
<1>1. FirstSeq + n - 1 \in Int /\ FirstSeq + (n + i) - 1 = (FirstSeq + n - 1) + i
  BY Constants
<1>2. Modulus \in Nat \ {0}
  BY Constants
<1>3. (((FirstSeq + n - 1) % Modulus) + i) % Modulus = ((FirstSeq + n - 1) + i) % Modulus
  <2> DEFINE a == FirstSeq + n - 1
  <2>1. a \in Int /\ i \in Int
    BY <1>1
  <2> HIDE DEF a
  <2>2. ((a % Modulus) + i) % Modulus = (a + i) % Modulus
    BY <1>2, <2>1, RemainderOfSum
  <2> QED BY <2>2 DEF a
<1> QED BY <1>1, <1>3 DEF Seqno

\* Packets less than a cycle apart have different sequence numbers.
LEMMA SeqnoInjective ==
    ASSUME NEW n \in Nat \ {0}, NEW m \in Nat \ {0}, n - m < Modulus, m - n < Modulus,
           Seqno(n) = Seqno(m)
    PROVE  n = m
<1>1. /\ FirstSeq + n - 1 \in Int /\ FirstSeq + m - 1 \in Int /\ Modulus \in Nat \ {0}
      /\ (FirstSeq + n - 1) - (FirstSeq + m - 1) < Modulus
      /\ (FirstSeq + m - 1) - (FirstSeq + n - 1) < Modulus
  BY Constants
<1>2. (FirstSeq + n - 1) % Modulus = (FirstSeq + m - 1) % Modulus
  BY DEF Seqno
<1>3. FirstSeq + n - 1 = FirstSeq + m - 1
  <2> DEFINE a == FirstSeq + n - 1
             b == FirstSeq + m - 1
  <2>1. a \in Int /\ b \in Int /\ a - b < Modulus /\ b - a < Modulus /\ a % Modulus = b % Modulus
    BY <1>1, <1>2
  <2> HIDE DEF a, b
  <2>2. a = b
    BY <1>1, <2>1, SameRemainder
  <2> QED BY <2>2 DEF a, b
<1> QED BY <1>3, Constants

\* The signed difference of two sequence numbers tells how far apart packets
\* are that are near each other.
LEMMA DiffIs ==
    ASSUME NEW n \in Nat \ {0}, NEW m \in Nat \ {0}, Near(n, m)
    PROVE  Diff(Seqno(n), Seqno(m)) = n - m
<1> DEFINE a == FirstSeq + n - 1
           b == FirstSeq + m - 1
           d == (Seqno(n) - Seqno(m)) % Modulus
<1>1. a \in Int /\ b \in Int /\ a - b = n - m /\ Modulus \in Nat \ {0}
  BY Constants
<1>2. Seqno(n) = a % Modulus /\ Seqno(m) = b % Modulus
  BY DEF Seqno
<1>n. 2 * (n - m) < Modulus /\ 2 * (m - n) < Modulus
  BY DEF Near
<1> DEFINE sn == Seqno(n)
           sm == Seqno(m)
           p == a \div Modulus
           q == b \div Modulus
           x == Modulus * p
           y == Modulus * q
           e == sn - sm
<1> HIDE DEF a, b
<1>3. p \in Int /\ q \in Int /\ a = x + sn /\ b = y + sm
  BY <1>1, <1>2, DivisionFact
<1>4. sn \in Int /\ sm \in Int
  BY SeqnoType
<1> HIDE DEF p, q
<1>5. x \in Int /\ y \in Int /\ Modulus * (q - p) = y - x
  BY <1>1, <1>3, Distribute
<1> HIDE DEF x, y, sn, sm
<1>6. e \in Int /\ e = (y - x) + (n - m)
  BY <1>1, <1>3, <1>4, <1>5
<1> HIDE DEF e
<1>7. CASE n >= m
  <2> DEFINE r == n - m
             k == q - p
  <2>1. r \in 0 .. Modulus - 1 /\ k \in Int /\ e = Modulus * k + r
    BY <1>7, <1>1, <1>n, <1>3, <1>5, <1>6
  <2> HIDE DEF r, k
  <2>2. e % Modulus = r
    BY <2>1, <1>1, <1>6, RemainderIs
  <2>3. d = r
    BY <2>2 DEF e, sn, sm
  <2> HIDE DEF d
  <2>4. ~(2 * d >= Modulus) /\ d = n - m
    BY <2>3, <1>1, <1>n DEF r
  <2> QED BY <2>4 DEF Diff, d
<1>8. CASE n < m
  <2> DEFINE r == (n - m) + Modulus
             k == (q - p) - 1
  <2>1. r \in 0 .. Modulus - 1 /\ k \in Int
    BY <1>8, <1>1, <1>n, <1>3
  <2>2. Modulus * k = (y - x) - Modulus
    <3> DEFINE g == q - p
    <3>1. g \in Int /\ Modulus * g = y - x
      BY <1>3, <1>5
    <3> HIDE DEF g
    <3>2. Modulus * (g - 1) = Modulus * g - Modulus * 1 /\ Modulus * 1 = Modulus
      BY <3>1, <1>1, Distribute
    <3>3. Modulus * (g - 1) = (y - x) - Modulus
      BY <3>1, <3>2
    <3> QED BY <3>3 DEF g
  <2>3. e = Modulus * k + r
    <3> DEFINE w == Modulus * k
    <3>1. w = (y - x) - Modulus
      BY <2>2
    <3> HIDE DEF w, k
    <3>2. e = w + r
      BY <3>1, <1>1, <1>5, <1>6
    <3> QED BY <3>2 DEF w
  <2> HIDE DEF r, k
  <2>4. e % Modulus = r
    BY <2>1, <2>3, <1>1, <1>6, RemainderIs
  <2>5. d = r
    BY <2>4 DEF e, sn, sm
  <2> HIDE DEF d
  <2>6. 2 * d >= Modulus /\ d - Modulus = n - m
    BY <2>5, <1>1, <1>n DEF r
  <2> QED BY <2>6 DEF Diff, d
<1> QED BY <1>7, <1>8

\* The history has an entry for a packet, and the same one for another only
\* when they are History or more apart.
LEMMA EntryType ==
    ASSUME NEW n \in Nat \ {0} PROVE Entry(Seqno(n)) \in 0 .. History - 1
<1>1. Seqno(n) \in Int
  BY SeqnoType
<1> QED BY <1>1, Constants, DivisionFact DEF Entry

LEMMA EntryInjective ==
    ASSUME NEW n \in Nat \ {0}, NEW m \in Nat \ {0}, n - m < History, m - n < History,
           Entry(Seqno(n)) = Entry(Seqno(m))
    PROVE  n = m
<1> DEFINE a == FirstSeq + n - 1
           b == FirstSeq + m - 1
<1>1. /\ a \in Int /\ b \in Int /\ a - b < History /\ b - a < History
      /\ Modulus \in Nat \ {0} /\ History \in Nat \ {0} /\ Modulus % History = 0
  BY Constants, ReceiverConstants
<1>2. Entry(Seqno(n)) = (a % Modulus) % History /\ Entry(Seqno(m)) = (b % Modulus) % History
  BY DEF Entry, Seqno
<1> HIDE DEF a, b
<1>3. a % History = b % History
  BY <1>1, <1>2, RemainderTwice
<1>4. a = b
  BY <1>1, <1>3, SameRemainder
<1> QED BY <1>4, Constants DEF a, b

-----------------------------------------------------------------------------
(* The depayloader.  What follows speaks of a record d, for depay and for   *)
(* the values the code passes through between two packets.                  *)

Places == 1 .. Len(packets)

DepayType ==
    [have : BOOLEAN, next : 0 .. Modulus - 1, pending : BOOLEAN, active : BOOLEAN,
     ts : Nat, data : Seq(Places), out : [data : Seq(Places), flagged : BOOLEAN, eos : BOOLEAN],
     first : Places \cup {None}, last : Places \cup {None}, ended : BOOLEAN]

Au(n) == packets[n].au

\* Packets that follow each other in one access unit
Span(data) ==
    \A i \in 1 .. Len(data) : data[i] = data[1] + i - 1 /\ Au(data[i]) = Au(data[1])

BeginsUnit(n) == \A i \in Places : Au(i) = Au(n) => n <= i
EndsUnit(n)   == \A i \in Places : Au(i) = Au(n) => i <= n

\* UnflaggedWhole, of d
Whole(d) ==
    LET out  == d.out
        unit == UnitOf(out.data[1])
    IN  role = "h264" /\ out.data # <<>> /\ ~out.flagged =>
            \/ HoldsExactly(out.data, unit)
            \/ d.first \in unit /\ HoldsExactly(out.data, {i \in unit : i >= out.data[1]})
            \/ out.eos

\* What was received, and what went out
Received(d) ==
    /\ d \in DepayType
    /\ d.have => d.first \in Places /\ d.last \in Places /\ d.next = Seqno(d.last + 1)
    /\ ~d.have => ~d.active /\ ~d.pending /\ d.out.data = <<>>
    /\ d.active <=> d.data # <<>>
    /\ role = "aac" => ~d.active
    /\ Span(d.out.data)
    /\ Whole(d)

\* The access unit at hand ends with the last packet.
AtHand(d) ==
    d.active => /\ d.have /\ Span(d.data) /\ d.data[Len(d.data)] = d.last
                /\ d.ts = packets[d.last].ts

\* Without a gap since the last access unit that went out, the one at hand has
\* its first packet, or it is the one the receiver joined in.
NoGap(d) ==
    role = "h264" /\ d.have /\ ~d.pending =>
        IF d.active THEN BeginsUnit(d.data[1]) \/ Au(d.data[1]) = Au(d.first)
        ELSE EndsUnit(d.last) \/ Au(d.last) = Au(d.first)

DepayInv(d) ==
    /\ Received(d)
    /\ AtHand(d)
    /\ role = "pcm" /\ d.active => ~packets[d.last].marker
    /\ ~d.ended => NoGap(d)

\* What the proofs about records use of the stream
Stream ==
    /\ role \in Roles /\ StreamShape(packets, role)
    /\ Len(packets) \in Nat /\ DOMAIN packets = Places

LEMMA UnitFacts ==
    ASSUME Stream, NEW n \in Places
    PROVE  /\ Au(n) \in Nat /\ packets[n].ts \in Nat /\ packets[n].marker \in BOOLEAN
           /\ n = 1 => BeginsUnit(n)
           /\ n # 1 => n - 1 \in Places /\ (Au(n - 1) # Au(n) => BeginsUnit(n))
<1>1. packets[n] \in Packet /\ n \in Nat /\ \A i \in Places : packets[i] \in Packet
  <2>1. packets \in Seq(Packet)
    BY DEF Stream, StreamShape
  <2> QED BY <2>1 DEF Places
<1>2. n = 1 => BeginsUnit(n)
  BY DEF BeginsUnit, Places
<1>3. n # 1 => n - 1 \in Places
  BY DEF Stream, Places
<1>4. ASSUME n # 1, Au(n - 1) # Au(n) PROVE BeginsUnit(n)
  <2> SUFFICES ASSUME NEW i \in Places, Au(i) = Au(n), i < n PROVE FALSE
    BY DEF BeginsUnit, Places
  <2>1. \A j, k \in Places : j < k => Au(j) <= Au(k)
    BY DEF Stream, StreamShape, Places, Au
  <2>2. Au(i) <= Au(n - 1) /\ Au(n - 1) <= Au(n)
    <3>1. i = n - 1 \/ i < n - 1
      BY DEF Places
    <3>2. n - 1 < n
      BY <1>1
    <3>3. Au(i) \in Nat
      BY <1>1 DEF Au, Packet
    <3> QED BY <3>1, <3>2, <3>3, <2>1, <1>3, <1>4
  <2>3. Au(i) \in Nat /\ Au(n) \in Nat /\ Au(n - 1) \in Nat
    BY <1>1, <1>3, <1>4 DEF Au, Packet
  <2> QED BY <2>2, <2>3, <1>4
<1>5. Au(n) \in Nat /\ packets[n].ts \in Nat /\ packets[n].marker \in BOOLEAN
  BY <1>1 DEF Au, Packet
<1> QED BY <1>2, <1>3, <1>4, <1>5

LEMMA VideoFacts ==
    ASSUME Stream, role \in {"h264", "h265"}, NEW n \in Places
    PROVE  /\ packets[n].ts = 10 * Au(n)
           /\ ~packets[n].start => n - 1 \in Places /\ Au(n - 1) = Au(n)
           /\ packets[n].marker => EndsUnit(n)
<1>1. role \notin {"aac", "pcm"} /\ n \in 1 .. Len(packets)
  BY DEF Places
<1>2. packets[n].ts = 10 * Au(n) /\ (n = 1 \/ packets[n - 1].au # packets[n].au => packets[n].start)
  BY <1>1 DEF Stream, StreamShape, Au
<1>3. ASSUME packets[n].marker PROVE EndsUnit(n)
  <2> SUFFICES ASSUME NEW i \in Places, Au(i) = Au(n), n < i PROVE FALSE
    BY DEF EndsUnit, Places
  <2>1. packets[n].au # packets[i].au
    BY <1>1, <1>3 DEF Stream, StreamShape, Places
  <2> QED BY <2>1 DEF Au
<1> QED BY <1>2, <1>3, UnitFacts DEF Au

\* An access unit goes on with the next packet.
LEMMA SpanGrows ==
    ASSUME NEW data \in Seq(Places), data # <<>>, Span(data), NEW n \in Places,
           n = data[Len(data)] + 1, Au(n) = Au(data[Len(data)])
    PROVE  /\ Append(data, n) \in Seq(Places) /\ Append(data, n) # <<>>
           /\ Append(data, n)[1] = data[1]
           /\ Append(data, n)[Len(Append(data, n))] = n
           /\ Span(Append(data, n))
<1> DEFINE L == Len(data)
           a == Append(data, n)
<1>1. L \in Nat /\ L # 0 /\ L \in 1 .. L /\ 1 \in 1 .. L
  OBVIOUS
<1>2. /\ a \in Seq(Places) /\ Len(a) = L + 1 /\ a[L + 1] = n
      /\ \A i \in 1 .. L : a[i] = data[i]
  BY <1>1
<1>3. \A i \in 1 .. L : data[i] = data[1] + i - 1 /\ Au(data[i]) = Au(data[1])
  BY DEF Span
<1>4. data[1] \in Nat
  BY <1>1 DEF Places
<1> HIDE DEF a, L
<1>5. n = data[1] + (L + 1) - 1 /\ Au(n) = Au(data[1])
  <2>1. data[L] = data[1] + L - 1 /\ Au(data[L]) = Au(data[1])
    BY <1>1, <1>3
  <2>2. n = data[L] + 1 /\ Au(n) = Au(data[L])
    BY DEF L
  <2> QED BY <2>1, <2>2, <1>1, <1>4
<1>6. ASSUME NEW i \in 1 .. L + 1 PROVE a[i] = a[1] + i - 1 /\ Au(a[i]) = Au(a[1])
  <2>1. a[1] = data[1]
    BY <1>1, <1>2
  <2>2. CASE i \in 1 .. L
    BY <2>1, <2>2, <1>2, <1>3
  <2>3. CASE i = L + 1
    BY <2>1, <2>3, <1>2, <1>5
  <2> QED BY <2>2, <2>3, <1>1
<1>7. Span(a)
  BY <1>2, <1>6 DEF Span
<1>8. a[1] = data[1] /\ a # <<>>
  <2>1. Len(a) # 0
    BY <1>1, <1>2
  <2> QED BY <2>1, <1>1, <1>2
<1> QED BY <1>2, <1>7, <1>8 DEF a

LEMMA SpanOne ==
    ASSUME NEW n \in Places
    PROVE  /\ <<n>> \in Seq(Places) /\ <<n>> # <<>> /\ Len(<<n>>) = 1 /\ <<n>>[1] = n
           /\ Span(<<n>>)
<1>1. <<n>> \in Seq(Places) /\ <<n>> # <<>> /\ Len(<<n>>) = 1 /\ <<n>>[1] = n /\ n \in Nat
  BY DEF Places
<1> QED BY <1>1 DEF Span

\* A span that reaches the end of its access unit holds what the unit has from
\* the span's beginning on.
LEMMA SpanHolds ==
    ASSUME Stream, NEW data \in Seq(Places), data # <<>>, Span(data),
           EndsUnit(data[Len(data)])
    PROVE  /\ HoldsExactly(data, {i \in UnitOf(data[1]) : i >= data[1]})
           /\ BeginsUnit(data[1]) => HoldsExactly(data, UnitOf(data[1]))
<1> DEFINE L == Len(data)
           b == data[1]
<1>1. L \in Nat /\ L \in 1 .. L /\ 1 \in 1 .. L /\ b \in Places /\ b \in Nat
  BY DEF Places
<1>2. \A i \in 1 .. L : data[i] = b + i - 1 /\ Au(data[i]) = Au(b) /\ data[i] \in Places
  BY DEF Span
<1>3. EndsUnit(data[L]) /\ ToSet(data) = {data[i] : i \in 1 .. L} /\ DOMAIN data = 1 .. L
  BY DEF ToSet
<1>4. UnitOf(b) = {i \in Places : Au(i) = Au(b)}
  BY DEF UnitOf, Au, Stream
<1> HIDE DEF L, b
<1>5. ToSet(data) = {i \in UnitOf(b) : i >= b}
  <2>1. ASSUME NEW i \in 1 .. L PROVE data[i] \in {j \in UnitOf(b) : j >= b}
    <3>1. data[i] >= b
      BY <1>1, <1>2
    <3> QED BY <3>1, <1>2, <1>4
  <2>2. ASSUME NEW j \in UnitOf(b), j >= b PROVE \E i \in 1 .. L : j = data[i]
    <3>1. j \in Places /\ Au(j) = Au(b) /\ j \in Nat
      BY <1>4 DEF Places
    <3>2. j <= data[L] /\ data[L] = b + L - 1
      BY <3>1, <1>1, <1>2, <1>3 DEF EndsUnit
    <3>3. j - b + 1 \in 1 .. L
      BY <2>2, <3>1, <3>2, <1>1
    <3>4. data[j - b + 1] = b + (j - b + 1) - 1
      BY <3>3, <1>2
    <3>5. data[j - b + 1] = j
      BY <3>1, <3>4, <1>1
    <3> QED BY <3>3, <3>5
  <2> QED BY <2>1, <2>2, <1>3
<1>6. BeginsUnit(b) => {i \in UnitOf(b) : i >= b} = UnitOf(b)
  <2> SUFFICES ASSUME BeginsUnit(b), NEW i \in UnitOf(b) PROVE i >= b
    OBVIOUS
  <2> QED BY <1>1, <1>4 DEF BeginsUnit, Places
<1>7. \A i \in DOMAIN data : data[i] = data[1] + i - 1
  BY <1>2, <1>3 DEF b
<1>8. HoldsExactly(data, {i \in UnitOf(b) : i >= b})
  BY <1>5, <1>7 DEF HoldsExactly
<1>9. BeginsUnit(b) => HoldsExactly(data, UnitOf(b))
  BY <1>6, <1>8
<1> QED BY <1>8, <1>9 DEF b

\* SeqChecked: the access unit at hand is kept only when n is the packet after
\* the last one.
LEMMA SeqCheckedFacts ==
    ASSUME Stream, NEW d, DepayInv(d), NEW n \in Places, d.have => Near(n, d.last)
    PROVE  LET e == SeqChecked(d, n) IN
           /\ e \in DepayType /\ e.have /\ e.last = n /\ e.next = Seqno(n + 1)
           /\ e.first = (IF d.have THEN d.first ELSE n) /\ e.first \in Places
           /\ e.out = d.out /\ e.ended = d.ended
           /\ e.active <=> e.data # <<>>
           /\ e.active => d.active /\ e.data = d.data /\ e.ts = d.ts /\ n = d.last + 1
           /\ role = "h264" /\ ~e.pending =>
                ~d.pending /\ (d.have => n = d.last + 1) /\ (e.active <=> d.active)
<1> DEFINE gap == d.have /\ Seqno(n) # d.next
           x == IF gap THEN ResetAu(d) ELSE d
           e == SeqChecked(d, n)
<1>0. d \in DepayType /\ n \in Nat \ {0} /\ n \in Nat
  BY DEF DepayInv, Received, Places
<1>1. (Seqno(n) + 1) % Modulus = Seqno(n + 1) /\ Seqno(n + 1) \in 0 .. Modulus - 1
  <2>1. n + 1 \in Nat \ {0}
    BY <1>0
  <2> QED BY <2>1, <1>0, SeqnoSum, SeqnoType
<1>2. d.have /\ ~gap => n = d.last + 1
  <2> SUFFICES ASSUME d.have, Seqno(n) = d.next PROVE n = d.last + 1
    OBVIOUS
  <2>1. d.last \in Places /\ d.next = Seqno(d.last + 1)
    BY DEF DepayInv, Received
  <2>2. d.last \in Nat /\ d.last + 1 \in Nat \ {0} /\ Modulus \in Nat /\ Modulus >= 8
    BY <2>1, ReceiverConstants DEF Places
  <2>3. 2 * (n - d.last) < Modulus /\ 2 * (d.last - n) < Modulus
    BY DEF Near
  <2>4. n - (d.last + 1) < Modulus /\ (d.last + 1) - n < Modulus
    BY <2>2, <2>3, <1>0
  <2> QED BY <2>1, <2>2, <2>4, <1>0, SeqnoInjective
<1>3. /\ x \in DepayType /\ x.first = d.first /\ x.out = d.out /\ x.ended = d.ended /\ x.pending = d.pending
      /\ gap => ~x.active /\ x.data = <<>>
      /\ ~gap => x = d
  <2>1. CASE gap
    <3>1. x = [d EXCEPT !.active = FALSE, !.ts = 0, !.data = <<>>]
      BY <2>1 DEF ResetAu
    <3>2. <<>> \in Seq(Places) /\ 0 \in Nat /\ FALSE \in BOOLEAN
      OBVIOUS
    <3> HIDE DEF x, gap
    <3> QED BY <2>1, <3>1, <3>2, <1>0, Zenon DEF DepayType
  <2>2. CASE ~gap
    BY <2>2, <1>0
  <2> QED BY <2>1, <2>2
<1>4. e = [x EXCEPT !.have = TRUE, !.next = (Seqno(n) + 1) % Modulus,
                    !.pending = @ \/ (gap /\ role = "h264"),
                    !.first = IF d.have THEN @ ELSE n, !.last = n]
  BY Zenon DEF SeqChecked
<1>5. d.active \in BOOLEAN /\ d.have \in BOOLEAN /\ d.pending \in BOOLEAN
  BY <1>0 DEF DepayType
<1> HIDE DEF x, e
<1>6. /\ e.have /\ e.last = n /\ e.next = Seqno(n + 1) /\ e.out = x.out /\ e.ended = x.ended
      /\ e.first = (IF d.have THEN x.first ELSE n) /\ e.active = x.active
      /\ e.data = x.data /\ e.ts = x.ts
      /\ e.pending <=> x.pending \/ (gap /\ role = "h264")
  BY <1>1, <1>3, <1>4 DEF DepayType
<1>7. e.first = (IF d.have THEN d.first ELSE n) /\ e.first \in Places
  BY <1>3, <1>6 DEF DepayInv, Received
<1>8. e \in DepayType
  <2>1. (x.pending \/ (gap /\ role = "h264")) \in BOOLEAN
    OBVIOUS
  <2>2. (IF d.have THEN x.first ELSE n) \in Places \cup {None}
    BY <1>3 DEF DepayType
  <2> HIDE DEF gap
  <2> QED BY <1>1, <1>3, <1>4, <2>1, <2>2, Zenon DEF DepayType
<1>9. d.active <=> d.data # <<>>
  BY DEF DepayInv, Received
<1>10. d.active => d.have
  BY DEF DepayInv, Received
<1>11. e.active <=> e.data # <<>>
  BY <1>3, <1>6, <1>9
<1>12. e.active => d.active /\ e.data = d.data /\ e.ts = d.ts /\ n = d.last + 1
  BY <1>2, <1>3, <1>6, <1>10
<1>13. role = "h264" /\ ~e.pending =>
           ~d.pending /\ (d.have => n = d.last + 1) /\ (e.active <=> d.active)
  BY <1>2, <1>3, <1>6
<1> QED BY <1>3, <1>6, <1>7, <1>8, <1>11, <1>12, <1>13 DEF e

\* The state once n has been appended, before its marker is looked at
Grown(f, n) ==
    /\ f \in DepayType /\ f.have /\ f.first \in Places /\ f.last = n /\ f.next = Seqno(n + 1)
    /\ f.active /\ f.data # <<>> /\ Span(f.data) /\ f.data[Len(f.data)] = n
    /\ f.ts = packets[n].ts /\ role # "aac"
    /\ Span(f.out.data) /\ Whole(f) /\ ~f.ended
    /\ role = "h264" /\ ~f.pending => BeginsUnit(f.data[1]) \/ Au(f.data[1]) = Au(f.first)

LEMMA PushAuFacts ==
    ASSUME NEW f \in DepayType, f.active, f.data # <<>>, NEW eos \in BOOLEAN
    PROVE  LET g == PushAu(f, eos) IN
           /\ g \in DepayType /\ g.have = f.have /\ g.first = f.first /\ g.last = f.last
           /\ g.next = f.next /\ g.ended = f.ended /\ ~g.active /\ g.data = <<>>
           /\ g.out.data = f.data /\ g.out.eos = eos
           /\ g.out.flagged <=> role = "h264" /\ f.pending
<1> DEFINE o == [data |-> f.data, eos |-> eos, flagged |-> role = "h264" /\ f.pending]
           p == IF role = "h264" THEN FALSE ELSE f.pending
           g == PushAu(f, eos)
<1>1. g = [f EXCEPT !.active = FALSE, !.data = <<>>, !.out = o, !.pending = p]
  BY DEF PushAu
<1>2. p \in BOOLEAN /\ f.data \in Seq(Places) /\ <<>> \in Seq(Places)
  <2>1. f.pending \in BOOLEAN /\ f.data \in Seq(Places)
    BY DEF DepayType
  <2>2. p \in BOOLEAN
    BY <2>1, Zenon
  <2> HIDE DEF p
  <2> QED BY <2>1, <2>2
<1>3. /\ o \in [data : Seq(Places), flagged : BOOLEAN, eos : BOOLEAN]
      /\ o.data = f.data /\ o.eos = eos /\ (o.flagged <=> role = "h264" /\ f.pending)
  <2>1. (role = "h264" /\ f.pending) \in BOOLEAN
    OBVIOUS
  <2> QED BY <1>2, <2>1, Zenon
<1> HIDE DEF o, p, g
<1>4. g \in DepayType
  BY <1>1, <1>2, <1>3, Zenon DEF DepayType
<1>5. /\ g.have = f.have /\ g.first = f.first /\ g.last = f.last /\ g.next = f.next
      /\ g.ended = f.ended /\ g.active = FALSE /\ g.data = <<>> /\ g.out = o
  BY <1>1 DEF DepayType
<1> QED BY <1>3, <1>4, <1>5 DEF g

\* The access unit that goes out is whole, or flagged, or cut by EOS.
LEMMA PushedWhole ==
    ASSUME Stream, NEW f \in DepayType, f.active, f.data # <<>>, Span(f.data),
           f.first \in Places, NEW eos \in BOOLEAN,
           role = "h264" /\ ~f.pending /\ ~eos =>
               /\ EndsUnit(f.data[Len(f.data)])
               /\ BeginsUnit(f.data[1]) \/ Au(f.data[1]) = Au(f.first)
    PROVE  Span(PushAu(f, eos).out.data) /\ Whole(PushAu(f, eos))
<1> DEFINE g == PushAu(f, eos)
           b == f.data[1]
<1>1. /\ g.first = f.first /\ g.out.data = f.data /\ g.out.eos = eos
      /\ g.out.flagged <=> role = "h264" /\ f.pending
  BY PushAuFacts
<1> HIDE DEF g
<1>2. f.data \in Seq(Places)
  BY DEF DepayType
<1>3. ASSUME role = "h264", ~f.pending, ~eos
      PROVE  \/ HoldsExactly(f.data, UnitOf(b))
             \/ f.first \in UnitOf(b) /\ HoldsExactly(f.data, {i \in UnitOf(b) : i >= b})
  <2>1. /\ HoldsExactly(f.data, {i \in UnitOf(b) : i >= b})
        /\ BeginsUnit(b) => HoldsExactly(f.data, UnitOf(b))
    BY <1>2, <1>3, SpanHolds
  <2>2. Au(b) = Au(f.first) => f.first \in UnitOf(b)
    BY DEF UnitOf, Au, Stream
  <2> QED BY <2>1, <2>2, <1>3
<1>4. Whole(g)
  <2> SUFFICES ASSUME role = "h264", g.out.data # <<>>, ~g.out.flagged
               PROVE  \/ HoldsExactly(g.out.data, UnitOf(g.out.data[1]))
                      \/ /\ g.first \in UnitOf(g.out.data[1])
                         /\ HoldsExactly(g.out.data, {i \in UnitOf(g.out.data[1]) : i >= g.out.data[1]})
                      \/ g.out.eos
    BY Zenon DEF Whole
  <2> QED BY <1>1, <1>3
<1> QED BY <1>1, <1>4 DEF g

LEMMA MarkerKeeps ==
    ASSUME Stream, NEW n \in Places, NEW f, Grown(f, n), role \in {"h264", "h265", "pcm"}
    PROVE  DepayInv(AtMarker(f, packets[n]))
<1>1. /\ f \in DepayType /\ f.have /\ f.first \in Places /\ f.last = n /\ f.next = Seqno(n + 1)
      /\ f.active /\ f.data # <<>> /\ Span(f.data) /\ f.data[Len(f.data)] = n
      /\ f.ts = packets[n].ts /\ Span(f.out.data) /\ Whole(f) /\ ~f.ended
      /\ role = "h264" /\ ~f.pending => BeginsUnit(f.data[1]) \/ Au(f.data[1]) = Au(f.first)
  BY DEF Grown
<1>2. packets[n].marker \in BOOLEAN
  BY UnitFacts
<1>3. CASE ~packets[n].marker
  <2>1. AtMarker(f, packets[n]) = f
    BY <1>3 DEF AtMarker
  <2>2. Received(f) /\ AtHand(f) /\ NoGap(f)
    BY <1>1 DEF Received, AtHand, NoGap, Grown
  <2> QED BY <2>1, <2>2, <1>1, <1>3 DEF DepayInv
<1>4. CASE packets[n].marker
  <2> DEFINE g == PushAu(f, FALSE)
  <2>1. AtMarker(f, packets[n]) = g
    BY <1>4 DEF AtMarker
  <2>2. role = "h264" => EndsUnit(n)
    BY <1>4, VideoFacts
  <2>3. Span(g.out.data) /\ Whole(g)
    BY <1>1, <2>2, PushedWhole
  <2>4. /\ g \in DepayType /\ g.have = f.have /\ g.first = f.first /\ g.last = f.last
        /\ g.next = f.next /\ g.ended = f.ended /\ ~g.active /\ g.data = <<>>
    BY <1>1, PushAuFacts
  <2> HIDE DEF g
  <2>5. Received(g)
    BY <2>3, <2>4, <1>1 DEF Received, Grown
  <2>6. AtHand(g) /\ NoGap(g)
    BY <2>2, <2>4, <1>1 DEF AtHand, NoGap
  <2> QED BY <2>1, <2>4, <2>5, <2>6 DEF DepayInv
<1> QED BY <1>2, <1>3, <1>4

\* BeginAu and Append1: n goes to the access unit at hand, or starts one.
LEMMA AppendFacts ==
    ASSUME Stream, NEW e \in DepayType, e.active <=> e.data # <<>>, NEW n \in Places
    PROVE  LET f == Append1(BeginAu(e, packets[n].ts), n) IN
           /\ f \in DepayType /\ f.have = e.have /\ f.first = e.first /\ f.last = e.last
           /\ f.next = e.next /\ f.ended = e.ended /\ f.out = e.out /\ f.pending = e.pending
           /\ f.active /\ f.ts = packets[n].ts
           /\ f.data = IF e.active /\ e.ts = packets[n].ts THEN Append(e.data, n) ELSE <<n>>
<1> DEFINE ts == packets[n].ts
           b == BeginAu(e, ts)
           a == Append(b.data, n)
           f == Append1(b, n)
<1>0. ts \in Nat
  BY UnitFacts
<1>1. /\ b \in DepayType /\ b.have = e.have /\ b.first = e.first /\ b.last = e.last
      /\ b.next = e.next /\ b.ended = e.ended /\ b.out = e.out /\ b.pending = e.pending
      /\ b.active = TRUE /\ b.ts = ts
      /\ b.data = IF e.active /\ e.ts = ts THEN e.data ELSE <<>>
  <2>1. CASE e.active /\ e.ts = ts
    <3>1. b = e
      BY <2>1 DEF BeginAu
    <3>2. e.active \in BOOLEAN
      BY DEF DepayType
    <3> QED BY <2>1, <3>1, <3>2
  <2>2. CASE ~(e.active /\ e.ts = ts)
    <3> DEFINE r == [e EXCEPT !.active = FALSE, !.ts = 0, !.data = <<>>]
    <3>1. b = [r EXCEPT !.active = TRUE, !.ts = ts]
      BY <2>2 DEF BeginAu, ResetAu
    <3>2. <<>> \in Seq(Places) /\ 0 \in Nat
      OBVIOUS
    <3>3. /\ r \in DepayType /\ r.have = e.have /\ r.first = e.first /\ r.last = e.last
          /\ r.next = e.next /\ r.ended = e.ended /\ r.out = e.out /\ r.pending = e.pending
          /\ r.data = <<>>
      BY <3>2, Zenon DEF DepayType
    <3> HIDE DEF r, b, ts
    <3>4. b \in DepayType
      BY <1>0, <3>1, <3>3, Zenon DEF DepayType
    <3>5. /\ b.have = r.have /\ b.first = r.first /\ b.last = r.last /\ b.next = r.next
          /\ b.ended = r.ended /\ b.out = r.out /\ b.pending = r.pending /\ b.data = r.data
          /\ b.active = TRUE /\ b.ts = ts
      BY <3>1, <3>3, Zenon DEF DepayType
    <3> QED BY <2>2, <3>3, <3>4, <3>5
  <2> QED BY <2>1, <2>2
<1> HIDE DEF b, ts
<1>2. b.data \in Seq(Places) /\ a \in Seq(Places) /\ f = [b EXCEPT !.data = a]
  <2>1. b.data \in Seq(Places)
    BY <1>1 DEF DepayType
  <2> QED BY <2>1 DEF Append1
<1>3. a = IF e.active /\ e.ts = ts THEN Append(e.data, n) ELSE <<n>>
  <2>1. Append(<<>>, n) = <<n>>
    OBVIOUS
  <2> QED BY <2>1, <1>1, Zenon
<1> HIDE DEF a, f
<1>4. /\ f \in DepayType /\ f.have = b.have /\ f.first = b.first /\ f.last = b.last
      /\ f.next = b.next /\ f.ended = b.ended /\ f.out = b.out /\ f.pending = b.pending
      /\ f.active = b.active /\ f.ts = b.ts /\ f.data = a
  BY <1>1, <1>2, Zenon DEF DepayType
<1> QED BY <1>1, <1>3, <1>4 DEF f, b, ts

\* n goes in: to the access unit at hand only when it is its next packet.
LEMMA Grows ==
    ASSUME Stream, NEW d, DepayInv(d), ~d.ended, NEW n \in Places,
           d.have => Near(n, d.last), role \in {"h264", "h265", "pcm"}
    PROVE  Grown(Append1(BeginAu(SeqChecked(d, n), packets[n].ts), n), n)
<1> DEFINE e == SeqChecked(d, n)
           f == Append1(BeginAu(e, packets[n].ts), n)
<1>1. /\ e \in DepayType /\ e.have /\ e.last = n /\ e.next = Seqno(n + 1)
      /\ e.first = (IF d.have THEN d.first ELSE n) /\ e.first \in Places
      /\ e.out = d.out /\ e.ended = d.ended
      /\ e.active <=> e.data # <<>>
      /\ e.active => d.active /\ e.data = d.data /\ e.ts = d.ts /\ n = d.last + 1
      /\ role = "h264" /\ ~e.pending =>
             ~d.pending /\ (d.have => n = d.last + 1) /\ (e.active <=> d.active)
  BY SeqCheckedFacts
<1> HIDE DEF e
<1>2. /\ f \in DepayType /\ f.have = e.have /\ f.first = e.first /\ f.last = e.last
      /\ f.next = e.next /\ f.ended = e.ended /\ f.out = e.out /\ f.pending = e.pending
      /\ f.active /\ f.ts = packets[n].ts
      /\ f.data = IF e.active /\ e.ts = packets[n].ts THEN Append(e.data, n) ELSE <<n>>
  <2>1. e \in DepayType /\ (e.active <=> e.data # <<>>)
    BY <1>1
  <2> QED BY <2>1, AppendFacts
<1> HIDE DEF f
<1>3. /\ d \in DepayType /\ Span(d.out.data) /\ Whole(d)
      /\ ~d.have => ~d.active /\ ~d.pending /\ d.out.data = <<>>
      /\ d.have => d.first \in Places /\ d.last \in Places
      /\ d.active <=> d.data # <<>>
      /\ NoGap(d)
  BY DEF DepayInv, Received
<1>4. d.active => /\ d.have /\ Span(d.data) /\ d.data[Len(d.data)] = d.last
                  /\ d.ts = packets[d.last].ts
                  /\ role = "pcm" => ~packets[d.last].marker
  BY DEF DepayInv, AtHand
<1>5. Span(f.out.data) /\ Whole(f)
  <2>1. CASE d.have
    <3>1. f.first = d.first /\ f.out = d.out
      BY <2>1, <1>1, <1>2
    <3> QED BY <3>1, <1>3 DEF Whole
  <2>2. CASE ~d.have
    <3>1. f.out.data = <<>>
      BY <2>2, <1>1, <1>2, <1>3
    <3> QED BY <3>1, <1>1, <1>2, <1>3 DEF Whole
  <2>3. d.have \in BOOLEAN
    BY <1>3 DEF DepayType
  <2> QED BY <2>1, <2>2, <2>3
<1>6. CASE e.active /\ e.ts = packets[n].ts
  <2>1. d.active /\ d.have /\ e.data = d.data /\ n = d.last + 1 /\ d.last \in Places
    BY <1>1, <1>3, <1>4, <1>6
  <2>2. packets[n].ts = packets[d.last].ts
    BY <1>1, <1>4, <1>6, <2>1
  <2>3. Au(n) = Au(d.last)
    <3>1. CASE role \in {"h264", "h265"}
      <4>1. packets[n].ts = 10 * Au(n) /\ packets[d.last].ts = 10 * Au(d.last)
        BY <3>1, <2>1, VideoFacts
      <4>2. Au(n) \in Nat /\ Au(d.last) \in Nat
        BY <2>1, UnitFacts
      <4> QED BY <4>1, <4>2, <2>2
    <3>2. CASE role = "pcm"
      <4>1. ~packets[d.last].marker
        BY <3>2, <2>1, <1>4
      <4>2. d.last # Len(packets) /\ d.last \in 1 .. Len(packets)
        BY <2>1 DEF Places, Stream
      <4>3. packets[d.last + 1].au = packets[d.last].au
        BY <3>2, <4>1, <4>2 DEF Stream, StreamShape
      <4> QED BY <4>3, <2>1 DEF Au
    <3> QED BY <3>1, <3>2
  <2>4. d.data \in Seq(Places) /\ d.data # <<>>
    BY <2>1, <1>3 DEF DepayType
  <2>5. n = d.data[Len(d.data)] + 1 /\ Au(n) = Au(d.data[Len(d.data)]) /\ Span(d.data)
    BY <2>1, <2>3, <1>4
  <2>6. f.data = Append(d.data, n)
    BY <2>1, <1>2, <1>6
  <2>7. f.data # <<>> /\ f.data[1] = d.data[1] /\ f.data[Len(f.data)] = n /\ Span(f.data)
    BY <2>4, <2>5, <2>6, SpanGrows
  <2>8. role = "h264" /\ ~f.pending => BeginsUnit(f.data[1]) \/ Au(f.data[1]) = Au(f.first)
    BY <2>1, <2>7, <1>1, <1>2, <1>3 DEF NoGap
  <2> QED BY <2>7, <2>8, <1>1, <1>2, <1>5 DEF Grown, f, e
<1>7. CASE ~(e.active /\ e.ts = packets[n].ts)
  <2>1. f.data = <<n>>
    BY <1>2, <1>7
  <2>2. f.data # <<>> /\ f.data[1] = n /\ f.data[Len(f.data)] = n /\ Span(f.data)
    BY <2>1, SpanOne
  <2>3. ASSUME role = "h264", ~f.pending PROVE BeginsUnit(n) \/ Au(n) = Au(f.first)
    <3>1. CASE ~d.have
      BY <3>1, <1>1, <1>2
    <3>2. CASE d.have
      <4>1. /\ ~d.pending /\ n = d.last + 1 /\ (e.active <=> d.active) /\ d.last \in Places
            /\ f.first = d.first
        BY <3>2, <2>3, <1>1, <1>2, <1>3
      <4>2. n # 1 /\ n - 1 = d.last
        BY <4>1 DEF Places
      <4>3. CASE Au(d.last) # Au(n)
        BY <4>2, <4>3, UnitFacts
      <4>4. CASE Au(d.last) = Au(n)
        <5>1. ~d.active
          <6>1. packets[n].ts = packets[d.last].ts
            BY <4>1, <4>4, <2>3, VideoFacts
          <6> QED BY <6>1, <4>1, <1>1, <1>4, <1>7
        <5>2. ~EndsUnit(d.last)
          <6>1. d.last < n
            BY <4>1 DEF Places
          <6> QED BY <6>1, <4>1, <4>4 DEF EndsUnit, Places
        <5>3. Au(d.last) = Au(d.first)
          BY <5>1, <5>2, <4>1, <3>2, <2>3, <1>3 DEF NoGap
        <5> QED BY <5>3, <4>1, <4>4
      <4> QED BY <4>3, <4>4
    <3>3. d.have \in BOOLEAN
      BY <1>3 DEF DepayType
    <3> QED BY <3>1, <3>2, <3>3
  <2> QED BY <2>2, <2>3, <1>1, <1>2, <1>5 DEF Grown, f, e
<1> QED BY <1>6, <1>7

\* A fragment that finds no access unit of its own is dropped.
LEMMA DropKeeps ==
    ASSUME Stream, NEW d, DepayInv(d), ~d.ended, NEW n \in Places,
           d.have => Near(n, d.last), role \in {"h264", "h265"}, ~packets[n].start,
           ~(SeqChecked(d, n).active /\ SeqChecked(d, n).ts = packets[n].ts)
    PROVE  DepayInv(SeqChecked(d, n))
<1> DEFINE e == SeqChecked(d, n)
<1>1. /\ e \in DepayType /\ e.have /\ e.last = n /\ e.next = Seqno(n + 1)
      /\ e.first = (IF d.have THEN d.first ELSE n) /\ e.first \in Places
      /\ e.out = d.out /\ e.ended = d.ended
      /\ e.active <=> e.data # <<>>
      /\ e.active => d.active /\ e.data = d.data /\ e.ts = d.ts /\ n = d.last + 1
      /\ role = "h264" /\ ~e.pending =>
             ~d.pending /\ (d.have => n = d.last + 1) /\ (e.active <=> d.active)
  BY SeqCheckedFacts
<1>2. ~(e.active /\ e.ts = packets[n].ts)
  OBVIOUS
<1> HIDE DEF e
<1>3. /\ d \in DepayType /\ Span(d.out.data) /\ Whole(d) /\ NoGap(d)
      /\ ~d.have => ~d.active /\ ~d.pending /\ d.out.data = <<>>
      /\ d.have => d.last \in Places
      /\ d.active => d.have /\ d.ts = packets[d.last].ts
  BY DEF DepayInv, Received, AtHand
<1>4. n - 1 \in Places /\ Au(n - 1) = Au(n)
  BY VideoFacts
<1>5. ~e.active
  <2> SUFFICES ASSUME e.active PROVE FALSE
    OBVIOUS
  <2>1. d.last \in Places /\ n = d.last + 1 /\ e.ts = packets[d.last].ts
    BY <1>1, <1>3
  <2>2. n - 1 = d.last
    BY <2>1 DEF Places
  <2>3. packets[n].ts = packets[d.last].ts
    BY <2>1, <2>2, <1>4, VideoFacts
  <2> QED BY <2>1, <2>3, <1>2
<1>6. NoGap(e)
  <2> SUFFICES ASSUME role = "h264", ~e.pending PROVE Au(n) = Au(e.first)
    BY <1>1, <1>5 DEF NoGap
  <2>1. CASE ~d.have
    BY <2>1, <1>1
  <2>2. CASE d.have
    <3>1. ~d.pending /\ n = d.last + 1 /\ ~d.active /\ e.first = d.first /\ d.last \in Places
      BY <2>2, <1>1, <1>3, <1>5
    <3>2. n - 1 = d.last /\ d.last < n
      BY <3>1 DEF Places
    <3>3. ~EndsUnit(d.last)
      BY <3>2, <1>4 DEF EndsUnit, Places
    <3>4. Au(d.last) = Au(d.first)
      BY <3>1, <3>3, <2>2, <1>3 DEF NoGap
    <3> QED BY <3>1, <3>2, <3>4, <1>4
  <2>3. d.have \in BOOLEAN
    BY <1>3 DEF DepayType
  <2> QED BY <2>1, <2>2, <2>3
<1>7. Span(e.out.data) /\ Whole(e)
  <2>1. CASE d.have
    BY <2>1, <1>1, <1>3 DEF Whole
  <2>2. CASE ~d.have
    BY <2>2, <1>1, <1>3 DEF Whole
  <2>3. d.have \in BOOLEAN
    BY <1>3 DEF DepayType
  <2> QED BY <2>1, <2>2, <2>3
<1>8. Received(e)
  BY <1>1, <1>5, <1>7 DEF Received
<1>9. AtHand(e)
  BY <1>5 DEF AtHand
<1> QED BY <1>5, <1>6, <1>8, <1>9 DEF DepayInv, e

LEMMA PacketKeeps ==
    ASSUME Stream, NEW d, DepayInv(d), ~d.ended, NEW n \in Places,
           d.have => Near(n, d.last), role \in Codecs
    PROVE  DepayInv(DepayPush(d, n))
<1> DEFINE e == SeqChecked(d, n)
           f == Append1(BeginAu(e, packets[n].ts), n)
<1>1. CASE role \in {"h264", "h265"}
  <2>1. DepayPush(d, n) = DepayNal(e, n)
    BY <1>1 DEF DepayPush
  <2>2. DepayInv(AtMarker(f, packets[n]))
    BY <1>1, Grows, MarkerKeeps
  <2>3. CASE packets[n].start
    BY <2>1, <2>2, <2>3 DEF DepayNal
  <2>4. CASE ~packets[n].start /\ e.active /\ e.ts = packets[n].ts
    <3>1. BeginAu(e, packets[n].ts) = e
      BY <2>4 DEF BeginAu
    <3> HIDE DEF e
    <3> QED BY <2>1, <2>2, <2>4, <3>1 DEF DepayNal
  <2>5. CASE ~packets[n].start /\ ~(e.active /\ e.ts = packets[n].ts)
    <3>1. DepayInv(e)
      BY <1>1, <2>5, DropKeeps
    <3> HIDE DEF e
    <3> QED BY <2>1, <2>5, <3>1 DEF DepayNal
  <2> QED BY <2>3, <2>4, <2>5
<1>2. CASE role = "pcm"
  <2>1. DepayPush(d, n) = AtMarker(f, packets[n])
    BY <1>2 DEF DepayPush, DepayPcm
  <2> QED BY <2>1, <1>2, Grows, MarkerKeeps
<1>3. CASE role = "aac"
  <2>1. /\ e \in DepayType /\ e.have /\ e.last = n /\ e.next = Seqno(n + 1)
        /\ e.first \in Places /\ e.ended = d.ended
        /\ e.active <=> e.data # <<>>
        /\ e.active => d.active
    BY SeqCheckedFacts
  <2> DEFINE o == [Nothing EXCEPT !.data = <<n>>]
             g == [e EXCEPT !.out = o]
  <2>2. DepayPush(d, n) = g
    BY <1>3 DEF DepayPush, DepayAac
  <2>3. <<n>> \in Seq(Places) /\ Span(<<n>>)
    BY SpanOne
  <2>4. o \in [data : Seq(Places), flagged : BOOLEAN, eos : BOOLEAN] /\ o.data = <<n>>
    <3>1. Nothing \in [data : Seq(Places), flagged : BOOLEAN, eos : BOOLEAN]
      BY DEF Nothing
    <3> QED BY <2>3, <3>1, Zenon
  <2> HIDE DEF e, o
  <2>5. g \in DepayType
    BY <2>1, <2>4, Zenon DEF DepayType
  <2>6. /\ g.have = e.have /\ g.last = e.last /\ g.next = e.next /\ g.first = e.first
        /\ g.ended = e.ended /\ g.active = e.active /\ g.data = e.data /\ g.out = o
    BY <2>1 DEF DepayType
  <2> HIDE DEF g
  <2>7. ~g.active
    BY <1>3, <2>1, <2>6 DEF DepayInv, Received
  <2>8. Received(g)
    BY <1>3, <2>1, <2>3, <2>4, <2>5, <2>6, <2>7 DEF Received, Whole
  <2>9. AtHand(g) /\ NoGap(g)
    BY <1>3, <2>7 DEF AtHand, NoGap
  <2> QED BY <2>2, <2>7, <2>8, <2>9 DEF DepayInv
<1> QED BY <1>1, <1>2, <1>3 DEF Codecs

\* A failed allocation: the receiver joins in again with the next packet.
LEMMA NoDataKeeps ==
    ASSUME Stream, NEW d, DepayInv(d), ~d.ended, NEW n \in Places, d.have => Near(n, d.last)
    PROVE  DepayInv(NoData(SeqChecked(d, n), n))
<1> DEFINE e == SeqChecked(d, n)
           r == [e EXCEPT !.active = FALSE, !.ts = 0, !.data = <<>>]
           g == [r EXCEPT !.first = n, !.out = Nothing]
<1>1. e \in DepayType /\ e.have /\ e.last = n /\ e.next = Seqno(n + 1)
  BY SeqCheckedFacts
<1> HIDE DEF e
<1>2. /\ Nothing \in [data : Seq(Places), flagged : BOOLEAN, eos : BOOLEAN]
      /\ Nothing.data = <<>> /\ <<>> \in Seq(Places) /\ 0 \in Nat /\ Span(<<>>)
  BY DEF Nothing, Span
<1>3. /\ r \in DepayType /\ r.have = e.have /\ r.last = e.last /\ r.next = e.next
      /\ r.active = FALSE /\ r.data = <<>>
  BY <1>1, <1>2, Zenon DEF DepayType
<1> HIDE DEF r
<1>4. /\ g \in DepayType /\ g.have = r.have /\ g.last = r.last /\ g.next = r.next
      /\ g.active = r.active /\ g.data = r.data /\ g.first = n /\ g.out = Nothing
  BY <1>2, <1>3, Zenon DEF DepayType
<1> HIDE DEF g
<1>5. Received(g)
  BY <1>1, <1>2, <1>3, <1>4 DEF Received, Whole
<1>6. AtHand(g) /\ NoGap(g)
  BY <1>1, <1>3, <1>4 DEF AtHand, NoGap
<1>7. DepayInv(g)
  BY <1>3, <1>4, <1>5, <1>6 DEF DepayInv
<1>8. NoData(e, n) = g
  BY DEF NoData, ResetAu, g, r
<1> QED BY <1>7, <1>8 DEF e

\* A buffer that is not made changes only what went out.
LEMMA NoBufferKeeps ==
    ASSUME NEW d, DepayInv(d)
    PROVE  DepayInv(NoBuffer(d))
<1> DEFINE g == [d EXCEPT !.out = Nothing]
<1>1. d \in DepayType /\ Received(d) /\ AtHand(d)
  BY DEF DepayInv, Received
<1>2. /\ Nothing \in [data : Seq(Places), flagged : BOOLEAN, eos : BOOLEAN]
      /\ Nothing.data = <<>> /\ Span(<<>>)
  BY DEF Nothing, Span
<1>3. /\ g \in DepayType /\ g.have = d.have /\ g.last = d.last /\ g.next = d.next
      /\ g.active = d.active /\ g.data = d.data /\ g.first = d.first /\ g.out = Nothing
      /\ g.pending = d.pending /\ g.ts = d.ts /\ g.ended = d.ended
  BY <1>1, <1>2, Zenon DEF DepayType
<1> HIDE DEF g
<1>4. Received(g)
  BY <1>1, <1>2, <1>3 DEF Received, Whole
<1>5. AtHand(g)
  BY <1>1, <1>3 DEF AtHand
<1>6. DepayInv(g)
  BY <1>3, <1>4, <1>5 DEF DepayInv, NoGap
<1> QED BY <1>6 DEF NoBuffer, g

LEMMA EosKeeps ==
    ASSUME Stream, NEW d, DepayInv(d), ~d.ended
    PROVE  /\ DepayInv([PushAu(d, TRUE) EXCEPT !.ended = TRUE])
           /\ DepayInv([NoBuffer(PushAu(d, TRUE)) EXCEPT !.ended = TRUE])
<1> DEFINE g == PushAu(d, TRUE)
           h == [g EXCEPT !.ended = TRUE]
<1>0. d \in DepayType /\ (d.active <=> d.data # <<>>) /\ Received(d) /\ AtHand(d)
  BY DEF DepayInv, Received
<1>1. /\ g \in DepayType /\ g.have = d.have /\ g.first = d.first /\ g.last = d.last
      /\ g.next = d.next /\ ~g.active /\ g.data = <<>>
      /\ ~g.have => ~g.pending /\ g.out.data = <<>>
      /\ Span(g.out.data) /\ Whole(g)
  <2>1. CASE d.active
    <3>1. d.data # <<>> /\ Span(d.data) /\ d.have /\ d.first \in Places
      BY <2>1, <1>0 DEF AtHand, Received
    <3>2. Span(g.out.data) /\ Whole(g)
      BY <2>1, <3>1, <1>0, PushedWhole
    <3>3. /\ g \in DepayType /\ g.have = d.have /\ g.first = d.first /\ g.last = d.last
          /\ g.next = d.next /\ ~g.active /\ g.data = <<>>
      BY <2>1, <3>1, <1>0, PushAuFacts
    <3> HIDE DEF g
    <3> QED BY <3>1, <3>2, <3>3
  <2>2. CASE ~d.active
    <3>1. g = [d EXCEPT !.active = FALSE, !.ts = 0, !.data = <<>>]
      BY <2>2 DEF PushAu, ResetAu
    <3>2. <<>> \in Seq(Places) /\ 0 \in Nat
      OBVIOUS
    <3> HIDE DEF g
    <3>3. /\ g \in DepayType /\ g.have = d.have /\ g.first = d.first /\ g.last = d.last
          /\ g.next = d.next /\ ~g.active /\ g.data = <<>> /\ g.out = d.out
          /\ g.pending = d.pending
      BY <1>0, <3>1, <3>2, Zenon DEF DepayType
    <3> QED BY <3>3, <1>0 DEF Received, Whole
  <2>3. d.active \in BOOLEAN
    BY <1>0 DEF DepayType
  <2> QED BY <2>1, <2>2, <2>3
<1> HIDE DEF g
<1>2. /\ h \in DepayType /\ h.have = g.have /\ h.first = g.first /\ h.last = g.last
      /\ h.next = g.next /\ h.active = g.active /\ h.data = g.data /\ h.out = g.out
      /\ h.pending = g.pending /\ h.ended
  BY <1>1, Zenon DEF DepayType
<1> HIDE DEF h
<1>3. Received(h)
  BY <1>0, <1>1, <1>2 DEF Received, Whole
<1>4. AtHand(h)
  BY <1>1, <1>2 DEF AtHand
<1>5. DepayInv(h)
  BY <1>1, <1>2, <1>3, <1>4 DEF DepayInv
<1>6. DepayInv(NoBuffer(h))
  BY <1>5, NoBufferKeeps
<1>7. NoBuffer(h) = [NoBuffer(g) EXCEPT !.ended = TRUE]
  BY <1>1 DEF NoBuffer, h, DepayType
<1> QED BY <1>5, <1>6, <1>7 DEF h, g

LEMMA OpenHolds ==
    ASSUME Stream PROVE DepayInv(DepayOpen)
<1>1. Nothing \in [data : Seq(Places), flagged : BOOLEAN, eos : BOOLEAN] /\ Nothing.data = <<>>
  BY DEF Nothing
<1>2. 0 \in 0 .. Modulus - 1
  BY Constants
<1> DEFINE d == DepayOpen
<1>3. /\ d \in DepayType /\ d.have = FALSE /\ d.pending = FALSE /\ d.active = FALSE
      /\ d.data = <<>> /\ d.out = Nothing
  BY <1>1, <1>2 DEF DepayOpen, DepayType
<1> HIDE DEF d
<1>4. Span(<<>>)
  BY DEF Span
<1>5. Received(d) /\ AtHand(d) /\ NoGap(d)
  BY <1>1, <1>3, <1>4 DEF Received, AtHand, NoGap, Whole
<1> QED BY <1>3, <1>5 DEF DepayInv, d

-----------------------------------------------------------------------------
(* The redundancy demuxer, as a record m.                                   *)

DemuxType ==
    [initialized : BOOLEAN, highest : 0 .. Modulus - 1, top : Places \cup {None},
     seen : SUBSET (0 .. History - 1), current : Links, quiet : BOOLEAN,
     event : {"none", "failover", "recovery"}, handing : [Links -> Places \cup {None}],
     passed : [Places -> Nat], refused : SUBSET Places]

\* How often m has let n through, the one still in a link's hands included
Given(m, n) == m.passed[n] + Cardinality({l \in Links : m.handing[l] = n})

\* Of the History packets up to the newest one, an entry of the history is set
\* for those that went through and for no other.
Window(m) ==
    \A n \in Places : n <= m.top /\ m.top - n < History =>
        (Entry(Seqno(n)) \in m.seen <=> Given(m, n) = 1)

DemuxInv(m) ==
    /\ m \in DemuxType
    /\ \A n \in Places : Given(m, n) \in {0, 1}
    /\ \A n \in m.refused : Given(m, n) = 1
    /\ ~m.initialized => \A n \in Places : Given(m, n) = 0
    /\ m.initialized => /\ m.top \in Places /\ m.highest = Seqno(m.top)
                        /\ \A n \in Places : Given(m, n) = 1 => n <= m.top
                        /\ Window(m)

LEMMA LinksCounted ==
    ASSUME NEW h, NEW n
    PROVE  Cardinality({l \in Links : h[l] = n})
             = (IF h[1] = n THEN 1 ELSE 0) + (IF h[2] = n THEN 1 ELSE 0)
<1> DEFINE S == {l \in Links : h[l] = n}
<1>1. Links = {1, 2}
  BY DEF Links, Primary, Backup
<1>2. Cardinality({}) = 0 /\ Cardinality({1}) = 1 /\ Cardinality({2}) = 1 /\ Cardinality({1, 2}) = 2
  <2>1. IsFiniteSet({1}) /\ Cardinality({1}) = 1 /\ Cardinality({2}) = 1 /\ Cardinality({}) = 0
    BY FS_Singleton, FS_EmptySet
  <2>2. Cardinality({1} \cup {2}) = Cardinality({1}) + 1
    BY <2>1, FS_AddElement
  <2>3. {1} \cup {2} = {1, 2}
    OBVIOUS
  <2> QED BY <2>1, <2>2, <2>3
<1>3. CASE h[1] = n /\ h[2] = n
  <2>1. S = {1, 2}
    BY <1>1, <1>3
  <2> QED BY <2>1, <1>2, <1>3
<1>4. CASE h[1] = n /\ h[2] # n
  <2>1. S = {1}
    BY <1>1, <1>4
  <2> QED BY <2>1, <1>2, <1>4
<1>5. CASE h[1] # n /\ h[2] = n
  <2>1. S = {2}
    BY <1>1, <1>5
  <2> QED BY <2>1, <1>2, <1>5
<1>6. CASE h[1] # n /\ h[2] # n
  <2>1. S = {}
    BY <1>1, <1>6
  <2> QED BY <2>1, <1>2, <1>6
<1> QED BY <1>3, <1>4, <1>5, <1>6

LEMMA GivenIs ==
    ASSUME NEW m, NEW n
    PROVE  Given(m, n) = m.passed[n] + ((IF m.handing[1] = n THEN 1 ELSE 0)
                                        + (IF m.handing[2] = n THEN 1 ELSE 0))
<1> DEFINE h == m.handing
<1>1. Given(m, n) = m.passed[n] + Cardinality({l \in Links : h[l] = n})
  BY DEF Given
<1> HIDE DEF h
<1>2. Cardinality({l \in Links : h[l] = n})
        = (IF h[1] = n THEN 1 ELSE 0) + (IF h[2] = n THEN 1 ELSE 0)
  BY LinksCounted
<1> QED BY <1>1, <1>2, Zenon DEF h

\* A link that takes n in hand lets it through once more, and no other.
LEMMA TakingCounts ==
    ASSUME Stream, NEW m \in DemuxType, NEW k \in DemuxType, NEW l \in Links, NEW n \in Places,
           m.handing[l] = None, k.handing = [m.handing EXCEPT ![l] = n], k.passed = m.passed
    PROVE  /\ Given(m, n) \in Nat /\ Given(k, n) = Given(m, n) + 1
           /\ \A i \in Places : i # n => Given(k, i) = Given(m, i)
<1>1. Links = {1, 2} /\ None \notin Places
  BY DEF Links, Primary, Backup, None, Places
<1>2. /\ m.handing \in [Links -> Places \cup {None}] /\ m.passed \in [Places -> Nat]
      /\ k.handing[l] = n /\ \A j \in Links : j # l => k.handing[j] = m.handing[j]
  BY DEF DemuxType
<1>3. \A i \in Places :
         /\ Given(m, i) = m.passed[i] + ((IF m.handing[1] = i THEN 1 ELSE 0)
                                         + (IF m.handing[2] = i THEN 1 ELSE 0))
         /\ Given(k, i) = m.passed[i] + ((IF k.handing[1] = i THEN 1 ELSE 0)
                                         + (IF k.handing[2] = i THEN 1 ELSE 0))
         /\ m.passed[i] \in Nat
  BY <1>2, GivenIs
<1>4. CASE l = 1
  BY <1>1, <1>2, <1>3, <1>4
<1>5. CASE l = 2
  BY <1>1, <1>2, <1>3, <1>5
<1> QED BY <1>1, <1>4, <1>5

\* A push leaves the counts as they are: n is no longer in hand but passed.
LEMMA HandingOnCounts ==
    ASSUME Stream, NEW m \in DemuxType, NEW k \in DemuxType, NEW l \in Links,
           m.handing[l] # None, k.handing = [m.handing EXCEPT ![l] = None],
           k.passed = [m.passed EXCEPT ![m.handing[l]] = @ + 1]
    PROVE  \A i \in Places : Given(k, i) = Given(m, i)
<1> TAKE i \in Places
<1>1. Links = {1, 2} /\ None \notin Places
  BY DEF Links, Primary, Backup, None, Places
<1>2. /\ m.handing \in [Links -> Places \cup {None}] /\ m.passed \in [Places -> Nat]
      /\ k.handing[l] = None /\ \A j \in Links : j # l => k.handing[j] = m.handing[j]
      /\ k.passed[i] = IF m.handing[l] = i THEN m.passed[i] + 1 ELSE m.passed[i]
  BY DEF DemuxType
<1>3. /\ Given(m, i) = m.passed[i] + ((IF m.handing[1] = i THEN 1 ELSE 0)
                                      + (IF m.handing[2] = i THEN 1 ELSE 0))
      /\ Given(k, i) = k.passed[i] + ((IF k.handing[1] = i THEN 1 ELSE 0)
                                      + (IF k.handing[2] = i THEN 1 ELSE 0))
      /\ m.passed[i] \in Nat
  BY <1>2, GivenIs
<1>4. CASE l = 1
  BY <1>1, <1>2, <1>3, <1>4
<1>5. CASE l = 2
  BY <1>1, <1>2, <1>3, <1>5
<1> QED BY <1>1, <1>4, <1>5

\* Accept: what it keeps of the record it is given.
LEMMA AcceptFacts ==
    ASSUME NEW m \in DemuxType, NEW l \in Links, NEW n \in Places
    PROVE  LET k == Accept(m, l, n) IN
           /\ k \in DemuxType /\ (k.initialized <=> m.initialized) /\ k.highest = m.highest
           /\ k.top = m.top /\ k.seen = m.seen /\ k.passed = m.passed /\ k.refused = m.refused
           /\ k.handing = [m.handing EXCEPT ![l] = n]
<1> DEFINE s == LinkSwitch(m, l)
           k == Accept(m, l, n)
<1>0. Primary \in Links /\ Backup \in Links
  BY DEF Links
<1>1. /\ s \in DemuxType /\ s.initialized = m.initialized /\ s.highest = m.highest
      /\ s.top = m.top /\ s.seen = m.seen /\ s.passed = m.passed /\ s.refused = m.refused
      /\ s.handing = m.handing
  <2>1. CASE l = Primary
    <3> DEFINE ev == IF m.current # Primary THEN "recovery" ELSE m.event
    <3>1. s = [m EXCEPT !.quiet = FALSE, !.current = Primary, !.event = ev]
      BY <2>1 DEF LinkSwitch
    <3>2. ev \in {"none", "failover", "recovery"}
      BY DEF DemuxType
    <3> HIDE DEF s, ev
    <3> QED BY <1>0, <3>1, <3>2, Zenon DEF DemuxType
  <2>2. CASE l # Primary /\ m.current = Primary /\ m.quiet
    <3>1. s = [m EXCEPT !.current = Backup, !.event = "failover"]
      BY <2>2 DEF LinkSwitch
    <3> HIDE DEF s
    <3> QED BY <1>0, <3>1, Zenon DEF DemuxType
  <2>3. CASE l # Primary /\ ~(m.current = Primary /\ m.quiet)
    BY <2>3 DEF LinkSwitch
  <2> QED BY <2>1, <2>2, <2>3
<1> HIDE DEF s
<1>2. k = [s EXCEPT !.handing = [s.handing EXCEPT ![l] = n]]
  BY DEF Accept, s
<1>3. [s.handing EXCEPT ![l] = n] \in [Links -> Places \cup {None}]
  BY <1>1 DEF DemuxType
<1> HIDE DEF k
<1>4. /\ k \in DemuxType /\ k.initialized = s.initialized /\ k.highest = s.highest
      /\ k.top = s.top /\ k.seen = s.seen /\ k.passed = s.passed /\ k.refused = s.refused
      /\ k.handing = [s.handing EXCEPT ![l] = n]
  BY <1>1, <1>2, <1>3, Zenon DEF DemuxType
<1> QED BY <1>1, <1>4 DEF k

\* Accepting n from a record k that already has its new history.
LEMMA AcceptKeeps ==
    ASSUME Stream, NEW m, DemuxInv(m), NEW l \in Links, NEW n \in Places, m.handing[l] = None,
           Given(m, n) = 0, NEW k \in DemuxType, k.initialized,
           k.handing = m.handing, k.passed = m.passed, k.refused = m.refused,
           k.top \in Places, k.highest = Seqno(k.top), n <= k.top,
           \A i \in Places : Given(m, i) = 1 => i <= k.top,
           \A i \in Places : i <= k.top /\ k.top - i < History =>
               (Entry(Seqno(i)) \in k.seen <=> Given(m, i) = 1 \/ i = n)
    PROVE  DemuxInv(Accept(k, l, n))
<1> DEFINE a == Accept(k, l, n)
<1>1. /\ a \in DemuxType /\ (a.initialized <=> k.initialized) /\ a.highest = k.highest
      /\ a.top = k.top /\ a.seen = k.seen /\ a.passed = k.passed /\ a.refused = k.refused
      /\ a.handing = [k.handing EXCEPT ![l] = n]
  BY AcceptFacts
<1> HIDE DEF a
<1>2. /\ m \in DemuxType
      /\ \A i \in Places : Given(m, i) \in {0, 1}
      /\ \A i \in m.refused : Given(m, i) = 1
  BY DEF DemuxInv
<1>3. Given(a, n) = Given(m, n) + 1 /\ \A i \in Places : i # n => Given(a, i) = Given(m, i)
  BY <1>1, <1>2, TakingCounts
<1>4. Given(a, n) = 1
  BY <1>3
<1>5. \A i \in Places : Given(a, i) \in {0, 1} /\ (Given(a, i) = 1 <=> Given(m, i) = 1 \/ i = n)
  BY <1>2, <1>3, <1>4
<1>6. \A i \in a.refused : Given(a, i) = 1
  <2>1. m.refused \subseteq Places
    BY <1>2 DEF DemuxType
  <2> QED BY <2>1, <1>1, <1>2, <1>5
<1>7. Window(a)
  BY <1>1, <1>5 DEF Window
<1>8. a.initialized /\ a.top \in Places /\ a.highest = Seqno(a.top)
  BY <1>1
<1>9. \A i \in Places : Given(a, i) = 1 => i <= a.top
  BY <1>1, <1>5
<1>10. DemuxInv(a)
  BY <1>1, <1>5, <1>6, <1>7, <1>8, <1>9 DEF DemuxInv
<1> QED BY <1>10 DEF a

\* Packets of one window have entries of their own.
LEMMA EntriesApart ==
    ASSUME NEW i \in Places, NEW j \in Places, i # j, i - j < History, j - i < History
    PROVE  Entry(Seqno(i)) # Entry(Seqno(j))
<1>1. i \in Nat \ {0} /\ j \in Nat \ {0}
  BY DEF Places
<1> QED BY <1>1, EntryInjective

LEMMA FirstKeeps ==
    ASSUME Stream, NEW m, DemuxInv(m), NEW l \in Links, NEW n \in Places, m.handing[l] = None,
           ~m.initialized
    PROVE  DemuxInv(DemuxPush(m, l, n))
<1> DEFINE k == [m EXCEPT !.initialized = TRUE, !.highest = Seqno(n), !.top = n,
                          !.seen = {Entry(Seqno(n))}]
<1>0. m \in DemuxType /\ n \in Nat \ {0} /\ n \in Nat
  BY DEF DemuxInv, Places
<1>1. DemuxPush(m, l, n) = Accept(k, l, n)
  BY DEF DemuxPush
<1>2. Seqno(n) \in 0 .. Modulus - 1 /\ Entry(Seqno(n)) \in 0 .. History - 1
  BY <1>0, SeqnoType, EntryType
<1>3. /\ k \in DemuxType /\ k.initialized = TRUE /\ k.highest = Seqno(n) /\ k.top = n
      /\ k.seen = {Entry(Seqno(n))} /\ k.handing = m.handing /\ k.passed = m.passed
      /\ k.refused = m.refused
  <2>1. {Entry(Seqno(n))} \subseteq 0 .. History - 1
    BY <1>2
  <2>2. {Entry(Seqno(n))} \in SUBSET (0 .. History - 1)
    BY <2>1
  <2> QED BY <1>0, <1>2, <2>2, Zenon DEF DemuxType
<1> HIDE DEF k
<1>4. \A i \in Places : Given(m, i) = 0
  BY DEF DemuxInv
<1>5. ASSUME NEW i \in Places, i <= k.top, k.top - i < History
      PROVE  Entry(Seqno(i)) \in k.seen <=> Given(m, i) = 1 \/ i = n
  <2>1. CASE i = n
    BY <2>1, <1>3
  <2>2. CASE i # n
    <3>1. i - n < History /\ n - i < History
      BY <1>0, <1>3, <1>5, Constants DEF Places
    <3>2. Entry(Seqno(i)) # Entry(Seqno(n))
      BY <2>2, <3>1, EntriesApart
    <3> QED BY <2>2, <3>2, <1>3, <1>4
  <2> QED BY <2>1, <2>2
<1>6. n <= k.top
  BY <1>0, <1>3
<1>7. DemuxInv(Accept(k, l, n))
  BY <1>3, <1>4, <1>5, <1>6, AcceptKeeps
<1> QED BY <1>1, <1>7

\* The entries between the highest packet and n are cleared.
LEMMA SkippedIs ==
    ASSUME NEW m, NEW t \in Places, m.highest = Seqno(t), NEW n \in Places,
           Diff(Seqno(n), Seqno(t)) = n - t
    PROVE  Skipped(m, Seqno(n)) = {Entry(Seqno(i)) : i \in (t + 1) .. (n - 1)}
<1>0. t \in Nat \ {0} /\ n \in Nat
  BY DEF Places
<1>1. Skipped(m, Seqno(n)) = {Entry((Seqno(t) + i) % Modulus) : i \in 1 .. (n - t) - 1}
  BY DEF Skipped
<1>2. \A i \in 1 .. (n - t) - 1 : (Seqno(t) + i) % Modulus = Seqno(t + i)
  <2> TAKE i \in 1 .. (n - t) - 1
  <2>1. i \in Nat
    BY <1>0
  <2> QED BY <2>1, <1>0, SeqnoSum
<1>3. ASSUME NEW i \in 1 .. (n - t) - 1
      PROVE  \E j \in (t + 1) .. (n - 1) : Entry((Seqno(t) + i) % Modulus) = Entry(Seqno(j))
  <2>1. t + i \in (t + 1) .. (n - 1)
    BY <1>0
  <2> QED BY <2>1, <1>2
<1>4. ASSUME NEW j \in (t + 1) .. (n - 1)
      PROVE  \E i \in 1 .. (n - t) - 1 : Entry(Seqno(j)) = Entry((Seqno(t) + i) % Modulus)
  <2>1. j - t \in 1 .. (n - t) - 1 /\ t + (j - t) = j
    BY <1>0
  <2>2. (Seqno(t) + (j - t)) % Modulus = Seqno(t + (j - t))
    BY <2>1, <1>2
  <2> QED BY <2>1, <2>2
<1> QED BY <1>1, <1>3, <1>4

LEMMA AheadKeeps ==
    ASSUME Stream, NEW m, DemuxInv(m), NEW l \in Links, NEW n \in Places, m.handing[l] = None,
           m.initialized, Near(n, m.top), n > m.top
    PROVE  DemuxInv(DemuxPush(m, l, n))
<1> DEFINE t == m.top
           k == Advance(m, n)
<1>0. /\ m \in DemuxType /\ n \in Nat \ {0} /\ n \in Nat
      /\ t \in Places /\ t \in Nat \ {0} /\ t \in Nat /\ m.highest = Seqno(t)
      /\ \A i \in Places : Given(m, i) \in {0, 1}
      /\ \A i \in Places : Given(m, i) = 1 => i <= t
      /\ \A i \in Places : i <= t /\ t - i < History =>
             (Entry(Seqno(i)) \in m.seen <=> Given(m, i) = 1)
  BY DEF DemuxInv, Places, Window
<1>1. Diff(Seqno(n), Seqno(t)) = n - t /\ n > t
  BY <1>0, DiffIs
<1>2. DemuxPush(m, l, n) = Accept(k, l, n)
  <2>1. n - t > 0
    BY <1>0, <1>1
  <2> QED BY <2>1, <1>0, <1>1 DEF DemuxPush
<1> DEFINE sn == {Entry(Seqno(n))} \cup
                 IF n - t >= History THEN {} ELSE m.seen \ Skipped(m, Seqno(n))
<1>3. Seqno(n) \in 0 .. Modulus - 1 /\ sn \in SUBSET (0 .. History - 1)
  <2>1. Entry(Seqno(n)) \in 0 .. History - 1 /\ Seqno(n) \in 0 .. Modulus - 1
    BY <1>0, SeqnoType, EntryType
  <2>2. m.seen \subseteq 0 .. History - 1
    BY <1>0 DEF DemuxType
  <2> QED BY <2>1, <2>2
<1>4. k = [m EXCEPT !.highest = Seqno(n), !.top = n, !.seen = sn]
  BY <1>0, <1>1 DEF Advance
<1>s. Skipped(m, Seqno(n)) = {Entry(Seqno(i)) : i \in (t + 1) .. (n - 1)}
  BY <1>0, <1>1, SkippedIs
<1> HIDE DEF k, sn
<1>5. /\ k \in DemuxType /\ k.initialized = m.initialized /\ k.highest = Seqno(n) /\ k.top = n
      /\ k.seen = sn /\ k.handing = m.handing /\ k.passed = m.passed /\ k.refused = m.refused
  BY <1>0, <1>3, <1>4, Zenon DEF DemuxType
<1>6. Given(m, n) = 0
  BY <1>0, <1>1
<1> HIDE DEF t
<1>7. ASSUME NEW i \in Places, i <= n, n - i < History
      PROVE  Entry(Seqno(i)) \in sn <=> Given(m, i) = 1 \/ i = n
  <2>0. i \in Nat /\ History \in Nat \ {0} /\ Given(m, i) \in {0, 1}
    BY <1>0, Constants DEF Places
  <2>1. CASE i = n
    BY <2>1 DEF sn
  <2>2. CASE i # n
    <3>1. Entry(Seqno(i)) # Entry(Seqno(n))
      <4>1. i - n < History
        BY <1>0, <1>7, <2>0
      <4> QED BY <4>1, <2>2, <1>7, EntriesApart
    <3>2. CASE n - t >= History
      <4>1. Given(m, i) # 1
        BY <1>0, <1>7, <2>0, <3>2
      <4> QED BY <4>1, <3>1, <3>2, <2>2 DEF sn
    <3>3. CASE n - t < History /\ i > t
      <4>1. Given(m, i) # 1
        BY <1>0, <2>0, <3>3
      <4>2. i \in (t + 1) .. (n - 1)
        BY <1>0, <1>7, <2>0, <2>2, <3>3
      <4>3. Entry(Seqno(i)) \in Skipped(m, Seqno(n))
        BY <1>s, <4>2
      <4> QED BY <4>1, <4>3, <3>1, <2>2 DEF sn
    <3>4. CASE n - t < History /\ i <= t
      <4>1. ASSUME NEW j \in (t + 1) .. (n - 1) PROVE Entry(Seqno(i)) # Entry(Seqno(j))
        <5>1. /\ j \in Places /\ i # j /\ i - j < History /\ j - i < History
          BY <1>0, <1>7, <2>0, <3>4, <4>1 DEF Places, Stream
        <5> QED BY <5>1, EntriesApart
      <4>2. Entry(Seqno(i)) \notin Skipped(m, Seqno(n))
        BY <1>s, <4>1
      <4>3. t - i < History
        BY <1>0, <1>1, <1>7, <2>0
      <4>4. Entry(Seqno(i)) \in m.seen <=> Given(m, i) = 1
        BY <1>0, <3>4, <4>3
      <4>5. ~(n - t >= History)
        BY <1>0, <2>0, <3>4
      <4> QED BY <4>2, <4>4, <4>5, <3>1, <2>2 DEF sn
    <3> QED BY <1>0, <2>0, <3>2, <3>3, <3>4
  <2> QED BY <2>1, <2>2
<1>8. \A i \in Places : Given(m, i) = 1 => i <= n
  BY <1>0, <1>1 DEF Places
<1>9. DemuxInv(Accept(k, l, n))
  <2>1. k.initialized /\ k.top \in Places /\ k.highest = Seqno(k.top) /\ n <= k.top
    BY <1>0, <1>5
  <2>2. \A i \in Places : i <= k.top /\ k.top - i < History =>
               (Entry(Seqno(i)) \in k.seen <=> Given(m, i) = 1 \/ i = n)
    BY <1>5, <1>7
  <2>3. \A i \in Places : Given(m, i) = 1 => i <= k.top
    BY <1>5, <1>8
  <2> QED BY <2>1, <2>2, <2>3, <1>5, <1>6, AcceptKeeps
<1> QED BY <1>2, <1>9

LEMMA BehindKeeps ==
    ASSUME Stream, NEW m, DemuxInv(m), NEW l \in Links, NEW n \in Places, m.handing[l] = None,
           m.initialized, Near(n, m.top), n <= m.top
    PROVE  DemuxInv(DemuxPush(m, l, n))
<1> DEFINE t == m.top
<1>0. /\ m \in DemuxType /\ n \in Nat \ {0} /\ n \in Nat
      /\ t \in Places /\ t \in Nat \ {0} /\ t \in Nat /\ m.highest = Seqno(t)
      /\ \A i \in Places : Given(m, i) \in {0, 1}
      /\ \A i \in m.refused : Given(m, i) = 1
      /\ \A i \in Places : Given(m, i) = 1 => i <= t
      /\ \A i \in Places : i <= t /\ t - i < History =>
             (Entry(Seqno(i)) \in m.seen <=> Given(m, i) = 1)
  BY DEF DemuxInv, Places, Window
<1>1. Diff(Seqno(n), Seqno(t)) = n - t /\ ~(n - t > 0)
  BY <1>0, DiffIs
<1>2. CASE 2 * (n - t) <= -History
  <2>1. DemuxPush(m, l, n) = m
    BY <1>0, <1>1, <1>2 DEF DemuxPush
  <2> QED BY <2>1
<1>3. CASE ~(2 * (n - t) <= -History)
  <2>1. n <= t /\ t - n < History
    BY <1>0, <1>3, Constants
  <2>2. Entry(Seqno(n)) \in m.seen <=> Given(m, n) = 1
    BY <2>1, <1>0
  <2>3. CASE Entry(Seqno(n)) \in m.seen
    <3> DEFINE k == [m EXCEPT !.refused = @ \cup {n}]
    <3>1. DemuxPush(m, l, n) = k
      BY <1>0, <1>1, <1>3, <2>3 DEF DemuxPush
    <3>2. m.refused \cup {n} \in SUBSET Places
      BY <1>0 DEF DemuxType
    <3>3. /\ k \in DemuxType /\ k.initialized = m.initialized /\ k.highest = m.highest
          /\ k.top = m.top /\ k.seen = m.seen /\ k.handing = m.handing /\ k.passed = m.passed
          /\ k.refused = m.refused \cup {n}
      BY <1>0, <3>2, Zenon DEF DemuxType
    <3> HIDE DEF k, t
    <3>4. \A i : Given(k, i) = Given(m, i)
      BY <3>3 DEF Given
    <3>5. Window(k) <=> Window(m)
      BY <3>3, <3>4 DEF Window
    <3>6. DemuxInv(k)
      BY <3>3, <3>4, <3>5, <2>2, <2>3 DEF DemuxInv
    <3> QED BY <3>1, <3>6
  <2>4. CASE Entry(Seqno(n)) \notin m.seen
    <3> DEFINE sn == m.seen \cup {Entry(Seqno(n))}
               k == [m EXCEPT !.seen = sn]
    <3>1. DemuxPush(m, l, n) = Accept(k, l, n)
      BY <1>0, <1>1, <1>3, <2>4 DEF DemuxPush
    <3>2. sn \in SUBSET (0 .. History - 1)
      <4>1. Entry(Seqno(n)) \in 0 .. History - 1
        BY <1>0, EntryType
      <4> QED BY <4>1, <1>0 DEF DemuxType
    <3>3. /\ k \in DemuxType /\ k.initialized = m.initialized /\ k.highest = m.highest
          /\ k.top = m.top /\ k.seen = sn /\ k.handing = m.handing /\ k.passed = m.passed
          /\ k.refused = m.refused
      <4> HIDE DEF sn
      <4> QED BY <1>0, <3>2, Zenon DEF DemuxType
    <3> HIDE DEF k
    <3>4. Given(m, n) = 0
      BY <1>0, <2>2, <2>4
    <3>5. ASSUME NEW i \in Places, i <= t, t - i < History
          PROVE  Entry(Seqno(i)) \in sn <=> Given(m, i) = 1 \/ i = n
      <4>1. CASE i = n
        BY <4>1
      <4>2. CASE i # n
        <5>1. i - n < History /\ n - i < History
          BY <1>0, <2>1, <3>5, Constants DEF Places
        <5>2. Entry(Seqno(i)) # Entry(Seqno(n))
          BY <5>1, <4>2, EntriesApart
        <5>3. Entry(Seqno(i)) \in m.seen <=> Given(m, i) = 1
          BY <3>5, <1>0
        <5> QED BY <5>2, <5>3, <4>2
      <4> QED BY <4>1, <4>2
    <3> HIDE DEF sn
    <3>6. DemuxInv(Accept(k, l, n))
      <4>1. k.initialized /\ k.top \in Places /\ k.highest = Seqno(k.top) /\ n <= k.top
        BY <1>0, <3>3
      <4>2. \A i \in Places : i <= k.top /\ k.top - i < History =>
               (Entry(Seqno(i)) \in k.seen <=> Given(m, i) = 1 \/ i = n)
        BY <3>3, <3>5
      <4>3. \A i \in Places : Given(m, i) = 1 => i <= k.top
        BY <1>0, <3>3
      <4> QED BY <4>1, <4>2, <4>3, <3>3, <3>4, AcceptKeeps
    <3> QED BY <3>1, <3>6
  <2> QED BY <2>3, <2>4
<1> QED BY <1>2, <1>3

LEMMA ReceiveKeeps ==
    ASSUME Stream, NEW m, DemuxInv(m), NEW l \in Links, NEW n \in Places, m.handing[l] = None,
           m.initialized => Near(n, m.top)
    PROVE  DemuxInv(DemuxPush(m, l, n))
<1>1. m.initialized \in BOOLEAN /\ (m.initialized => m.top \in Places)
  BY DEF DemuxInv, DemuxType
<1>2. m.initialized => n > m.top \/ n <= m.top
  BY <1>1 DEF Places
<1> QED BY <1>1, <1>2, FirstKeeps, AheadKeeps, BehindKeeps

-----------------------------------------------------------------------------
(* The reorder buffer, as a record r.                                       *)

SlotNumbers == 0 .. Capacity - 1

ReorderType ==
    [slots : [SlotNumbers -> Places \cup {Empty}], next : 0 .. Modulus - 1, count : Int,
     linked : BOOLEAN, passed : [Places -> Nat], arrived : [Places -> Nat]]

Occupied(r) == {i \in SlotNumbers : r.slots[i] # Empty}

InSlot(r, n) == IF r.slots[Slot(Seqno(n))] = n THEN 1 ELSE 0

\* A packet lies in the slot of its sequence number and nowhere else, the
\* count is that of the occupied slots, and what arrived covers what is stored
\* and what was handed on.
ReorderInv(r) ==
    /\ r \in ReorderType
    /\ \A i \in SlotNumbers : r.slots[i] # Empty => Slot(Seqno(r.slots[i])) = i
    /\ r.count = Cardinality(Occupied(r))
    /\ \A n \in Places : r.passed[n] + InSlot(r, n) <= r.arrived[n]

LEMMA SlotType ==
    ASSUME NEW a \in Int PROVE Slot(a) \in SlotNumbers
BY Constants, DivisionFact DEF Slot, SlotNumbers

LEMMA OwnSlot ==
    ASSUME NEW n \in Places PROVE Slot(Seqno(n)) \in SlotNumbers /\ n # Empty
<1>1. n \in Nat \ {0} /\ Seqno(n) \in Int
  BY SeqnoType DEF Places
<1> QED BY <1>1, SlotType DEF Empty, None

LEMMA OccupiedFinite ==
    ASSUME NEW r PROVE IsFiniteSet(Occupied(r)) /\ Cardinality(Occupied(r)) \in 0 .. Capacity
<1>1. IsFiniteSet(SlotNumbers) /\ Cardinality(SlotNumbers) = Capacity
  <2>1. 0 \in Int /\ Capacity - 1 \in Int /\ (Capacity - 1) - 0 + 1 = Capacity /\ 0 <= Capacity - 1
    BY Constants
  <2> QED BY <2>1, FS_Interval DEF SlotNumbers
<1>2. Occupied(r) \subseteq SlotNumbers
  BY DEF Occupied
<1>3. IsFiniteSet(Occupied(r)) /\ Cardinality(Occupied(r)) <= Capacity
  BY <1>1, <1>2, FS_Subset
<1>4. Cardinality(Occupied(r)) \in Nat
  BY <1>3, FS_CardinalityType
<1> QED BY <1>3, <1>4, Constants

LEMMA ReorderStart ==
    ASSUME Stream PROVE ReorderInv(ReorderInit)
<1> DEFINE r == ReorderInit
<1>1. 0 \in 0 .. Modulus - 1 /\ 0 \in Int
  BY Constants
<1>2. /\ r \in ReorderType /\ \A i \in SlotNumbers : r.slots[i] = Empty
      /\ r.count = 0 /\ \A n \in Places : r.passed[n] = 0 /\ r.arrived[n] = 0
  BY <1>1 DEF ReorderInit, ReorderType, SlotNumbers, Stream
<1> HIDE DEF r
<1>3. Occupied(r) = {} /\ Cardinality({}) = 0
  BY <1>2, FS_EmptySet DEF Occupied
<1>4. \A n \in Places : InSlot(r, n) = 0
  BY <1>2, OwnSlot DEF InSlot
<1>5. ReorderInv(r)
  BY <1>2, <1>3, <1>4 DEF ReorderInv
<1> QED BY <1>5 DEF r

LEMMA StoreKeeps ==
    ASSUME Stream, NEW r \in ReorderType, NEW n \in Places, NEW how,
           \A i \in SlotNumbers : r.slots[i] # Empty => Slot(Seqno(r.slots[i])) = i,
           r.count = Cardinality(Occupied(r)),
           \A m \in Places : r.passed[m] + InSlot(r, m) <= r.arrived[m],
           r.passed[n] + 1 <= r.arrived[n]
    PROVE  ReorderInv(Store(r, n, how))
<1> DEFINE i0 == Slot(Seqno(n))
           old == r.slots[i0]
           left == IF old = Empty THEN r.count ELSE r.count - 1
<1>0. i0 \in SlotNumbers /\ n # Empty
  BY OwnSlot
<1>1. CASE old = n \/ (old # Empty /\ how = "equal")
  <2>1. Store(r, n, how) = r
    BY <1>1 DEF Store
  <2> QED BY <2>1 DEF ReorderInv
<1>3. CASE ~(old = n \/ (old # Empty /\ how = "equal")) /\ how = "no_memory"
  <2> DEFINE sl == [r.slots EXCEPT ![i0] = Empty]
             k == [r EXCEPT !.slots = sl, !.count = left]
  <2>1. Store(r, n, how) = k
    BY <1>3 DEF Store
  <2>2. r.slots \in [SlotNumbers -> Places \cup {Empty}] /\ r.count \in Int
    BY DEF ReorderType
  <2>3. /\ sl \in [SlotNumbers -> Places \cup {Empty}] /\ left \in Int
        /\ sl[i0] = Empty /\ \A i \in SlotNumbers : i # i0 => sl[i] = r.slots[i]
    BY <2>2, <1>0
  <2>4. left = IF old = Empty THEN r.count ELSE r.count - 1
    OBVIOUS
  <2> HIDE DEF sl, left
  <2>5. /\ k \in ReorderType /\ k.slots = sl /\ k.count = left /\ k.passed = r.passed
        /\ k.arrived = r.arrived
    BY <2>3, Zenon DEF ReorderType
  <2> HIDE DEF k
  <2>6. \A i \in SlotNumbers : k.slots[i] # Empty => Slot(Seqno(k.slots[i])) = i
    BY <2>3, <2>5
  <2>7. k.count = Cardinality(Occupied(k))
    <3>1. Occupied(k) = Occupied(r) \ {i0}
      BY <2>3, <2>5, <1>0 DEF Occupied
    <3>2. i0 \in Occupied(r) <=> old # Empty
      BY <1>0 DEF Occupied
    <3>3. IsFiniteSet(Occupied(r))
      BY OccupiedFinite
    <3>4. Cardinality(Occupied(r) \ {i0}) = IF i0 \in Occupied(r) THEN Cardinality(Occupied(r)) - 1
                                            ELSE Cardinality(Occupied(r))
      BY <3>3, FS_RemoveElement
    <3> HIDE DEF old, i0
    <3> QED BY <3>1, <3>2, <3>4, <2>4, <2>5
  <2>8. ASSUME NEW m \in Places PROVE k.passed[m] + InSlot(k, m) <= k.arrived[m]
    <3>0. r.passed[m] \in Nat /\ r.arrived[m] \in Nat
      BY DEF ReorderType
    <3>1. InSlot(k, m) <= InSlot(r, m) /\ InSlot(k, m) \in Nat /\ InSlot(r, m) \in Nat
      <4>1. Slot(Seqno(m)) \in SlotNumbers /\ m # Empty
        BY OwnSlot
      <4> QED BY <4>1, <2>3, <2>5 DEF InSlot
    <3> QED BY <3>0, <3>1, <2>5
  <2>9. ReorderInv(k)
    BY <2>5, <2>6, <2>7, <2>8 DEF ReorderInv
  <2> QED BY <2>1, <2>9
<1>2. CASE ~(old = n \/ (old # Empty /\ how = "equal")) /\ how # "no_memory"
  <2> DEFINE c == left + 1
             sl == [r.slots EXCEPT ![i0] = n]
             k == [r EXCEPT !.slots = sl, !.count = c]
  <2>1. Store(r, n, how) = k
    BY <1>2 DEF Store
  <2>2. r.slots \in [SlotNumbers -> Places \cup {Empty}] /\ r.count \in Int
    BY DEF ReorderType
  <2>3. /\ sl \in [SlotNumbers -> Places \cup {Empty}] /\ c \in Int
        /\ sl[i0] = n /\ \A i \in SlotNumbers : i # i0 => sl[i] = r.slots[i]
    BY <2>2, <1>0
  <2>4. c = IF old = Empty THEN r.count + 1 ELSE r.count
    BY <2>2
  <2> HIDE DEF sl, c
  <2>5. /\ k \in ReorderType /\ k.slots = sl /\ k.count = c /\ k.passed = r.passed
        /\ k.arrived = r.arrived
    BY <2>3, Zenon DEF ReorderType
  <2> HIDE DEF k
  <2>6. \A i \in SlotNumbers : k.slots[i] # Empty => Slot(Seqno(k.slots[i])) = i
    BY <2>3, <2>5
  <2>7. k.count = Cardinality(Occupied(k))
    <3>1. Occupied(k) = Occupied(r) \cup {i0}
      BY <2>3, <2>5, <1>0 DEF Occupied
    <3>2. i0 \in Occupied(r) <=> old # Empty
      BY <1>0 DEF Occupied
    <3>3. IsFiniteSet(Occupied(r))
      BY OccupiedFinite
    <3>4. Cardinality(Occupied(r) \cup {i0}) = IF i0 \in Occupied(r) THEN Cardinality(Occupied(r))
                                               ELSE Cardinality(Occupied(r)) + 1
      BY <3>3, FS_AddElement
    <3> HIDE DEF old, i0
    <3> QED BY <3>1, <3>2, <3>4, <2>4, <2>5
  <2>8. ASSUME NEW m \in Places PROVE k.passed[m] + InSlot(k, m) <= k.arrived[m]
    <3>0. r.passed[m] \in Nat /\ r.arrived[m] \in Nat
      BY DEF ReorderType
    <3>1. CASE m = n
      <4>1. InSlot(k, m) = 1
        BY <3>1, <2>3, <2>5 DEF InSlot
      <4> QED BY <4>1, <3>1, <2>5
    <3>2. CASE m # n
      <4>1. InSlot(k, m) <= InSlot(r, m) /\ InSlot(k, m) \in Nat /\ InSlot(r, m) \in Nat
        <5>1. Slot(Seqno(m)) \in SlotNumbers
          BY OwnSlot
        <5> QED BY <5>1, <3>2, <2>3, <2>5 DEF InSlot
      <4> QED BY <4>1, <3>0, <2>5
    <3> QED BY <3>1, <3>2
  <2>9. ReorderInv(k)
    BY <2>5, <2>6, <2>7, <2>8 DEF ReorderInv
  <2> QED BY <2>1, <2>9
<1> QED BY <1>1, <1>2, <1>3

LEMMA InsertKeeps ==
    ASSUME Stream, NEW r, ReorderInv(r), NEW n \in Places, NEW how
    PROVE  ReorderInv(ReorderInsert(r, n, how))
<1> DEFINE nx == IF r.count = 0 THEN Seqno(n) ELSE r.next
           ar == [r.arrived EXCEPT ![n] = @ + 1]
           h == [r EXCEPT !.next = nx, !.arrived = ar]
<1>0. /\ r \in ReorderType
      /\ \A i \in SlotNumbers : r.slots[i] # Empty => Slot(Seqno(r.slots[i])) = i
      /\ r.count = Cardinality(Occupied(r))
      /\ \A m \in Places : r.passed[m] + InSlot(r, m) <= r.arrived[m]
  BY DEF ReorderInv
<1>1. ReorderInsert(r, n, how) \in {h, Store(h, n, how)}
  BY DEF ReorderInsert
<1>2. nx \in 0 .. Modulus - 1
  <2>1. n \in Nat \ {0}
    BY DEF Places
  <2> QED BY <2>1, <1>0, SeqnoType DEF ReorderType
<1>3. /\ ar \in [Places -> Nat] /\ ar[n] = r.arrived[n] + 1
      /\ \A m \in Places : m # n => ar[m] = r.arrived[m]
  BY <1>0 DEF ReorderType
<1> HIDE DEF nx, ar
<1>4. /\ h \in ReorderType /\ h.slots = r.slots /\ h.count = r.count /\ h.passed = r.passed
      /\ h.arrived = ar
  BY <1>0, <1>2, <1>3, Zenon DEF ReorderType
<1> HIDE DEF h
<1>5. Occupied(h) = Occupied(r) /\ \A m : InSlot(h, m) = InSlot(r, m)
  BY <1>4 DEF Occupied, InSlot
<1>6. \A m \in Places : /\ r.passed[m] \in Nat /\ r.arrived[m] \in Nat /\ InSlot(r, m) \in {0, 1}
  BY <1>0 DEF ReorderType, InSlot
<1>7. \A m \in Places : h.passed[m] + InSlot(h, m) <= h.arrived[m]
  BY <1>0, <1>3, <1>4, <1>5, <1>6
<1>8. h.passed[n] + 1 <= h.arrived[n]
  BY <1>0, <1>3, <1>4, <1>6
<1>9. ReorderInv(h)
  BY <1>0, <1>4, <1>5, <1>7 DEF ReorderInv
<1>10. ReorderInv(Store(h, n, how))
  BY <1>0, <1>4, <1>5, <1>7, <1>8, StoreKeeps
<1> QED BY <1>1, <1>9, <1>10

\* The drain takes as many packets as follow each other from next on.
LEMMA RunExists ==
    ASSUME Stream, NEW r, ReorderInv(r)
    PROVE  LET filled == {k \in 0 .. Capacity : Empty \notin Range(Run(r, k))}
               k == CHOOSE j \in filled : \A i \in filled : i <= j
           IN  k \in filled
<1> DEFINE filled == {k \in 0 .. Capacity : Empty \notin Range(Run(r, k))}
<1>0. Capacity \in Nat
  BY Constants
<1>1. \A k \in 0 .. Capacity :
          Range(Run(r, k)) = {r.slots[Slot(r.next + i - 1)] : i \in 1 .. k}
  BY DEF Range, Run
<1>2. 0 \in filled
  BY <1>0, <1>1
<1>3. \A k \in filled : \A j \in 0 .. k : j \in filled
  <2> SUFFICES ASSUME NEW k \in filled, NEW j \in 0 .. k PROVE j \in filled
    OBVIOUS
  <2>1. k \in 0 .. Capacity /\ j \in 0 .. Capacity /\ 1 .. j \subseteq 1 .. k
    BY <1>0
  <2> QED BY <2>1, <1>1
<1>4. filled \in SUBSET (0 .. Capacity)
  OBVIOUS
<1> HIDE DEF filled
<1>5. PICK c \in filled : filled = 0 .. c
  BY <1>0, <1>2, <1>3, <1>4, DownClosed
<1>6. \A i \in filled : i <= c
  BY <1>0, <1>4, <1>5
<1>7. (CHOOSE j \in filled : \A i \in filled : i <= j) \in filled
  BY <1>6
<1> QED BY <1>7 DEF filled

LEMMA DrainKeeps ==
    ASSUME Stream, NEW r, ReorderInv(r)
    PROVE  ReorderInv(ReorderDrain(r))
<1> DEFINE filled == {j \in 0 .. Capacity : Empty \notin Range(Run(r, j))}
           k == CHOOSE j \in filled : \A i \in filled : i <= j
           gone == Range(Run(r, k))
           at(i) == Slot(r.next + i - 1)
           D == {at(i) : i \in 1 .. k}
           sl == [i \in DOMAIN r.slots |-> IF r.slots[i] \in gone THEN Empty ELSE r.slots[i]]
           ps == [n \in DOMAIN r.passed |-> r.passed[n] + IF n \in gone THEN 1 ELSE 0]
           c == r.count - k
           nx == (r.next + k) % Modulus
           q == [r EXCEPT !.slots = sl, !.count = c, !.next = nx, !.passed = ps]
<1>0. /\ r \in ReorderType
      /\ \A i \in SlotNumbers : r.slots[i] # Empty => Slot(Seqno(r.slots[i])) = i
      /\ r.count = Cardinality(Occupied(r))
      /\ \A m \in Places : r.passed[m] + InSlot(r, m) <= r.arrived[m]
  BY DEF ReorderInv
<1>t. /\ r.slots \in [SlotNumbers -> Places \cup {Empty}] /\ r.next \in Nat /\ r.count \in Int
      /\ r.passed \in [Places -> Nat] /\ r.arrived \in [Places -> Nat]
  BY <1>0, Constants DEF ReorderType
<1>c. Capacity \in Nat \ {0} /\ Modulus \in Nat \ {0}
  BY Constants
<1>1. ReorderDrain(r) \in {r, q}
  BY DEF ReorderDrain
<1>2. k \in filled
  BY RunExists
<1>3. k \in 0 .. Capacity /\ k \in Nat /\ Empty \notin gone
  <2> HIDE DEF k
  <2> QED BY <1>2, <1>c
<1> HIDE DEF k, filled
<1>4. gone = {r.slots[at(i)] : i \in 1 .. k}
  BY DEF Range, Run
<1>5. \A i \in 1 .. k : at(i) \in SlotNumbers
  <2> TAKE i \in 1 .. k
  <2>1. r.next + i - 1 \in Int
    BY <1>t, <1>3
  <2> QED BY <2>1, SlotType
<1>6. \A i, j \in 1 .. k : at(i) = at(j) => i = j
  <2> SUFFICES ASSUME NEW i \in 1 .. k, NEW j \in 1 .. k, at(i) = at(j) PROVE i = j
    OBVIOUS
  <2> DEFINE a == r.next + i - 1
             b == r.next + j - 1
  <2>1. a \in Int /\ b \in Int /\ a - b < Capacity /\ b - a < Capacity
    BY <1>t, <1>c, <1>3
  <2>2. a % Capacity = b % Capacity
    BY DEF Slot
  <2> HIDE DEF a, b
  <2>3. a = b
    BY <2>1, <2>2, <1>c, SameRemainder
  <2> QED BY <2>3, <1>t, <1>3 DEF a, b
<1> HIDE DEF at, gone
<1>7. gone \subseteq Places
  BY <1>3, <1>4, <1>5, <1>t
<1>8. \A i \in SlotNumbers : r.slots[i] \in gone <=> i \in D
  <2>1. ASSUME NEW i \in SlotNumbers, r.slots[i] \in gone PROVE i \in D
    <3>1. PICK j \in 1 .. k : r.slots[i] = r.slots[at(j)]
      BY <2>1, <1>4
    <3>2. r.slots[i] # Empty /\ at(j) \in SlotNumbers
      BY <2>1, <1>3, <1>5
    <3>3. i = at(j)
      BY <3>1, <3>2, <1>0
    <3> QED BY <3>3
  <2>2. ASSUME NEW i \in SlotNumbers, i \in D PROVE r.slots[i] \in gone
    BY <2>2, <1>4
  <2> QED BY <2>1, <2>2
<1>9. IsFiniteSet(D) /\ Cardinality(D) = k
  <2> DEFINE f == [i \in 1 .. k |-> at(i)]
  <2>1. f \in Bijection(1 .. k, D)
    BY <1>6 DEF Bijection, Injection, Surjection, IsInjective
  <2>2. IsFiniteSet(1 .. k) /\ Cardinality(1 .. k) = k
    <3>1. 1 \in Int /\ k \in Int /\ k - 1 + 1 = k /\ (1 > k => k = 0)
      BY <1>3
    <3> QED BY <3>1, FS_Interval
  <2>3. ExistsBijection(1 .. k, D)
    BY <2>1 DEF ExistsBijection
  <2> HIDE DEF f, D
  <2> QED BY <2>2, <2>3, FS_Bijection
<1>10. D \subseteq Occupied(r)
  BY <1>3, <1>5, <1>8 DEF Occupied
<1> HIDE DEF D
<1>11. /\ sl \in [SlotNumbers -> Places \cup {Empty}]
       /\ \A i \in SlotNumbers : sl[i] = IF i \in D THEN Empty ELSE r.slots[i]
  BY <1>t, <1>8
<1>12. /\ ps \in [Places -> Nat]
       /\ \A n \in Places : ps[n] = IF n \in gone THEN r.passed[n] + 1 ELSE r.passed[n]
  BY <1>t
<1>13. c \in Int /\ nx \in 0 .. Modulus - 1
  <2>1. r.next + k \in Int
    BY <1>t, <1>3
  <2> QED BY <2>1, <1>t, <1>3, <1>c, DivisionFact
<1>14. c = r.count - k
  OBVIOUS
<1> HIDE DEF sl, ps, c, nx
<1>15. /\ q \in ReorderType /\ q.slots = sl /\ q.count = c /\ q.passed = ps
       /\ q.arrived = r.arrived
  BY <1>0, <1>11, <1>12, <1>13, Zenon DEF ReorderType
<1> HIDE DEF q
<1>16. \A i \in SlotNumbers : q.slots[i] # Empty => Slot(Seqno(q.slots[i])) = i
  BY <1>0, <1>11, <1>15
<1>17. q.count = Cardinality(Occupied(q))
  <2>1. Occupied(q) = Occupied(r) \ D
    BY <1>11, <1>15 DEF Occupied
  <2>2. IsFiniteSet(Occupied(r)) /\ Cardinality(Occupied(r)) \in Nat
    BY OccupiedFinite
  <2>3. Occupied(r) \cap D = D
    BY <1>10
  <2>4. Cardinality(Occupied(r) \ D) = Cardinality(Occupied(r)) - Cardinality(Occupied(r) \cap D)
    BY <2>2, FS_Difference
  <2> QED BY <2>1, <2>3, <2>4, <1>0, <1>9, <1>14, <1>15
<1>18. ASSUME NEW n \in Places PROVE q.passed[n] + InSlot(q, n) <= q.arrived[n]
  <2> DEFINE i0 == Slot(Seqno(n))
  <2>0. i0 \in SlotNumbers /\ n # Empty
    BY OwnSlot
  <2>1. /\ r.passed[n] \in Nat /\ r.arrived[n] \in Nat
        /\ r.passed[n] + InSlot(r, n) <= r.arrived[n]
    BY <1>0, <1>t
  <2>2. CASE n \in gone
    <3>1. PICK j \in 1 .. k : n = r.slots[at(j)]
      BY <2>2, <1>4
    <3>2. at(j) \in SlotNumbers /\ at(j) = i0
      BY <3>1, <2>0, <1>0, <1>5
    <3>3. r.slots[i0] = n /\ i0 \in D
      BY <3>1, <3>2, <2>2, <1>8
    <3>4. InSlot(r, n) = 1 /\ InSlot(q, n) = 0
      BY <3>3, <2>0, <1>11, <1>15 DEF InSlot
    <3>5. q.passed[n] = r.passed[n] + 1
      BY <2>2, <1>12, <1>15
    <3> QED BY <3>4, <3>5, <2>1, <1>15
  <2>3. CASE n \notin gone
    <3>1. InSlot(q, n) <= InSlot(r, n) /\ InSlot(q, n) \in Nat /\ InSlot(r, n) \in Nat
      BY <2>0, <1>11, <1>15 DEF InSlot
    <3>2. q.passed[n] = r.passed[n]
      BY <2>3, <1>12, <1>15
    <3> QED BY <3>1, <3>2, <2>1, <1>15
  <2> QED BY <2>2, <2>3
<1>19. ReorderInv(q)
  BY <1>15, <1>16, <1>17, <1>18 DEF ReorderInv
<1> QED BY <1>1, <1>19

\* Where a packet is stored
LEMMA StoredIs ==
    ASSUME NEW r, ReorderInv(r), NEW n \in Places
    PROVE  Cardinality({i \in SlotNumbers : r.slots[i] = n}) = InSlot(r, n)
<1> DEFINE S == {i \in SlotNumbers : r.slots[i] = n}
<1>0. Slot(Seqno(n)) \in SlotNumbers /\ n # Empty
  BY OwnSlot
<1>1. \A i \in S : i = Slot(Seqno(n))
  BY <1>0 DEF ReorderInv
<1>2. CASE r.slots[Slot(Seqno(n))] = n
  <2>1. S = {Slot(Seqno(n))}
    BY <1>0, <1>1, <1>2
  <2>2. \A x : Cardinality({x}) = 1
    BY FS_Singleton
  <2> QED BY <2>1, <2>2, <1>2 DEF InSlot
<1>3. CASE r.slots[Slot(Seqno(n))] # n
  <2>1. S = {}
    BY <1>1, <1>3
  <2> QED BY <2>1, <1>3, FS_EmptySet DEF InSlot
<1> QED BY <1>2, <1>3

-----------------------------------------------------------------------------
(* The theorems.                                                            *)

Network ==
    wire \in [Links -> SUBSET Places] /\ copies \in 0 .. MaxCopies[role]

ReceiverInv ==
    /\ Stream
    /\ Network
    /\ DepayInv(depay)
    /\ DemuxInv(demux)
    /\ ReorderInv(reorder)

LEMMA StreamInit == Init => Stream
<1> SUFFICES ASSUME Init PROVE Stream
  OBVIOUS
<1>1. PICK s \in Streams[role] : packets = PacketsOf(s, role)
  BY DEF Init
<1>2. role \in Roles /\ s \in Seq(Seq(Nat))
  BY <1>1, ReceiverConstants DEF Init
<1>3. StreamShape(packets, role)
  BY <1>1, <1>2, StreamShaped
<1>4. Len(packets) \in Nat /\ DOMAIN packets = 1 .. Len(packets)
  <2>1. packets \in Seq(Packet)
    BY <1>3 DEF StreamShape
  <2> QED BY <2>1
<1> QED BY <1>2, <1>3, <1>4 DEF Stream, Places

\* The stream stays what it is.
LEMMA StreamStays ==
    ASSUME Stream, [Next]_vars PROVE packets' = packets /\ role' = role /\ Stream'
<1>1. packets' = packets /\ role' = role
  BY Zenon DEF Next, vars, DepayEos, FailoverDetectionElapses, SdpPadLinked, DemuxHandOn,
               DepayTakes, DepayReceive, DepayNoData, DepayNoBuffer, SdpReceive, DemuxReceive,
               SdpReceiveBatch, Deliver
<1> QED BY <1>1 DEF Stream, Places

LEMMA DepayCarried ==
    ASSUME packets' = packets, role' = role, DepayInv(depay') PROVE DepayInv(depay)'
BY Zenon DEF DepayInv, Received, AtHand, NoGap, Whole, Span, BeginsUnit, EndsUnit, Au, DepayType,
             Places, UnitOf

LEMMA DemuxCarried ==
    ASSUME packets' = packets, DemuxInv(demux') PROVE DemuxInv(demux)'
BY Zenon DEF DemuxInv, Window, Given, DemuxType, Places

LEMMA ReorderCarried ==
    ASSUME packets' = packets, ReorderInv(reorder') PROVE ReorderInv(reorder)'
BY Zenon DEF ReorderInv, ReorderType, Occupied, InSlot, Places

LEMMA ReorderStep ==
    ASSUME Stream, ReorderInv(reorder), [Next]_vars PROVE ReorderInv(reorder)'
<1>0. packets' = packets
  BY StreamStays
<1> SUFFICES ReorderInv(reorder')
  BY <1>0, ReorderCarried
<1>1. ASSUME NEW n \in DOMAIN packets, SdpReceive(n) PROVE ReorderInv(reorder')
  <2>1. n \in Places
    BY DEF Stream
  <2>2. PICK how \in Insertions : reorder' = ReorderDrain(ReorderInsert(reorder, n, how))
    BY <1>1 DEF SdpReceive
  <2>3. ReorderInv(ReorderInsert(reorder, n, how))
    BY <2>1, InsertKeeps
  <2> QED BY <2>2, <2>3, DrainKeeps
<1>2. ASSUME NEW m \in DOMAIN packets, NEW n \in DOMAIN packets, SdpReceiveBatch(m, n)
      PROVE  ReorderInv(reorder')
  <2>1. m \in Places /\ n \in Places
    BY DEF Stream
  <2>2. PICK a, b \in Insertions :
           reorder' = ReorderDrain(ReorderInsert(ReorderInsert(reorder, m, a), n, b))
    BY <1>2 DEF SdpReceiveBatch
  <2>3. ReorderInv(ReorderInsert(reorder, m, a))
    BY <2>1, InsertKeeps
  <2>4. ReorderInv(ReorderInsert(ReorderInsert(reorder, m, a), n, b))
    BY <2>1, <2>3, InsertKeeps
  <2> QED BY <2>2, <2>4, DrainKeeps
<1>3. ASSUME SdpPadLinked PROVE ReorderInv(reorder')
  <2>1. reorder' = [reorder EXCEPT !.linked = TRUE]
    BY <1>3 DEF SdpPadLinked
  <2>2. /\ reorder \in ReorderType
        /\ \A i \in SlotNumbers : reorder.slots[i] # Empty => Slot(Seqno(reorder.slots[i])) = i
        /\ reorder.count = Cardinality(Occupied(reorder))
        /\ \A n \in Places : reorder.passed[n] + InSlot(reorder, n) <= reorder.arrived[n]
    BY DEF ReorderInv
  <2>3. /\ reorder' \in ReorderType /\ reorder'.slots = reorder.slots
        /\ reorder'.count = reorder.count /\ reorder'.passed = reorder.passed
        /\ reorder'.arrived = reorder.arrived
    BY <2>1, <2>2, Zenon DEF ReorderType
  <2>4. Occupied(reorder') = Occupied(reorder) /\ \A n : InSlot(reorder', n) = InSlot(reorder, n)
    BY <2>3 DEF Occupied, InSlot
  <2> QED BY <2>2, <2>3, <2>4 DEF ReorderInv
<1>4. ASSUME UNCHANGED reorder PROVE ReorderInv(reorder')
  BY <1>4
<1> QED BY <1>1, <1>2, <1>3, <1>4 DEF Next, vars, DepayEos, FailoverDetectionElapses, DemuxHandOn,
        DepayTakes, DepayReceive, DepayNoData, DepayNoBuffer, DemuxReceive

LEMMA DepayStep ==
    ASSUME Stream, DepayInv(depay), [Next]_vars, [InTime]_vars PROVE DepayInv(depay)'
<1>0. packets' = packets /\ role' = role
  BY StreamStays
<1> SUFFICES DepayInv(depay')
  BY <1>0, DepayCarried
<1>1. ASSUME NEW n \in DOMAIN packets, DepayReceive(n) PROVE DepayInv(depay')
  <2>1. n \in Places /\ role \in Codecs /\ ~depay.ended /\ depay' = DepayPush(depay, n)
    BY <1>1 DEF Stream, DepayReceive
  <2>2. CASE InTime
    <3>1. depay.have => Near(n, depay.last)
      BY <1>1, <2>2 DEF InTime, DepayTakes
    <3>2. DepayInv(DepayPush(depay, n))
      BY <2>1, <3>1, PacketKeeps
    <3> QED BY <2>1, <3>2
  <2>3. CASE UNCHANGED vars
    BY <2>3 DEF vars
  <2> QED BY <2>2, <2>3
<1>2. ASSUME DepayEos PROVE DepayInv(depay')
  <2>1. /\ ~depay.ended
        /\ \/ depay' = [PushAu(depay, TRUE) EXCEPT !.ended = TRUE]
           \/ depay' = [NoBuffer(PushAu(depay, TRUE)) EXCEPT !.ended = TRUE]
    BY <1>2 DEF DepayEos
  <2>2. /\ DepayInv([PushAu(depay, TRUE) EXCEPT !.ended = TRUE])
        /\ DepayInv([NoBuffer(PushAu(depay, TRUE)) EXCEPT !.ended = TRUE])
    BY <2>1, EosKeeps
  <2> QED BY <2>1, <2>2
<1>3. ASSUME UNCHANGED depay PROVE DepayInv(depay')
  BY <1>3
<1>4. ASSUME NEW n \in DOMAIN packets, DepayNoData(n) \/ DepayNoBuffer(n) PROVE DepayInv(depay')
  <2>1. /\ n \in Places /\ role \in Codecs /\ ~depay.ended
        /\ \/ depay' = NoData(SeqChecked(depay, n), n)
           \/ depay' = NoBuffer(DepayPush(depay, n))
    BY <1>4 DEF Stream, DepayNoData, DepayNoBuffer
  <2>2. CASE InTime
    <3>1. depay.have => Near(n, depay.last)
      BY <1>4, <2>2 DEF InTime, DepayTakes
    <3>2. DepayInv(NoData(SeqChecked(depay, n), n))
      BY <2>1, <3>1, NoDataKeeps
    <3>3. DepayInv(NoBuffer(DepayPush(depay, n)))
      BY <2>1, <3>1, PacketKeeps, NoBufferKeeps
    <3> QED BY <2>1, <3>2, <3>3
  <2>3. CASE UNCHANGED vars
    BY <2>3 DEF vars
  <2> QED BY <2>2, <2>3
<1> QED BY <1>1, <1>2, <1>3, <1>4 DEF Next, vars, FailoverDetectionElapses, SdpPadLinked,
        DemuxHandOn, DepayTakes, SdpReceive, DemuxReceive, SdpReceiveBatch

LEMMA DemuxStep ==
    ASSUME Stream, DemuxInv(demux), [Next]_vars, [InTime]_vars PROVE DemuxInv(demux)'
<1>0. packets' = packets
  BY StreamStays
<1> SUFFICES DemuxInv(demux')
  BY <1>0, DemuxCarried
<1>m. demux \in DemuxType
  BY DEF DemuxInv
<1>1. ASSUME NEW n \in DOMAIN packets, NEW l \in Links, DemuxReceive(l, n) PROVE DemuxInv(demux')
  <2>1. n \in Places /\ demux.handing[l] = None /\ demux' = DemuxPush(demux, l, n)
    BY <1>1 DEF Stream, DemuxReceive
  <2>2. CASE InTime
    <3>1. demux.initialized => Near(n, demux.top)
      BY <1>1, <2>2 DEF InTime
    <3>2. DemuxInv(DemuxPush(demux, l, n))
      BY <2>1, <3>1, ReceiveKeeps
    <3> QED BY <2>1, <3>2
  <2>3. CASE UNCHANGED vars
    BY <2>3 DEF vars
  <2> QED BY <2>2, <2>3
<1>2. ASSUME NEW l \in Links, DemuxHandOn(l) PROVE DemuxInv(demux')
  <2> DEFINE h == [demux.handing EXCEPT ![l] = None]
             p == [demux.passed EXCEPT ![demux.handing[l]] = @ + 1]
  <2>1. demux.handing[l] # None /\ demux' = [demux EXCEPT !.handing = h, !.passed = p]
    BY <1>2 DEF DemuxHandOn
  <2>2. h \in [Links -> Places \cup {None}] /\ p \in [Places -> Nat]
    BY <2>1, <1>m DEF DemuxType
  <2> HIDE DEF h, p
  <2>3. /\ demux' \in DemuxType /\ demux'.initialized = demux.initialized
        /\ demux'.highest = demux.highest /\ demux'.top = demux.top /\ demux'.seen = demux.seen
        /\ demux'.refused = demux.refused /\ demux'.handing = h /\ demux'.passed = p
    BY <2>1, <2>2, <1>m, Zenon DEF DemuxType
  <2>4. \A i \in Places : Given(demux', i) = Given(demux, i)
    BY <2>1, <2>3, <1>m, HandingOnCounts DEF h, p
  <2>5. Window(demux') <=> Window(demux)
    BY <2>3, <2>4 DEF Window
  <2>6. demux.refused \subseteq Places
    BY <1>m DEF DemuxType
  <2> QED BY <2>3, <2>4, <2>5, <2>6 DEF DemuxInv
<1>3. ASSUME FailoverDetectionElapses PROVE DemuxInv(demux')
  <2>1. demux' = [demux EXCEPT !.quiet = TRUE]
    BY <1>3 DEF FailoverDetectionElapses
  <2>2. /\ demux' \in DemuxType /\ demux'.initialized = demux.initialized
        /\ demux'.highest = demux.highest /\ demux'.top = demux.top /\ demux'.seen = demux.seen
        /\ demux'.refused = demux.refused /\ demux'.handing = demux.handing
        /\ demux'.passed = demux.passed
    BY <2>1, <1>m, Zenon DEF DemuxType
  <2>3. \A i : Given(demux', i) = Given(demux, i)
    BY <2>2 DEF Given
  <2>4. Window(demux') <=> Window(demux)
    BY <2>2, <2>3 DEF Window
  <2> QED BY <2>2, <2>3, <2>4 DEF DemuxInv
<1>4. ASSUME UNCHANGED demux PROVE DemuxInv(demux')
  BY <1>4
<1> QED BY <1>1, <1>2, <1>3, <1>4 DEF Next, vars, DepayEos, SdpPadLinked, DepayTakes, DepayReceive,
        DepayNoData, DepayNoBuffer, SdpReceive, SdpReceiveBatch

LEMMA NetworkStep ==
    ASSUME Stream, Network, [Next]_vars PROVE Network'
<1>0. packets' = packets /\ role' = role /\ role \in Roles
  BY StreamStays DEF Stream
<1>1. MaxCopies[role] \in Nat
  BY <1>0, ReceiverConstants
<1>2. wire \in [Links -> SUBSET Places] /\ copies \in 0 .. MaxCopies[role]
  BY DEF Network
<1> SUFFICES wire' \in [Links -> SUBSET Places] /\ copies' \in 0 .. MaxCopies[role]
  BY <1>0 DEF Network, Places
<1>3. ASSUME NEW l \in Links, NEW n, Deliver(l, n)
      PROVE  wire' \in [Links -> SUBSET Places] /\ copies' \in 0 .. MaxCopies[role]
  <2>1. CASE wire' = [wire EXCEPT ![l] = @ \ {n}] /\ UNCHANGED copies
    BY <2>1, <1>2
  <2>2. CASE copies < MaxCopies[role] /\ copies' = copies + 1 /\ UNCHANGED wire
    BY <2>2, <1>1, <1>2
  <2> QED BY <1>3, <2>1, <2>2 DEF Deliver
<1>4. ASSUME NEW m, NEW n, SdpReceiveBatch(m, n)
      PROVE  wire' \in [Links -> SUBSET Places] /\ copies' \in 0 .. MaxCopies[role]
  BY <1>2, <1>4 DEF SdpReceiveBatch, Links
<1>5. ASSUME UNCHANGED <<wire, copies>>
      PROVE  wire' \in [Links -> SUBSET Places] /\ copies' \in 0 .. MaxCopies[role]
  BY <1>2, <1>5
<1>6. Primary \in Links
  BY DEF Links
<1> QED BY <1>3, <1>4, <1>5, <1>6 DEF Next, vars, DepayEos, FailoverDetectionElapses, SdpPadLinked,
        DemuxHandOn, DepayTakes, DepayReceive, DepayNoData, DepayNoBuffer, SdpReceive,
        DemuxReceive

LEMMA DemuxStart ==
    ASSUME Stream PROVE DemuxInv(DemuxOpen)
<1> DEFINE m == DemuxOpen
<1>1. 0 \in 0 .. Modulus - 1 /\ {} \in SUBSET (0 .. History - 1) /\ Primary \in Links
  BY Constants DEF Links
<1>2. /\ m \in DemuxType /\ m.initialized = FALSE /\ m.refused = {}
      /\ m.handing = [l \in Links |-> None] /\ m.passed = [n \in Places |-> 0]
  BY <1>1 DEF DemuxOpen, DemuxType, Stream
<1> HIDE DEF m
<1>3. 1 \in Links /\ 2 \in Links
  BY DEF Links, Primary, Backup
<1>4. \A n \in Places : Given(m, n) = 0
  <2> TAKE n \in Places
  <2>1. n # None
    BY DEF Places, None
  <2>2. m.passed[n] = 0 /\ m.handing[1] = None /\ m.handing[2] = None
    BY <1>2, <1>3
  <2>3. Given(m, n) = m.passed[n] + ((IF m.handing[1] = n THEN 1 ELSE 0)
                                     + (IF m.handing[2] = n THEN 1 ELSE 0))
    BY GivenIs
  <2> QED BY <2>1, <2>2, <2>3
<1>5. DemuxInv(m)
  BY <1>2, <1>4 DEF DemuxInv
<1> QED BY <1>5 DEF m

LEMMA ReceiverInit == Init => ReceiverInv
<1> SUFFICES ASSUME Init PROVE ReceiverInv
  OBVIOUS
<1>1. Stream
  BY StreamInit
<1>2. DepayInv(depay) /\ DemuxInv(demux) /\ ReorderInv(reorder)
  BY <1>1, OpenHolds, DemuxStart, ReorderStart DEF Init
<1>3. Network
  <2>1. MaxCopies[role] \in Nat
    BY <1>1, ReceiverConstants DEF Stream
  <2> QED BY <1>1, <2>1 DEF Init, Network, Stream
<1> QED BY <1>1, <1>2, <1>3 DEF ReceiverInv

(* The inductive invariant, on a network in which a packet is never half a *)
(* cycle of sequence numbers away from the newest one: the depayloader's   *)
(* access unit at hand ends with the last packet, and the history of the   *)
(* redundancy demuxer tells of the packets in its window which went        *)
(* through (rtp_depayloader.c:131-140, st2110_redundancy_demux.c:69-99).   *)
THEOREM ReceiverInvariant == Spec /\ Timely => []ReceiverInv
<1>1. Init => ReceiverInv
  BY ReceiverInit
<1>2. ReceiverInv /\ [Next]_vars /\ [InTime]_vars => ReceiverInv'
  <2> SUFFICES ASSUME ReceiverInv, [Next]_vars, [InTime]_vars PROVE ReceiverInv'
    OBVIOUS
  <2>1. Stream /\ Network /\ DepayInv(depay) /\ DemuxInv(demux) /\ ReorderInv(reorder)
    BY DEF ReceiverInv
  <2>2. Stream' /\ Network' /\ ReorderInv(reorder)'
    BY <2>1, StreamStays, NetworkStep, ReorderStep
  <2>3. DepayInv(depay)' /\ DemuxInv(demux)'
    BY <2>1, DepayStep, DemuxStep
  <2> QED BY <2>2, <2>3 DEF ReceiverInv
<1> QED BY <1>1, <1>2, PTL DEF Spec, Timely

LEMMA ReceiverTypes == ReceiverInv => TypeOK
<1> SUFFICES ASSUME ReceiverInv PROVE TypeOK
  OBVIOUS
<1>1. Stream /\ Network /\ depay \in DepayType /\ demux \in DemuxType /\ reorder \in ReorderType
  BY DEF ReceiverInv, DepayInv, Received, DemuxInv, ReorderInv
<1>2. role \in Roles /\ packets \in Seq(Packet) /\ DOMAIN packets = Places
  BY <1>1 DEF Stream, StreamShape
<1>3. wire \in [Links -> SUBSET DOMAIN packets] /\ copies \in 0 .. MaxCopies[role]
  BY <1>1, <1>2 DEF Network
<1>4. /\ depay.next \in 0 .. Modulus - 1 /\ depay.out \in Chunk
      /\ depay.data \in Seq(DOMAIN packets) /\ (depay.active <=> depay.data # <<>>)
  <2>1. /\ depay.next \in 0 .. Modulus - 1 /\ depay.data \in Seq(Places)
        /\ depay.out \in [data : Seq(Places), flagged : BOOLEAN, eos : BOOLEAN]
    BY <1>1 DEF DepayType
  <2>2. depay.active <=> depay.data # <<>>
    BY DEF ReceiverInv, DepayInv, Received
  <2> QED BY <2>1, <2>2, <1>2 DEF Chunk
<1>5. /\ demux.highest \in 0 .. Modulus - 1 /\ demux.seen \subseteq 0 .. History - 1
      /\ demux.current \in Links /\ demux.event \in {"none", "failover", "recovery"}
  BY <1>1 DEF DemuxType
<1>6. reorder.next \in 0 .. Modulus - 1 /\ reorder.count \in 0 .. Capacity
  <2>1. reorder.count = Cardinality(Occupied(reorder)) /\ reorder.next \in 0 .. Modulus - 1
    BY <1>1 DEF ReceiverInv, ReorderInv, ReorderType
  <2> QED BY <2>1, OccupiedFinite
<1> QED BY <1>2, <1>3, <1>4, <1>5, <1>6 DEF TypeOK

(* On two links, in any order and whatever is lost, across any number of   *)
(* wraps of the sequence number and of the history: no packet goes through *)
(* twice, and none is refused of which no copy went through                *)
(* (st2110_redundancy_demux.c:69-136).                                     *)
THEOREM AlwaysDeduplicated == Spec /\ Timely => []Deduplicated
<1>1. ReceiverInv => Deduplicated
  <2> SUFFICES ASSUME ReceiverInv PROVE Deduplicated
    OBVIOUS
  <2>1. TypeOK
    BY ReceiverTypes
  <2>2. DemuxInv(demux) /\ DOMAIN packets = Places
    BY DEF ReceiverInv, Stream
  <2>3. \A n : demux.passed[n] + Handing(n) = Given(demux, n)
    BY DEF Handing, Given
  <2>4. \A n \in Places : Given(demux, n) \in {0, 1}
    BY <2>2 DEF DemuxInv
  <2>5. PassedOnce
    BY <2>2, <2>3, <2>4 DEF PassedOnce
  <2>6. RefusedWasPassed
    BY <2>2, <2>3 DEF RefusedWasPassed, DemuxInv
  <2> QED BY <2>1, <2>5, <2>6 DEF Deduplicated
<1> QED BY <1>1, ReceiverInvariant, PTL

(* An H.264 access unit without the DROP flag is whole, but for the one    *)
(* the receiver joined in, at first or after there had been no memory for  *)
(* a packet, and the one cut off by EOS (rtp_depayloader.c:260-264, 316,   *)
(* 567-574).                                                               *)
THEOREM UnflaggedAlwaysWhole == Spec /\ Timely => []UnflaggedWhole
<1>1. ReceiverInv => UnflaggedWhole
  BY Zenon DEF ReceiverInv, DepayInv, Received, Whole, UnflaggedWhole
<1> QED BY <1>1, ReceiverInvariant, PTL

(* A buffer of any codec holds consecutive packets of one access unit      *)
(* (rtp_depayloader.c:131-140, 352-355).                                   *)
THEOREM UnitsNeverMixed == Spec /\ Timely => []NeverMixed
<1>1. ReceiverInv => NeverMixed
  <2> SUFFICES ASSUME ReceiverInv PROVE NeverMixed
    OBVIOUS
  <2> DEFINE data == depay.out.data
  <2>1. data \in Seq(Places) /\ Span(data)
    <3>1. depay \in DepayType /\ Span(depay.out.data)
      BY DEF ReceiverInv, DepayInv, Received
    <3> QED BY <3>1 DEF DepayType
  <2> HIDE DEF data
  <2>2. ASSUME NEW i \in DOMAIN data, i > 1
        PROVE  data[i] = data[i - 1] + 1 /\ packets[data[i]].au = packets[data[1]].au
    <3>1. i \in 1 .. Len(data) /\ i - 1 \in 1 .. Len(data) /\ 1 \in 1 .. Len(data) /\ i \in Nat
      BY <2>1, <2>2
    <3>2. data[i] = data[1] + i - 1 /\ data[i - 1] = data[1] + (i - 1) - 1
      BY <2>1, <3>1 DEF Span
    <3>3. packets[data[i]].au = packets[data[1]].au
      BY <2>1, <3>1 DEF Span, Au
    <3>4. data[1] \in Nat
      BY <2>1, <3>1 DEF Places
    <3> QED BY <3>1, <3>2, <3>3, <3>4
  <2> QED BY <2>2 DEF NeverMixed, data
<1> QED BY <1>1, ReceiverInvariant, PTL

(* The reorder buffer's count is that of its occupied slots, and a packet  *)
(* is handed on at most as often as it arrived, on any network             *)
(* (sdp_demuxer.c:229-254, 271-273).                                       *)
THEOREM ReorderAlwaysOwns == Spec => []ReorderOwns
<1> DEFINE Inv == Stream /\ ReorderInv(reorder)
<1>1. Init => Inv
  BY StreamInit, ReorderStart DEF Init
<1>2. Inv /\ [Next]_vars => Inv'
  BY StreamStays, ReorderStep
<1>3. Inv => ReorderOwns
  <2> SUFFICES ASSUME Stream, ReorderInv(reorder) PROVE ReorderOwns
    OBVIOUS
  <2>1. DOMAIN reorder.slots = SlotNumbers /\ DOMAIN packets = Places
    BY DEF ReorderInv, ReorderType, Stream
  <2>2. reorder.count = Cardinality({i \in DOMAIN reorder.slots : reorder.slots[i] # Empty})
    BY <2>1 DEF ReorderInv, Occupied
  <2>3. \A n \in Places : Stored(n) = InSlot(reorder, n)
    BY <2>1, StoredIs DEF Stored
  <2>4. \A n \in DOMAIN packets : reorder.passed[n] + Stored(n) <= reorder.arrived[n]
    BY <2>1, <2>3 DEF ReorderInv
  <2> QED BY <2>2, <2>4 DEF ReorderOwns
<1> QED BY <1>1, <1>2, <1>3, PTL DEF Spec
=============================================================================
