--------------------------- MODULE ZstQueueProofs ---------------------------
(***************************************************************************)
(* The safety of the ring of zst_queue.c for every number of producers and *)
(* consumers, every capacity and every limit.                              *)
(***************************************************************************)
EXTENDS ZstQueue, SequenceTheorems, FiniteSetTheorems, TLAPS

-----------------------------------------------------------------------------
(* Arithmetic of slot numbers.  The rest of the proof never expands Slot.   *)

LEMMA DivisionFact ==
    ASSUME NEW m \in Nat \ {0}, NEW a \in Nat
    PROVE  /\ a = m * (a \div m) + (a % m)
           /\ (a \div m) \in Nat
           /\ (a % m) \in 0..(m - 1)
OBVIOUS

LEMMA SmallMultiple ==
    ASSUME NEW m \in Nat \ {0}, NEW q \in Int, -m < m * q, m * q < m
    PROVE  q = 0
<1>1. ~(q >= 1)
  <2>1. SUFFICES ASSUME q >= 1 PROVE FALSE
    OBVIOUS
  <2>2. m * q >= m * 1
    BY <2>1
  <2> QED BY <2>2
<1>2. ~(q <= -1)
  <2>1. SUFFICES ASSUME q <= -1 PROVE FALSE
    OBVIOUS
  <2>2. m * q <= m * (-1)
    BY <2>1
  <2> QED BY <2>2
<1> QED BY <1>1, <1>2

LEMMA SameRemainder ==
    ASSUME NEW m \in Nat \ {0}, NEW a \in Nat, NEW b \in Nat,
           a <= b, b - a < m, a % m = b % m
    PROVE  a = b
<1>1. PICK q1 \in Nat : a = m * q1 + (a % m)
  BY DivisionFact
<1>2. PICK q2 \in Nat : b = m * q2 + (b % m)
  BY DivisionFact
<1>3. b - a = m * (q2 - q1)
  <2>1. (b % m) \in Int /\ m * q1 \in Int /\ m * q2 \in Int
    BY DivisionFact
  <2>2. b - a = m * q2 - m * q1
    BY <1>1, <1>2, <2>1
  <2>3. m * (q2 - q1) = m * q2 - m * q1
    OBVIOUS
  <2> QED BY <2>2, <2>3
<1>4. q2 - q1 = 0
  BY <1>3, SmallMultiple
<1> QED BY <1>3, <1>4

LEMMA UniqueRemainder ==
    ASSUME NEW m \in Nat \ {0}, NEW q1 \in Nat, NEW q2 \in Nat,
           NEW r1 \in 0..(m - 1), NEW r2 \in 0..(m - 1),
           m * q2 + r2 = m * q1 + r1 + m
    PROVE  r1 = r2
<1>1. q2 - q1 - 1 \in Int /\ m * (q2 - q1 - 1) = m * q2 - m * q1 - m
  OBVIOUS
<1>2. m * q1 \in Int /\ m * q2 \in Int
  OBVIOUS
<1>3. m * (q2 - q1 - 1) = r1 - r2
  BY <1>1, <1>2
<1>4. q2 - q1 - 1 = 0
  <2>1. -m < r1 - r2 /\ r1 - r2 < m
    OBVIOUS
  <2> QED BY <1>1, <1>3, <2>1, SmallMultiple
<1> QED BY <1>3, <1>4

LEMMA RemainderOfSum ==
    ASSUME NEW m \in Nat \ {0}, NEW a \in Nat
    PROVE  (a + m) % m = a % m
<1>1. PICK q1 \in Nat, r1 \in 0..(m - 1) : a = m * q1 + r1 /\ r1 = a % m
  BY DivisionFact
<1>2. a + m \in Nat
  OBVIOUS
<1>3. PICK q2 \in Nat, r2 \in 0..(m - 1) :
          a + m = m * q2 + r2 /\ r2 = (a + m) % m
  BY DivisionFact, <1>2
<1>4. m * q2 + r2 = m * q1 + r1 + m
  BY <1>1, <1>3
<1>5. r1 = r2
  BY <1>4, UniqueRemainder
<1> QED BY <1>1, <1>3, <1>5

LEMMA SlotType ==
    ASSUME NEW p \in Nat PROVE Slot(p) \in Slots
BY DivisionFact, CapacityAssumption DEF Slot, Slots

\* Two positions less than a round apart live in different slots.
LEMMA SlotInjective ==
    ASSUME NEW p \in Nat, NEW q \in Nat, p <= q, q - p < Capacity,
           Slot(p) = Slot(q)
    PROVE  p = q
<1>1. Capacity \in Nat \ {0}
  BY CapacityAssumption
<1>2. p % Capacity = q % Capacity
  BY DEF Slot
<1> QED BY <1>1, <1>2, SameRemainder

\* Positions a round apart share their slot.
LEMMA SlotRound ==
    ASSUME NEW p \in Nat PROVE Slot(p + Capacity) = Slot(p)
<1>1. Capacity \in Nat \ {0}
  BY CapacityAssumption
<1> QED BY <1>1, RemainderOfSum DEF Slot

-----------------------------------------------------------------------------
(* Types.                                                                   *)

LEMMA TypeInit == Init => TypeOK /\ Sides
BY CapacityAssumption, ThreadsAssumption DEF Init, TypeOK, Sides, CommonPc, PushPc, PopPc, Threads, Slots

\* A step of thread t that moves t from one program point of its side to
\* another one of its side.
Moves(t) ==
    /\ pc' = [pc EXCEPT ![t] = pc'[t]]
    /\ t \in Producers =>
        /\ pc'[t] \in PushPc /\ op'[t] # "flush"
        /\ pc'[t] # "idle" => item'[t] \in Buffers
    /\ t \in Consumers => pc'[t] \in PopPc
    /\ \A u \in Threads : u # t => item'[u] = item[u] /\ op'[u] = op[u]

LEMMA SidesKept ==
    ASSUME TypeOK, Sides, NEW t \in Threads, Moves(t)
    PROVE  Sides' /\ pc' \in [Threads -> PushPc \cup PopPc]
<1>1. (\A u \in Producers : pc[u] \in PushPc)'
  BY ThreadsAssumption DEF Moves, TypeOK, Sides, Threads
<1>2. (\A u \in Consumers : pc[u] \in PopPc)'
  BY ThreadsAssumption DEF Moves, TypeOK, Sides, Threads
<1>3. (\A u \in Producers : pc[u] # "idle" => item[u] \in Buffers)'
  BY ThreadsAssumption DEF Moves, TypeOK, Sides, Threads
<1>4. pc' \in [Threads -> PushPc \cup PopPc]
  BY <1>1, <1>2 DEF Moves, TypeOK, Threads
<1>5. (\A u \in Producers : op[u] # "flush")'
  BY ThreadsAssumption DEF Moves, TypeOK, Sides, Threads
<1> QED BY <1>1, <1>2, <1>3, <1>4, <1>5 DEF Sides

\* The steps that change nothing but pc.
PcOnly(t) ==
    \/ LoadSeq(t) \/ IsFullTail(t) \/ LoadWaiters(t) \/ RecheckSeq(t)
    \/ SpuriousWakeup(t) \/ Deadline(t) \/ Relock(t)

LEMMA PcOnlyFrame ==
    ASSUME TypeOK, Sides, NEW t \in Threads, PcOnly(t),
           IsFullTail(t) => t \in Producers
    PROVE  Moves(t) /\ UNCHANGED <<shared, waiters, lock, local, hist>>
<1>1. UNCHANGED <<shared, waiters, lock, local, hist>>
  BY DEF PcOnly, LoadSeq, IsFullTail, LoadWaiters, RecheckSeq,
         SpuriousWakeup, Deadline, Relock
<1>2. pc' = [pc EXCEPT ![t] = pc'[t]] /\ pc[t] # "idle"
  BY DEF PcOnly, LoadSeq, IsFullTail, LoadWaiters, RecheckSeq,
         SpuriousWakeup, Deadline, Relock, Goto, TypeOK
<1>3. \/ pc'[t] \in CommonPc
      \/ t \in Producers /\ pc'[t] \in {"fullHead", "incFull"}
      \/ t \in Consumers /\ pc'[t] = "again"
  BY DEF PcOnly, LoadSeq, IsFullTail, LoadWaiters, RecheckSeq,
         SpuriousWakeup, Deadline, Relock, Goto, TypeOK, Sides, NotReady,
         AfterOk, CommonPc, Threads
<1> QED BY <1>1, <1>2, <1>3, ThreadsAssumption
        DEF Moves, Sides, PushPc, PopPc, local

LEMMA IndexType == ASSUME TypeOK, NEW t \in Threads PROVE Index(t) \in Nat
BY DEF TypeOK, Index

\* Every action of one thread but Signal, which also moves the thread it
\* wakes, moves that thread only and keeps the types.
LEMMA TypeStep ==
    ASSUME TypeOK, Sides, [Next]_vars PROVE TypeOK' /\ Sides'
<1> USE ThreadsAssumption
<1>1. ASSUME NEW t \in Threads, PcOnly(t), IsFullTail(t) => t \in Producers
      PROVE  TypeOK' /\ Sides'
  BY <1>1, PcOnlyFrame, SidesKept DEF TypeOK, shared, local
<1>2. ASSUME NEW t \in Threads, ClaimFails(t) \/ Reload(t)
      PROVE  TypeOK' /\ Sides'
  <2>1. Moves(t)
    BY <1>2 DEF ClaimFails, Reload, Goto, Moves, TypeOK, Sides, CommonPc,
                PushPc, PopPc, Threads
  <2> QED BY <1>2, <2>1, SidesKept, IndexType
          DEF ClaimFails, Reload, TypeOK, shared
<1>3. ASSUME NEW t \in Threads, IncWaiters(t) \/ DecWaiters(t)
      PROVE  TypeOK' /\ Sides'
  <2>1. Moves(t)
    <3>1. pc' = [pc EXCEPT ![t] = pc'[t]] /\ pc[t] # "idle"
      BY <1>3 DEF IncWaiters, DecWaiters, Goto, TypeOK
    <3>2. \/ pc'[t] \in CommonPc
          \/ t \in Producers /\ pc'[t] = "recheckHead"
      BY <1>3 DEF IncWaiters, DecWaiters, Goto, TypeOK, Sides, CommonPc,
                  PopPc, Threads
    <3>3. UNCHANGED <<shared, lock, local, hist>>
      BY <1>3 DEF IncWaiters, DecWaiters
    <3> QED BY <3>1, <3>2, <3>3 DEF Moves, Sides, PushPc, PopPc, local
  <2>2. waiters' \in [{"push", "pop"} -> Int]
    BY <1>3 DEF IncWaiters, DecWaiters, TypeOK, Side
  <2>3. UNCHANGED <<shared, lock, local, hist>>
    BY <1>3 DEF IncWaiters, DecWaiters
  <2> QED BY <2>1, <2>2, <2>3, SidesKept DEF TypeOK, shared, local
<1>4. ASSUME NEW t \in Threads, Signal(t) PROVE TypeOK' /\ Sides'
  <2>1. PICK w \in Threads :
          /\ pc' = [pc EXCEPT ![t] = AfterOk(t), ![w] = "woken"]
             \/ pc' = [pc EXCEPT ![t] = AfterOk(t)]
          /\ pc[w] = "wait" \/ w = t
    BY <1>4 DEF Signal, Waiting, Goto
  <2>2. UNCHANGED <<shared, waiters, lock, local, hist>> /\ pc[t] = "signal"
    BY <1>4 DEF Signal
  <2>3. \A u \in Threads : pc'[u] \in {pc[u], "woken", AfterOk(t)}
    BY <2>1 DEF TypeOK
  <2>4. \A u \in Threads : u # t =>
            pc'[u] = pc[u] \/ (pc[u] = "wait" /\ pc'[u] = "woken")
    BY <2>1 DEF TypeOK
  <2>5. \A u \in Threads : pc'[u] # "idle" => pc[u] # "idle"
    BY <2>2, <2>4
  <2>6. \/ AfterOk(t) \in CommonPc
        \/ t \in Consumers /\ AfterOk(t) = "again"
    BY DEF AfterOk, Sides, CommonPc, Threads
  <2>7. /\ \A u \in Producers : pc'[u] \in PushPc
        /\ \A u \in Consumers : pc'[u] \in PopPc
    BY <2>3, <2>4, <2>6 DEF Sides, CommonPc, PushPc, PopPc, Threads
  <2>8. Sides'
    BY <2>2, <2>5, <2>7 DEF Sides, local, Threads
  <2>9. pc' \in [Threads -> PushPc \cup PopPc]
    BY <2>1, <2>7 DEF TypeOK, Threads
  <2> QED BY <2>2, <2>8, <2>9 DEF TypeOK, shared, local
<1>5. ASSUME NEW t \in Producers, NEW b \in Buffers, NEW o \in PushOps,
             PushCall(t, b, o)
      PROVE  TypeOK' /\ Sides'
  <2>1. Moves(t)
    BY <1>5, OpsAssumption DEF PushCall, Goto, Moves, TypeOK, CommonPc, PushPc,
                Threads
  <2>4. t \in Threads
    BY DEF Threads
  <2>5. Sides' /\ pc' \in [Threads -> PushPc \cup PopPc]
    BY <2>1, <2>4, SidesKept
  <2>6. /\ op' \in [Threads -> {"zero", "timed", "inf", "flush"}]
        /\ item' \in [Threads -> Buffers \cup {NoBuf}]
    BY <1>5, <2>4, OpsAssumption DEF PushCall, TypeOK
  <2>7. pos' \in [Threads -> Nat] /\ calls' \in [Threads -> Nat]
    BY <1>5, <2>4 DEF PushCall, TypeOK
  <2>8. TypeOK'
    BY <1>5, <2>5, <2>6, <2>7 DEF PushCall, TypeOK, shared
  <2> QED BY <2>5, <2>8
<1>6. ASSUME NEW t \in Consumers, NEW o \in PopOps, PopCall(t, o)
      PROVE  TypeOK' /\ Sides'
  <2>1. Moves(t)
    BY <1>6 DEF PopCall, Goto, Moves, TypeOK, CommonPc, PopPc, Threads
  <2>4. t \in Threads
    BY DEF Threads
  <2>5. Sides' /\ pc' \in [Threads -> PushPc \cup PopPc]
    BY <2>1, <2>4, SidesKept
  <2>6. /\ op' \in [Threads -> {"zero", "timed", "inf", "flush"}]
        /\ item' \in [Threads -> Buffers \cup {NoBuf}]
    BY <1>6, <2>4, OpsAssumption DEF PopCall, TypeOK
  <2>7. pos' \in [Threads -> Nat] /\ calls' \in [Threads -> Nat]
    BY <1>6, <2>4 DEF PopCall, TypeOK
  <2>8. TypeOK'
    BY <1>6, <2>5, <2>6, <2>7 DEF PopCall, TypeOK, shared
  <2> QED BY <2>5, <2>8
<1>7. ASSUME NEW t \in Consumers, FlushNext(t) PROVE TypeOK' /\ Sides'
  <2>1. Moves(t)
    BY <1>7 DEF FlushNext, Goto, Moves, TypeOK, CommonPc, PopPc, Threads
  <2>4. t \in Threads
    BY DEF Threads
  <2>5. Sides' /\ pc' \in [Threads -> PushPc \cup PopPc]
    BY <2>1, <2>4, SidesKept
  <2>6. TypeOK'
    BY <1>7, <2>4, <2>5
    DEF FlushNext, TypeOK, shared
  <2> QED BY <2>5, <2>6
<1>8. ASSUME NEW t \in Producers, IsFullHead(t) \/ RecheckHead(t)
      PROVE  TypeOK' /\ Sides'
  <2>1. Moves(t)
    BY <1>8 DEF IsFullHead, RecheckHead, Goto, Moves, TypeOK, Sides, PushPc,
                Threads
  <2>4. t \in Threads
    BY DEF Threads
  <2>5. Sides' /\ pc' \in [Threads -> PushPc \cup PopPc]
    BY <2>1, <2>4, SidesKept
  <2>6. TypeOK'
    BY <1>8, <2>4, <2>5
    DEF IsFullHead, RecheckHead, TypeOK, shared
  <2> QED BY <2>5, <2>6
<1>9. ASSUME NEW t \in Producers, RecheckTail(t) PROVE TypeOK' /\ Sides'
  <2>1. Moves(t)
    BY <1>9 DEF RecheckTail, Goto, Moves, TypeOK, Sides, CommonPc, PushPc,
                Threads, local
  <2>4. t \in Threads
    BY DEF Threads
  <2>5. Sides' /\ pc' \in [Threads -> PushPc \cup PopPc]
    BY <2>1, <2>4, SidesKept
  <2>6. TypeOK'
    BY <1>9, <2>4, <2>5
    DEF RecheckTail, TypeOK, shared, local
  <2> QED BY <2>5, <2>6
<1>10. ASSUME NEW t \in Producers, ClaimTail(t) PROVE TypeOK' /\ Sides'
  <2>1. Moves(t) /\ item[t] \in Buffers
    BY <1>10 DEF ClaimTail, Goto, Moves, TypeOK, Sides, PushPc, Threads, local
  <2>3. tail' \in Nat /\ hist' \in Seq(Buffers)
    BY <1>10, <2>1 DEF ClaimTail, TypeOK
  <2>4. t \in Threads
    BY DEF Threads
  <2>5. Sides' /\ pc' \in [Threads -> PushPc \cup PopPc]
    BY <2>1, <2>4, SidesKept
  <2>6. TypeOK'
    BY <1>10, <2>1, <2>3, <2>5
    DEF ClaimTail, TypeOK, local
  <2> QED BY <2>5, <2>6
<1>11. ASSUME NEW t \in Producers, FillSlot(t) \/ AddBytes(t)
       PROVE  TypeOK' /\ Sides'
  <2>1. Moves(t) /\ item[t] \in Buffers
    BY <1>11 DEF FillSlot, AddBytes, Goto, Moves, TypeOK, Sides, PushPc, Threads, local
  <2>2. item[t].size \in Nat
    BY <2>1, BuffersAssumption
  <2>3. bytes' \in Int /\ buf' \in [Slots -> Buffers \cup {NoBuf}]
    <3>1. buf' = [buf EXCEPT ![Slot(pos[t])] = item[t]] \/ buf' = buf
      BY <1>11 DEF FillSlot, AddBytes
    <3>2. bytes' \in Int
      BY <1>11, <2>2 DEF FillSlot, AddBytes, TypeOK
    <3>3. buf \in [Slots -> Buffers \cup {NoBuf}]
      BY DEF TypeOK
    <3> QED BY <2>1, <3>1, <3>2, <3>3
  <2>4. t \in Threads
    BY DEF Threads
  <2>5. Sides' /\ pc' \in [Threads -> PushPc \cup PopPc]
    BY <2>1, <2>4, SidesKept
  <2>6. TypeOK'
    BY <1>11, <2>3, <2>5
    DEF FillSlot, AddBytes, TypeOK, local
  <2> QED BY <2>5, <2>6
<1>12. ASSUME NEW t \in Producers, Publish(t) PROVE TypeOK' /\ Sides'
  <2>1. Moves(t)
    BY <1>12 DEF Publish, Goto, Moves, TypeOK, Sides, CommonPc, PushPc,
                 Threads, local
  <2>4. t \in Threads
    BY DEF Threads
  <2>5. Sides' /\ pc' \in [Threads -> PushPc \cup PopPc]
    BY <2>1, <2>4, SidesKept
  <2>7. seq' \in [Slots -> Nat]
    <3>1. pos[t] \in Nat /\ seq \in [Slots -> Nat]
      BY <2>4 DEF TypeOK
    <3>2. seq' = [seq EXCEPT ![Slot(pos[t])] = pos[t] + 1]
      BY <1>12 DEF Publish
    <3>3. pos[t] + 1 \in Nat
      BY <3>1
    <3> QED BY <3>1, <3>2, <3>3
  <2>6. TypeOK'
    BY <1>12, <2>5, <2>7
    DEF Publish, TypeOK, local
  <2> QED BY <2>5, <2>6
<1>13. ASSUME NEW t \in Consumers, ClaimHead(t) PROVE TypeOK' /\ Sides'
  <2>1. Moves(t)
    BY <1>13 DEF ClaimHead, Goto, Moves, TypeOK, PopPc, Threads, local
  <2>4. t \in Threads
    BY DEF Threads
  <2>5. Sides' /\ pc' \in [Threads -> PushPc \cup PopPc]
    BY <2>1, <2>4, SidesKept
  <2>6. TypeOK'
    BY <1>13, <2>4, <2>5
    DEF ClaimHead, TypeOK, local
  <2> QED BY <2>5, <2>6
<1>14. ASSUME NEW t \in Consumers, TakeSlot(t) PROVE TypeOK' /\ Sides'
  <2>1. Moves(t)
    BY <1>14 DEF TakeSlot, Goto, Moves, TypeOK, PopPc, Threads
  <2> DEFINE b == buf[Slot(pos[t])]
  <2>2. b \in Buffers \cup {NoBuf}
    BY SlotType DEF TypeOK, Threads
  <2>3. (IF b = NoBuf THEN 0 ELSE b.size) \in Int
    BY <2>2, BuffersAssumption
  <2>4. bytes' \in Int
    BY <1>14, <2>3 DEF TakeSlot, TypeOK
  <2>5. item' \in [Threads -> Buffers \cup {NoBuf}]
    BY <1>14, <2>2 DEF TakeSlot, TypeOK, Threads
  <2> QED BY <1>14, <2>1, <2>4, <2>5, SidesKept DEF TakeSlot, TypeOK, Threads
<1>14a. ASSUME NEW t \in Consumers, ClearSlot(t) PROVE TypeOK' /\ Sides'
  <2>1. Moves(t)
    BY <1>14a DEF ClearSlot, Goto, Moves, TypeOK, PopPc, Threads, local
  <2>2. t \in Threads
    BY DEF Threads
  <2>3. Sides' /\ pc' \in [Threads -> PushPc \cup PopPc]
    BY <2>1, <2>2, SidesKept
  <2>4. buf' \in [Slots -> Buffers \cup {NoBuf}]
    BY <1>14a DEF ClearSlot, TypeOK
  <2> QED BY <1>14a, <2>3, <2>4 DEF ClearSlot, TypeOK, local
<1>15. ASSUME NEW t \in Consumers, FreeSlot(t) PROVE TypeOK' /\ Sides'
  <2>1. Moves(t)
    BY <1>15 DEF FreeSlot, Goto, Moves, TypeOK, CommonPc, PopPc, Threads, local
  <2>4. t \in Threads
    BY DEF Threads
  <2>5. Sides' /\ pc' \in [Threads -> PushPc \cup PopPc]
    BY <2>1, <2>4, SidesKept
  <2>7. seq' \in [Slots -> Nat]
    <3>1. pos[t] \in Nat /\ seq \in [Slots -> Nat]
      BY <2>4 DEF TypeOK
    <3>2. seq' = [seq EXCEPT ![Slot(pos[t])] = pos[t] + Capacity]
      BY <1>15 DEF FreeSlot
    <3>3. pos[t] + Capacity \in Nat
      BY <3>1, CapacityAssumption
    <3> QED BY <3>1, <3>2, <3>3
  <2>6. TypeOK'
    BY <1>15, <2>5, <2>7
    DEF FreeSlot, TypeOK, local
  <2> QED BY <2>5, <2>6
<1>16. ASSUME UNCHANGED vars PROVE TypeOK' /\ Sides'
  BY <1>16 DEF vars, shared, local, TypeOK, Sides
<1>17. ASSUME NEW t \in Threads, Step(t) PROVE TypeOK' /\ Sides'
  <2>1. ~IsFullTail(t) \/ t \in Producers
    BY DEF IsFullTail, Sides, CommonPc, PopPc, Threads
  <2> QED BY <1>17, <2>1, <1>1, <1>2, <1>3, <1>4 DEF Step, PcOnly
<1>18. ASSUME NEW t \in Producers, ProducerStep(t) PROVE TypeOK' /\ Sides'
  <2>1. t \in Threads
    BY DEF Threads
  <2> QED BY <1>18, <2>1, <1>1, <1>5, <1>8, <1>9, <1>10, <1>11, <1>12
          DEF ProducerStep, PcOnly
<1>19. ASSUME NEW t \in Consumers, ConsumerStep(t) PROVE TypeOK' /\ Sides'
  BY <1>19, <1>6, <1>7, <1>13, <1>14, <1>14a, <1>15 DEF ConsumerStep
<1> QED BY <1>16, <1>17, <1>18, <1>19 DEF Next

\* Every variable keeps its type in every behaviour of the ring.
THEOREM TypeCorrect == Spec => []TypeOK
<1>1. Init => TypeOK /\ Sides
  BY TypeInit
<1>2. TypeOK /\ Sides /\ [Next]_vars => (TypeOK /\ Sides)'
  BY TypeStep
<1> QED BY <1>1, <1>2, PTL DEF Spec

-----------------------------------------------------------------------------
(* The steps that leave the ring alone.                                     *)

Ring == SlotPhases /\ Claims /\ Observations /\ Bounded

\* Thread t takes a step that neither touches the ring nor starts or ends a
\* claim, and knows after it what its new program point requires.
Stays(t) ==
    /\ UNCHANGED <<head, tail, seq, buf, hist>>
    /\ pc[t] \notin Working
    /\ pc'[t] \notin Working
    /\ \A u \in Threads : u # t =>
        /\ pos'[u] = pos[u] /\ item'[u] = item[u] /\ seen'[u] = seen[u]
        /\ pc'[u] = pc[u] \/ (pc[u] = "wait" /\ pc'[u] = "woken")
    /\ t \in Producers => ProducerKnows(t)'
    /\ t \in Consumers => ConsumerKnows(t)'

LEMMA RingStays ==
    ASSUME Ring, NEW t \in Threads, Stays(t) PROVE Ring'
<1>1. SlotPhases' /\ Bounded'
  BY DEF Stays, Ring, SlotPhases, Bounded, Limit
<1>2. /\ \A u \in Threads :
            pc'[u] \in Working =>
                u # t /\ pc'[u] = pc[u] /\ pos'[u] = pos[u] /\ item'[u] = item[u]
  BY DEF Stays, Working
<1>3. Claims'
  BY <1>2 DEF Stays, Ring, Claims, Filling, Taking, Threads, Working
<1>4. ASSUME NEW u \in Producers PROVE ProducerKnows(u)'
  <2>1. u \in Threads
    BY DEF Threads
  <2> QED BY <2>1 DEF Stays, Ring, Observations, ProducerKnows
<1>5. ASSUME NEW u \in Consumers PROVE ConsumerKnows(u)'
  <2>1. u \in Threads
    BY DEF Threads
  <2> QED BY <2>1 DEF Stays, Ring, Observations, ConsumerKnows
<1> QED BY <1>1, <1>3, <1>4, <1>5 DEF Ring, Observations

\* What a step of one thread leaves to all others.
LEMMA OthersStay ==
    ASSUME TypeOK, NEW t \in Threads,
           pc' = [pc EXCEPT ![t] = pc'[t]],
           \A u \in Threads : u # t =>
              pos'[u] = pos[u] /\ item'[u] = item[u] /\ seen'[u] = seen[u]
    PROVE  \A u \in Threads : u # t =>
              /\ pos'[u] = pos[u] /\ item'[u] = item[u] /\ seen'[u] = seen[u]
              /\ pc'[u] = pc[u] \/ (pc[u] = "wait" /\ pc'[u] = "woken")
BY DEF TypeOK

\* The steps that change pc only, and the ones that only count waiters.
LEMMA PcStepsStay ==
    ASSUME TypeOK, Sides, Ring, NEW t \in Threads,
           PcOnly(t) \/ IncWaiters(t) \/ DecWaiters(t) \/ RecheckTail(t),
           IsFullTail(t) => t \in Producers
    PROVE  Stays(t)
<1> DEFINE Ends == {"idle", "incSeq", "incFull", "reload", "recheckSeq",
                    "recheckHead", "wait", "woken", "late", "dec", "decLate"}
<1>1. UNCHANGED <<shared, local, hist>>
  BY DEF PcOnly, LoadSeq, IsFullTail, LoadWaiters, RecheckSeq, SpuriousWakeup,
         Deadline, Relock, IncWaiters, DecWaiters, RecheckTail
<1>2. pc' = [pc EXCEPT ![t] = pc'[t]]
  BY DEF PcOnly, LoadSeq, IsFullTail, LoadWaiters, RecheckSeq, SpuriousWakeup,
         Deadline, Relock, IncWaiters, DecWaiters, RecheckTail, Goto, TypeOK
<1>3. pc[t] \notin Working
  BY DEF PcOnly, LoadSeq, IsFullTail, LoadWaiters, RecheckSeq, SpuriousWakeup,
         Deadline, Relock, IncWaiters, DecWaiters, RecheckTail, Working
<1>4. \/ pc'[t] \in Ends
      \/ /\ pc'[t] \in {"fullHead", "claim"} /\ pc[t] = "seq"
         /\ seq[Slot(pos[t])] = Ready(t)
         /\ t \in Producers /\ HasExtraLimits => pc'[t] = "fullHead"
      \/ /\ pc'[t] = "claim" /\ pc[t] = "fullTail" /\ t \in Producers
         /\ ~IsFull(seen[t])
      \/ pc'[t] \in {"signal", "again"} /\ pc[t] = "notify"
  <2>1. CASE LoadSeq(t)
    <3>1. seq[Slot(pos[t])] \in Int /\ Ready(t) \in Int
      BY SlotType DEF TypeOK, Ready
    <3> QED BY <2>1, <3>1 DEF LoadSeq, Goto, NotReady, TypeOK
  <2>2. CASE IsFullTail(t)
    BY <2>2 DEF IsFullTail, Goto, NotReady, TypeOK
  <2>3. CASE LoadWaiters(t)
    BY <2>3 DEF LoadWaiters, Goto, AfterOk, TypeOK
  <2>4. CASE RecheckSeq(t) \/ SpuriousWakeup(t) \/ Deadline(t) \/ Relock(t)
    BY <2>4 DEF RecheckSeq, SpuriousWakeup, Deadline, Relock, Goto, TypeOK
  <2>5. CASE IncWaiters(t) \/ DecWaiters(t) \/ RecheckTail(t)
    BY <2>5 DEF IncWaiters, DecWaiters, RecheckTail, Goto, TypeOK
  <2> QED BY <2>1, <2>2, <2>3, <2>4, <2>5 DEF PcOnly
<1>5. ASSUME t \in Producers PROVE ProducerKnows(t)'
  <2>1. ProducerKnows(t)
    BY <1>5 DEF Ring, Observations
  <2>2. seen[t] \in Nat /\ head \in Nat /\ tail \in Nat /\ pos[t] \in Nat
    BY DEF TypeOK
  <2>3. Ready(t) = pos[t]
    BY <1>5 DEF Ready
  <2>4. ~IsFull(seen[t]) /\ MaxBuffers > 0 => tail - seen[t] < MaxBuffers
    BY <2>2, LimitsAssumption DEF IsFull
  <2> QED BY <1>1, <1>4, <1>5, <2>1, <2>2, <2>3, <2>4, LimitsAssumption
          DEF ProducerKnows, shared, local
<1>6. ASSUME t \in Consumers PROVE ConsumerKnows(t)'
  <2>1. ConsumerKnows(t) /\ t \notin Producers
    BY <1>6, ThreadsAssumption DEF Ring, Observations
  <2>2. Ready(t) = pos[t] + 1
    BY <2>1 DEF Ready
  <2> QED BY <1>1, <1>4, <2>1, <2>2 DEF ConsumerKnows, shared, local
<1>7. pc'[t] \notin Working
  BY <1>4 DEF Working
<1> QED BY <1>1, <1>2, <1>3, <1>5, <1>6, <1>7, OthersStay
        DEF Stays, shared, local

LEMMA SignalStays ==
    ASSUME TypeOK, Ring, NEW t \in Threads, Signal(t) PROVE Stays(t)
<1>1. /\ pc[t] = "signal"
      /\ \/ pc' = [pc EXCEPT ![t] = AfterOk(t)]
         \/ \E w \in Threads :
              pc[w] = "wait" /\ pc' = [pc EXCEPT ![t] = AfterOk(t), ![w] = "woken"]
  BY DEF Signal, Waiting, Goto
<1>2. UNCHANGED <<shared, local, hist>>
  BY DEF Signal
<1>3. /\ pc'[t] \in {"idle", "again"}
      /\ \A u \in Threads : u # t =>
          pc'[u] = pc[u] \/ (pc[u] = "wait" /\ pc'[u] = "woken")
  <2>1. CASE pc' = [pc EXCEPT ![t] = AfterOk(t)]
    BY <2>1 DEF TypeOK, AfterOk
  <2>2. ASSUME NEW w \in Threads, pc[w] = "wait",
               pc' = [pc EXCEPT ![t] = AfterOk(t), ![w] = "woken"]
        PROVE  <1>3!:
    BY <1>1, <2>2 DEF TypeOK, AfterOk
  <2> QED BY <1>1, <2>1, <2>2
<1>4. t \in Producers => ProducerKnows(t)'
  BY <1>2, <1>3 DEF Ring, Observations, ProducerKnows, shared, local
<1>5. t \in Consumers => ConsumerKnows(t)'
  BY <1>1, <1>2, <1>3 DEF Ring, Observations, ConsumerKnows, shared, local
<1> QED BY <1>1, <1>2, <1>3, <1>4, <1>5 DEF Stays, Working, shared, local

\* The steps that load an index, start a call or read head for is_full.
LEMMA LoadsStay ==
    ASSUME TypeOK, Sides, Ring, NEW t \in Threads,
           \/ ClaimFails(t) \/ Reload(t)
           \/ t \in Producers /\ (IsFullHead(t) \/ RecheckHead(t))
           \/ t \in Producers /\ \E b \in Buffers, o \in PushOps : PushCall(t, b, o)
           \/ t \in Consumers /\ \E o \in PopOps : PopCall(t, o)
           \/ t \in Consumers /\ FlushNext(t)
    PROVE  Stays(t)
<1>1. UNCHANGED <<shared, hist>>
  BY DEF ClaimFails, Reload, IsFullHead, RecheckHead, PushCall, PopCall, FlushNext
<1>2. pc' = [pc EXCEPT ![t] = pc'[t]]
  BY DEF ClaimFails, Reload, IsFullHead, RecheckHead, PushCall, PopCall,
         FlushNext, Goto, TypeOK
<1>3. pc[t] \notin Working
  BY DEF ClaimFails, Reload, IsFullHead, RecheckHead, PushCall, PopCall, FlushNext, Working
<1>4. \/ pc'[t] = "seq" /\ pos'[t] = Index(t) /\ seen'[t] = seen[t]
      \/ /\ t \in Producers
         /\ pc'[t] = "recheckTail" \/ (pc[t] = "fullHead" /\ pc'[t] = "fullTail")
         /\ seen'[t] = head /\ pos'[t] = pos[t]
  BY ThreadsAssumption DEF ClaimFails, Reload, IsFullHead, RecheckHead, PushCall,
         PopCall, FlushNext, Goto, TypeOK, Index
<1>5. \A u \in Threads : u # t =>
          pos'[u] = pos[u] /\ item'[u] = item[u] /\ seen'[u] = seen[u]
  BY DEF ClaimFails, Reload, IsFullHead, RecheckHead, PushCall, PopCall,
         FlushNext, TypeOK
<1>6. ASSUME t \in Producers PROVE ProducerKnows(t)'
  <2>1. ProducerKnows(t) /\ Index(t) = tail
    BY <1>6 DEF Ring, Observations, Index
  <2> QED BY <1>1, <1>4, <2>1 DEF ProducerKnows, shared, TypeOK
<1>7. ASSUME t \in Consumers PROVE ConsumerKnows(t)'
  <2>1. t \notin Producers /\ Index(t) = head
    BY <1>7, ThreadsAssumption DEF Index
  <2> QED BY <1>1, <1>4, <2>1 DEF ConsumerKnows, shared, TypeOK
<1>8. pc'[t] \notin Working
  BY <1>4 DEF Working
<1> QED BY <1>1, <1>2, <1>3, <1>5, <1>6, <1>7, <1>8, OthersStay
        DEF Stays, shared

-----------------------------------------------------------------------------
(* The steps on the ring.                                                   *)

LEMMA SlotsDiffer ==
    ASSUME NEW p \in Nat, NEW q \in Nat, p # q, q - p < Capacity, p - q < Capacity
    PROVE  Slot(p) # Slot(q)
<1>1. CASE p <= q
  BY <1>1, SlotInjective
<1>2. CASE q <= p
  BY <1>2, SlotInjective
<1> QED BY <1>1, <1>2

\* History positions that exist keep their buffer when a new one is appended.
LEMMA HistoryGrows ==
    ASSUME TypeOK, NEW b \in Buffers, NEW i \in 1..Len(hist)
    PROVE  Append(hist, b)[i] = hist[i]
BY DEF TypeOK

LEMMA ClaimTailKeeps ==
    ASSUME TypeOK, Sides, Ring, NEW t \in Producers, ClaimTail(t) PROVE Ring'
<1> USE CapacityAssumption
<1>1. /\ t \in Threads /\ pc[t] = "claim" /\ item[t] \in Buffers /\ pos[t] = tail
      /\ head \in Nat /\ tail \in Nat /\ tail' = tail + 1 /\ hist \in Seq(Buffers)
      /\ \A u \in Threads : pos[u] \in Nat
  BY DEF ClaimTail, Threads, Sides, TypeOK
<1>2. /\ UNCHANGED <<head, seq, buf, pos, item, seen>>
      /\ pc'[t] = "fill" /\ \A u \in Threads : u # t => pc'[u] = pc[u]
      /\ hist' = Append(hist, item[t])
  BY <1>1 DEF ClaimTail, Goto, TypeOK, local
<1>3. seq[Slot(tail)] = tail
  BY <1>1 DEF Ring, Observations, ProducerKnows
<1>4. /\ head <= tail /\ tail <= head + Capacity /\ Len(hist) = tail
  BY DEF Ring, SlotPhases
<1>5. tail < head + Capacity
  <2>1. SUFFICES ASSUME tail = head + Capacity PROVE FALSE
    BY <1>1, <1>4
  <2>2. Slot(tail) = Slot(head)
    BY <2>1, <1>1, SlotRound
  <2>3. seq[Slot(head)] = head \/ seq[Slot(head)] = head + 1
    BY <1>1, <2>1 DEF Ring, SlotPhases
  <2> QED BY <1>1, <1>3, <2>1, <2>2, <2>3
<1>6. ASSUME NEW u \in Consumers, Taking(u) PROVE tail + 1 <= pos[u] + Capacity
  <2>1. u \in Threads /\ tail <= pos[u] + Capacity /\ seq[Slot(pos[u])] = pos[u] + 1
    BY <1>6 DEF Ring, Claims, Threads
  <2>2. SUFFICES ASSUME tail = pos[u] + Capacity PROVE FALSE
    BY <1>1, <2>1
  <2>3. Slot(tail) = Slot(pos[u])
    BY <1>1, <2>1, <2>2, SlotRound
  <2> QED BY <1>1, <1>3, <2>1, <2>2, <2>3
<1>7. \A i \in 1..tail : hist'[i] = hist[i]
  BY <1>1, <1>2, <1>4, HistoryGrows
<1>8. Len(hist') = tail + 1 /\ hist'[tail + 1] = item[t]
  BY <1>1, <1>2, <1>4
<1>9. SlotPhases'
  BY <1>1, <1>2, <1>3, <1>4, <1>5, <1>7, <1>8 DEF Ring, SlotPhases
<1>10. Claims'
  <2>1. ASSUME NEW u \in Producers, Filling(u)'
        PROVE  /\ u \in Threads /\ (u # t => Filling(u) /\ pos[u] < tail /\ pc'[u] = pc[u])
               /\ (head <= pos[u] /\ pos[u] < tail
                    /\ seq[Slot(pos[u])] = pos[u]
                    /\ item[u] = hist[pos[u] + 1]
                    /\ (pc[u] \in {"count", "publish"} => buf[Slot(pos[u])] = item[u]))'
    <3>1. u \in Threads
      BY DEF Threads
    <3>2. CASE u = t
      BY <1>1, <1>2, <1>3, <1>4, <1>8, <3>1, <3>2
    <3>3. CASE u # t
      <4>1. Filling(u) /\ pc'[u] = pc[u]
        BY <1>2, <2>1, <3>1, <3>3 DEF Filling
      <4>2. /\ head <= pos[u] /\ pos[u] < tail /\ seq[Slot(pos[u])] = pos[u]
            /\ item[u] = hist[pos[u] + 1]
            /\ pc[u] \in {"count", "publish"} => buf[Slot(pos[u])] = item[u]
        BY <4>1 DEF Ring, Claims
      <4>3. hist'[pos[u] + 1] = hist[pos[u] + 1]
        BY <1>1, <1>7, <3>1, <4>2
      <4> QED BY <1>1, <1>2, <3>1, <3>3, <4>1, <4>2, <4>3
    <3> QED BY <3>2, <3>3
  <2>2. ASSUME NEW u \in Producers, NEW v \in Producers,
               Filling(u)', Filling(v)', u # v
        PROVE  pos'[u] # pos'[v]
    <3>1. CASE u # t /\ v # t
      BY <1>2, <2>1, <2>2, <3>1 DEF Ring, Claims
    <3>2. CASE u = t \/ v = t
      BY <1>1, <1>2, <2>1, <2>2, <3>2
    <3> QED BY <3>1, <3>2
  <2>3. ASSUME NEW u \in Consumers PROVE Taking(u)' <=> Taking(u)
    BY <1>1, <1>2, ThreadsAssumption DEF Taking, Threads
  <2>4. ASSUME NEW u \in Consumers, Taking(u)
        PROVE  (/\ pos[u] < head /\ tail <= pos[u] + Capacity
                /\ seq[Slot(pos[u])] = pos[u] + 1
                /\ pc[u] \in {"take", "clear"} => buf[Slot(pos[u])] = hist[pos[u] + 1])'
    <3>1. /\ u \in Threads /\ u # t
          /\ pos[u] < head /\ seq[Slot(pos[u])] = pos[u] + 1
          /\ pc[u] \in {"take", "clear"} => buf[Slot(pos[u])] = hist[pos[u] + 1]
      BY <2>4, ThreadsAssumption DEF Ring, Claims, Threads
    <3>2. hist'[pos[u] + 1] = hist[pos[u] + 1]
      BY <1>1, <1>4, <1>7, <3>1
    <3> QED BY <1>1, <1>2, <1>6, <2>4, <3>1, <3>2
  <2> QED BY <1>2, <2>1, <2>2, <2>3, <2>4 DEF Ring, Claims
<1>11. ASSUME NEW u \in Producers PROVE ProducerKnows(u)'
  <2>1. u \in Threads /\ ProducerKnows(u)
    BY DEF Ring, Observations, Threads
  <2> QED BY <1>1, <1>2, <2>1 DEF ProducerKnows
<1>12. ASSUME NEW u \in Consumers PROVE ConsumerKnows(u)'
  <2>1. u \in Threads /\ u # t /\ ConsumerKnows(u)
    BY ThreadsAssumption DEF Ring, Observations, Threads
  <2>2. pos[u] < head => hist'[pos[u] + 1] = hist[pos[u] + 1]
    BY <1>1, <1>4, <1>7, <2>1
  <2> QED BY <1>1, <1>2, <2>1, <2>2 DEF ConsumerKnows
<1>13. Bounded'
  <2>1. ProducerKnows(t)
    BY DEF Ring, Observations
  <2>2. MaxBuffers > 0 => tail - head < MaxBuffers
    BY <1>1, <1>5, <2>1, LimitsAssumption DEF ProducerKnows, HasExtraLimits
  <2> QED BY <1>1, <1>2, <1>4, <1>5, <2>2, LimitsAssumption DEF Bounded, Limit
<1> QED BY <1>9, <1>10, <1>11, <1>12, <1>13 DEF Ring, Observations

LEMMA ClaimHeadKeeps ==
    ASSUME TypeOK, Sides, Ring, NEW t \in Consumers, ClaimHead(t) PROVE Ring'
<1> USE CapacityAssumption
<1>1. /\ t \in Threads /\ pc[t] = "claim" /\ pos[t] = head
      /\ head \in Nat /\ tail \in Nat /\ head' = head + 1
      /\ \A u \in Threads : pos[u] \in Nat
  BY DEF ClaimHead, Threads, TypeOK
<1>2. /\ UNCHANGED <<tail, seq, buf, pos, item, seen, hist>>
      /\ pc'[t] = "take" /\ \A u \in Threads : u # t => pc'[u] = pc[u]
  BY <1>1 DEF ClaimHead, Goto, TypeOK, local
<1>3. seq[Slot(head)] = head + 1
  BY <1>1 DEF Ring, Observations, ConsumerKnows
<1>4. head <= tail /\ tail <= head + Capacity /\ Len(hist) = tail
  BY DEF Ring, SlotPhases
<1>5. head < tail
  <2>1. SUFFICES ASSUME head = tail PROVE FALSE
    BY <1>1, <1>4
  <2>2. seq[Slot(head)] = head \/ seq[Slot(head)] = head + 1 - Capacity
    BY <1>1, <2>1 DEF Ring, SlotPhases
  <2> QED BY <1>1, <1>3, <2>2
<1>6. buf[Slot(head)] = hist[head + 1]
  BY <1>1, <1>3, <1>5 DEF Ring, SlotPhases
<1>7. Slot(head + Capacity) = Slot(head)
  BY <1>1, SlotRound
<1>8. SlotPhases'
  <2>1. ASSUME NEW p \in (tail')..(head' + Capacity - 1)
        PROVE  seq[Slot(p)] = p \/ seq[Slot(p)] = p + 1 - Capacity
    <3>1. CASE p < head + Capacity
      BY <1>1, <1>2, <2>1, <3>1 DEF Ring, SlotPhases
    <3>2. CASE p = head + Capacity
      BY <1>1, <1>3, <1>7, <3>2
    <3> QED BY <1>1, <1>2, <2>1, <3>1, <3>2
  <2>2. ASSUME NEW p \in (head')..(tail' - 1) PROVE p \in head..(tail - 1)
    BY <1>1, <1>2, <2>2
  <2>3. (head <= tail /\ tail <= head + Capacity /\ Len(hist) = tail)'
    BY <1>1, <1>2, <1>4, <1>5
  <2> QED BY <1>2, <2>1, <2>2, <2>3 DEF Ring, SlotPhases
<1>9. Claims'
  <2>1. ASSUME NEW u \in Producers
        PROVE  /\ Filling(u)' <=> Filling(u)
               /\ Filling(u) => head + 1 <= pos[u] /\ pc'[u] = pc[u]
    <3>1. u \in Threads /\ u # t
      BY ThreadsAssumption DEF Threads
    <3>2. Filling(u) => head <= pos[u] /\ seq[Slot(pos[u])] = pos[u]
      BY DEF Ring, Claims
    <3> QED BY <1>1, <1>2, <1>3, <3>1, <3>2 DEF Filling
  <2>2. ASSUME NEW u \in Consumers, u # t
        PROVE  (Taking(u)' <=> Taking(u)) /\ pc'[u] = pc[u]
    BY <1>2, <2>2 DEF Taking, Threads
  <2>3. ASSUME NEW u \in Consumers, Taking(u)'
        PROVE  (/\ pos[u] < head /\ tail <= pos[u] + Capacity
                /\ seq[Slot(pos[u])] = pos[u] + 1
                /\ pc[u] \in {"take", "clear"} => buf[Slot(pos[u])] = hist[pos[u] + 1])'
    <3>1. CASE u = t
      BY <1>1, <1>2, <1>3, <1>4, <1>6, <3>1
    <3>2. CASE u # t
      <4>1. Taking(u) /\ pc'[u] = pc[u] /\ pos[u] \in Nat
        BY <1>1, <2>2, <2>3, <3>2 DEF Threads
      <4>2. /\ pos[u] < head /\ tail <= pos[u] + Capacity
            /\ seq[Slot(pos[u])] = pos[u] + 1
            /\ pc[u] \in {"take", "clear"} => buf[Slot(pos[u])] = hist[pos[u] + 1]
        BY <4>1 DEF Ring, Claims
      <4> QED BY <1>1, <1>2, <4>1, <4>2
    <3> QED BY <3>1, <3>2
  <2>4. ASSUME NEW u \in Consumers, NEW v \in Consumers,
               Taking(u)', Taking(v)', u # v
        PROVE  pos'[u] # pos'[v]
    <3>1. \A w \in Consumers : w # t /\ Taking(w) => pos[w] < head
      BY DEF Ring, Claims
    <3>2. CASE u # t /\ v # t
      BY <1>2, <2>2, <2>4, <3>2 DEF Ring, Claims
    <3>3. CASE u = t
      BY <1>1, <1>2, <2>2, <2>4, <3>1, <3>3 DEF Threads
    <3>4. CASE v = t
      BY <1>1, <1>2, <2>2, <2>4, <3>1, <3>4 DEF Threads
    <3> QED BY <3>2, <3>3, <3>4
  <2>5. ASSUME NEW u \in Producers, Filling(u)
        PROVE  (/\ head <= pos[u] /\ pos[u] < tail
                /\ seq[Slot(pos[u])] = pos[u]
                /\ item[u] = hist[pos[u] + 1]
                /\ pc[u] \in {"count", "publish"} => buf[Slot(pos[u])] = item[u])'
    BY <1>1, <1>2, <2>1, <2>5 DEF Ring, Claims
  <2> QED BY <1>2, <2>1, <2>3, <2>4, <2>5 DEF Ring, Claims
<1>10. ASSUME NEW u \in Producers PROVE ProducerKnows(u)'
  <2>1. u \in Threads /\ u # t /\ ProducerKnows(u) /\ seen[u] \in Nat
    BY ThreadsAssumption DEF Ring, Observations, Threads, TypeOK
  <2> QED BY <1>1, <1>2, <2>1, LimitsAssumption DEF ProducerKnows
<1>11. ASSUME NEW u \in Consumers PROVE ConsumerKnows(u)'
  <2>1. u \in Threads /\ ConsumerKnows(u)
    BY DEF Ring, Observations, Threads
  <2> QED BY <1>1, <1>2, <2>1 DEF ConsumerKnows
<1>12. Bounded'
  BY <1>1, <1>2, <1>5, LimitsAssumption DEF Ring, Bounded, Limit
<1> QED BY <1>8, <1>9, <1>10, <1>11, <1>12 DEF Ring, Observations

\* Two claims are on different slots.
LEMMA ClaimsApart ==
    ASSUME TypeOK, Ring, NEW t \in Threads, NEW u \in Threads, t # u,
           Filling(t) \/ Taking(t), Filling(u) \/ Taking(u)
    PROVE  Slot(pos[t]) # Slot(pos[u])
<1> USE CapacityAssumption
<1>1. /\ pos[t] \in Nat /\ pos[u] \in Nat /\ head \in Nat /\ tail \in Nat
      /\ head <= tail /\ tail <= head + Capacity
  BY DEF TypeOK, Ring, SlotPhases
<1>2. \A v \in Threads :
        /\ Filling(v) => head <= pos[v] /\ pos[v] < tail
        /\ Taking(v) => pos[v] < head /\ tail <= pos[v] + Capacity
  BY DEF Ring, Claims, Filling, Taking
<1>3. CASE Filling(t) /\ Filling(u)
  BY <1>1, <1>2, <1>3, SlotsDiffer DEF Ring, Claims, Filling
<1>4. CASE Taking(t) /\ Taking(u)
  BY <1>1, <1>2, <1>4, SlotsDiffer DEF Ring, Claims, Taking
<1>5. CASE Filling(t) /\ Taking(u)
  BY <1>1, <1>2, <1>5, SlotsDiffer
<1>6. CASE Taking(t) /\ Filling(u)
  BY <1>1, <1>2, <1>6, SlotsDiffer
<1> QED BY <1>3, <1>4, <1>5, <1>6

LEMMA FillSlotKeeps ==
    ASSUME TypeOK, Sides, Ring, NEW t \in Producers, FillSlot(t) PROVE Ring'
<1> USE CapacityAssumption
<1>1. /\ t \in Threads /\ Filling(t)
      /\ head \in Nat /\ tail \in Nat /\ \A u \in Threads : pos[u] \in Nat
  BY DEF FillSlot, Filling, Threads, TypeOK
<1>2. /\ UNCHANGED <<head, tail, seq, pos, item, seen, hist>>
      /\ pc[t] = "fill" /\ pc'[t] = "count"
      /\ \A u \in Threads : u # t => pc'[u] = pc[u]
  BY <1>1 DEF FillSlot, Goto, TypeOK, local
<1>3. /\ buf'[Slot(pos[t])] = item[t]
      /\ \A p \in Nat : Slot(p) # Slot(pos[t]) => buf'[Slot(p)] = buf[Slot(p)]
  BY <1>1, SlotType DEF FillSlot, TypeOK
<1>4. /\ head <= pos[t] /\ pos[t] < tail /\ seq[Slot(pos[t])] = pos[t]
      /\ item[t] = hist[pos[t] + 1]
      /\ head <= tail /\ tail <= head + Capacity
  BY <1>1 DEF Ring, Claims, SlotPhases
<1>5. SlotPhases'
  <2>1. ASSUME NEW p \in head..(tail - 1), seq[Slot(p)] = p + 1
        PROVE  buf'[Slot(p)] = hist[p + 1]
    <3>1. p # pos[t]
      BY <1>1, <1>4, <2>1
    <3>2. Slot(p) # Slot(pos[t])
      BY <1>1, <1>4, <3>1, SlotsDiffer
    <3> QED BY <1>1, <1>3, <2>1, <3>2 DEF Ring, SlotPhases
  <2> QED BY <1>2, <2>1 DEF Ring, SlotPhases
<1>6. Claims'
  <2>1. ASSUME NEW u \in Threads
        PROVE  /\ Filling(u)' <=> Filling(u)
               /\ Taking(u)' <=> Taking(u)
               /\ u # t /\ (Filling(u) \/ Taking(u)) =>
                    pc'[u] = pc[u] /\ buf'[Slot(pos[u])] = buf[Slot(pos[u])]
    <3>1. t \notin Consumers
      BY ThreadsAssumption
    <3>2. u # t /\ (Filling(u) \/ Taking(u)) => Slot(pos[u]) # Slot(pos[t])
      BY <1>1, ClaimsApart
    <3> QED BY <1>1, <1>2, <1>3, <3>1, <3>2 DEF Filling, Taking
  <2> QED BY <1>1, <1>2, <1>3, <1>4, <2>1 DEF Ring, Claims, Threads
<1>7. ASSUME NEW u \in Producers PROVE ProducerKnows(u)'
  <2>1. u \in Threads /\ ProducerKnows(u)
    BY DEF Ring, Observations, Threads
  <2> QED BY <1>2, <2>1 DEF ProducerKnows
<1>8. ASSUME NEW u \in Consumers PROVE ConsumerKnows(u)'
  <2>1. u \in Threads /\ u # t /\ ConsumerKnows(u)
    BY ThreadsAssumption DEF Ring, Observations, Threads
  <2> QED BY <1>2, <2>1 DEF ConsumerKnows
<1>9. Bounded'
  BY <1>2 DEF Ring, Bounded, Limit
<1> QED BY <1>5, <1>6, <1>7, <1>8, <1>9 DEF Ring, Observations

\* The two steps on the byte counter move a thread within its claim.
LEMMA CountingKeeps ==
    ASSUME TypeOK, Sides, Ring, NEW t \in Threads,
           (t \in Producers /\ AddBytes(t)) \/ (t \in Consumers /\ TakeSlot(t))
    PROVE  Ring'
<1>1. /\ UNCHANGED <<head, tail, seq, buf, pos, seen, hist>>
      /\ \A u \in Threads : u # t => pc'[u] = pc[u] /\ item'[u] = item[u]
  BY DEF AddBytes, TakeSlot, Goto, TypeOK, local
<1>2. \/ /\ t \in Producers /\ t \notin Consumers
         /\ pc[t] = "count" /\ pc'[t] = "publish" /\ item'[t] = item[t]
      \/ /\ t \in Consumers /\ t \notin Producers
         /\ pc[t] = "take" /\ pc'[t] = "clear" /\ item'[t] = buf[Slot(pos[t])]
  BY ThreadsAssumption DEF AddBytes, TakeSlot, Goto, TypeOK, local
<1>3. \A u \in Threads : (Filling(u)' <=> Filling(u)) /\ (Taking(u)' <=> Taking(u))
  BY <1>1, <1>2 DEF Filling, Taking
<1>4. SlotPhases' /\ Bounded'
  BY <1>1 DEF Ring, SlotPhases, Bounded, Limit
<1>5. Claims'
  <2>1. \A u \in Producers : u \in Threads /\ item'[u] = item[u]
    BY <1>1, <1>2 DEF Threads
  <2> QED BY <1>1, <1>2, <1>3, <2>1 DEF Ring, Claims, Threads
<1>6. ASSUME NEW u \in Producers PROVE ProducerKnows(u)'
  <2>1. u \in Threads /\ ProducerKnows(u)
    BY DEF Ring, Observations, Threads
  <2> QED BY <1>1, <1>2, <2>1 DEF ProducerKnows
<1>7. ASSUME NEW u \in Consumers PROVE ConsumerKnows(u)'
  <2>1. u \in Threads /\ ConsumerKnows(u)
    BY DEF Ring, Observations, Threads
  <2>2. t \in Consumers => pos[t] < head /\ buf[Slot(pos[t])] = hist[pos[t] + 1]
    BY <1>2 DEF Ring, Claims, Taking
  <2> QED BY <1>1, <1>2, <2>1, <2>2 DEF ConsumerKnows
<1> QED BY <1>4, <1>5, <1>6, <1>7 DEF Ring, Observations

LEMMA ClearSlotKeeps ==
    ASSUME TypeOK, Sides, Ring, NEW t \in Consumers, ClearSlot(t) PROVE Ring'
<1> USE CapacityAssumption
<1>1. /\ t \in Threads /\ Taking(t)
      /\ head \in Nat /\ tail \in Nat /\ \A u \in Threads : pos[u] \in Nat
  BY DEF ClearSlot, Taking, Threads, TypeOK
<1>2. /\ UNCHANGED <<head, tail, seq, pos, item, seen, hist>>
      /\ pc[t] = "clear" /\ pc'[t] = "free"
      /\ \A u \in Threads : u # t => pc'[u] = pc[u]
  BY <1>1 DEF ClearSlot, Goto, TypeOK, local
<1>3. \A p \in Nat : Slot(p) # Slot(pos[t]) => buf'[Slot(p)] = buf[Slot(p)]
  BY <1>1, SlotType DEF ClearSlot, TypeOK
<1>4. /\ pos[t] < head /\ tail <= pos[t] + Capacity
      /\ head <= tail /\ tail <= head + Capacity
  BY <1>1, <1>2 DEF Ring, Claims, SlotPhases
<1>5. SlotPhases'
  <2>1. ASSUME NEW p \in head..(tail - 1) PROVE buf'[Slot(p)] = buf[Slot(p)]
    <3>1. Slot(p) # Slot(pos[t])
      BY <1>1, <1>4, <2>1, SlotsDiffer
    <3> QED BY <1>1, <1>3, <3>1
  <2> QED BY <1>2, <2>1 DEF Ring, SlotPhases
<1>6. Claims'
  <2>1. ASSUME NEW u \in Threads
        PROVE  /\ Filling(u)' <=> Filling(u)
               /\ Taking(u)' <=> Taking(u)
               /\ u # t /\ (Filling(u) \/ Taking(u)) =>
                    pc'[u] = pc[u] /\ buf'[Slot(pos[u])] = buf[Slot(pos[u])]
    <3>1. t \notin Producers
      BY ThreadsAssumption
    <3>2. u # t /\ (Filling(u) \/ Taking(u)) => Slot(pos[u]) # Slot(pos[t])
      BY <1>1, ClaimsApart
    <3> QED BY <1>1, <1>2, <1>3, <3>1, <3>2 DEF Filling, Taking
  <2>2. \A u \in Producers : u \in Threads /\ u # t
    BY ThreadsAssumption DEF Threads
  <2> QED BY <1>1, <1>2, <2>1, <2>2 DEF Ring, Claims, Threads
<1>7. ASSUME NEW u \in Producers PROVE ProducerKnows(u)'
  <2>1. u \in Threads /\ u # t /\ ProducerKnows(u)
    BY ThreadsAssumption DEF Ring, Observations, Threads
  <2> QED BY <1>2, <2>1 DEF ProducerKnows
<1>8. ASSUME NEW u \in Consumers PROVE ConsumerKnows(u)'
  <2>1. u \in Threads /\ ConsumerKnows(u)
    BY DEF Ring, Observations, Threads
  <2> QED BY <1>2, <1>4, <2>1 DEF ConsumerKnows
<1>9. Bounded'
  BY <1>2 DEF Ring, Bounded, Limit
<1> QED BY <1>5, <1>6, <1>7, <1>8, <1>9 DEF Ring, Observations

LEMMA PublishKeeps ==
    ASSUME TypeOK, Sides, Ring, NEW t \in Producers, Publish(t) PROVE Ring'
<1> USE CapacityAssumption
<1>1. /\ t \in Threads /\ Filling(t)
      /\ head \in Nat /\ tail \in Nat /\ \A u \in Threads : pos[u] \in Nat
  BY DEF Publish, Filling, Threads, TypeOK
<1>2. /\ UNCHANGED <<head, tail, buf, pos, item, seen, hist>>
      /\ pc[t] = "publish" /\ pc'[t] = "notify"
      /\ \A u \in Threads : u # t => pc'[u] = pc[u]
  BY <1>1 DEF Publish, Goto, TypeOK, local
<1>3. /\ seq'[Slot(pos[t])] = pos[t] + 1
      /\ \A p \in Nat : Slot(p) # Slot(pos[t]) => seq'[Slot(p)] = seq[Slot(p)]
  BY <1>1, SlotType DEF Publish, TypeOK
<1>4. /\ head <= pos[t] /\ pos[t] < tail /\ seq[Slot(pos[t])] = pos[t]
      /\ buf[Slot(pos[t])] = hist[pos[t] + 1]
      /\ head <= tail /\ tail <= head + Capacity
  BY <1>1, <1>2 DEF Ring, Claims, SlotPhases
<1>5. \A p \in head..(head + Capacity - 1) :
          p = pos[t] \/ seq'[Slot(p)] = seq[Slot(p)]
  BY <1>1, <1>3, <1>4, SlotsDiffer
<1>6. SlotPhases'
  <2>1. ASSUME NEW p \in head..(tail - 1)
        PROVE  /\ seq'[Slot(p)] = p \/ seq'[Slot(p)] = p + 1
               /\ seq'[Slot(p)] = p + 1 => buf[Slot(p)] = hist[p + 1]
    <3>1. CASE p = pos[t]
      BY <1>1, <1>3, <1>4, <3>1
    <3>2. CASE seq'[Slot(p)] = seq[Slot(p)]
      BY <2>1, <3>2 DEF Ring, SlotPhases
    <3>3. p \in head..(head + Capacity - 1)
      BY <1>1, <1>4, <2>1
    <3> QED BY <1>5, <3>1, <3>2, <3>3
  <2>2. ASSUME NEW p \in tail..(head + Capacity - 1)
        PROVE  seq'[Slot(p)] = p \/ seq'[Slot(p)] = p + 1 - Capacity
    <3>1. p \in head..(head + Capacity - 1) /\ p # pos[t]
      BY <1>1, <1>4, <2>2
    <3>2. seq'[Slot(p)] = seq[Slot(p)]
      BY <1>5, <3>1
    <3> QED BY <2>2, <3>2 DEF Ring, SlotPhases
  <2> QED BY <1>2, <2>1, <2>2 DEF Ring, SlotPhases
<1>7. Claims'
  <2>1. ASSUME NEW u \in Threads
        PROVE  /\ Filling(u)' <=> Filling(u) /\ u # t
               /\ Taking(u)' <=> Taking(u)
               /\ u # t /\ (Filling(u) \/ Taking(u)) =>
                    pc'[u] = pc[u] /\ seq'[Slot(pos[u])] = seq[Slot(pos[u])]
    <3>1. t \notin Consumers
      BY ThreadsAssumption
    <3>2. u # t /\ (Filling(u) \/ Taking(u)) => Slot(pos[u]) # Slot(pos[t])
      BY <1>1, ClaimsApart
    <3> QED BY <1>1, <1>2, <1>3, <3>1, <3>2 DEF Filling, Taking
  <2>2. \A u \in Consumers : u \in Threads /\ u # t
    BY ThreadsAssumption DEF Threads
  <2> QED BY <1>1, <1>2, <2>1, <2>2 DEF Ring, Claims, Threads
<1>8. ASSUME NEW u \in Producers PROVE ProducerKnows(u)'
  <2>1. u \in Threads /\ ProducerKnows(u)
    BY DEF Ring, Observations, Threads
  <2>2. seq[Slot(tail)] = tail => seq'[Slot(tail)] = tail
    <3>1. CASE Slot(tail) = Slot(pos[t])
      BY <1>1, <1>4, <3>1
    <3>2. CASE Slot(tail) # Slot(pos[t])
      BY <1>1, <1>3, <3>2
    <3> QED BY <3>1, <3>2
  <2> QED BY <1>2, <2>1, <2>2 DEF ProducerKnows
<1>9. ASSUME NEW u \in Consumers PROVE ConsumerKnows(u)'
  <2>1. u \in Threads /\ u # t /\ ConsumerKnows(u)
    BY ThreadsAssumption DEF Ring, Observations, Threads
  <2>2. seq[Slot(head)] = head + 1 => seq'[Slot(head)] = head + 1
    <3>1. CASE Slot(head) = Slot(pos[t])
      BY <1>1, <1>4, <3>1, SlotsDiffer
    <3>2. CASE Slot(head) # Slot(pos[t])
      BY <1>1, <1>3, <3>2
    <3> QED BY <3>1, <3>2
  <2> QED BY <1>2, <2>1, <2>2 DEF ConsumerKnows
<1>10. Bounded'
  BY <1>2 DEF Ring, Bounded, Limit
<1> QED BY <1>6, <1>7, <1>8, <1>9, <1>10 DEF Ring, Observations

LEMMA FreeSlotKeeps ==
    ASSUME TypeOK, Sides, Ring, NEW t \in Consumers, FreeSlot(t) PROVE Ring'
<1> USE CapacityAssumption
<1>1. /\ t \in Threads /\ Taking(t)
      /\ head \in Nat /\ tail \in Nat /\ \A u \in Threads : pos[u] \in Nat
  BY DEF FreeSlot, Taking, Threads, TypeOK
<1>2. /\ UNCHANGED <<head, tail, buf, pos, item, seen, hist>>
      /\ pc[t] = "free" /\ pc'[t] = "notify"
      /\ \A u \in Threads : u # t => pc'[u] = pc[u]
  BY <1>1 DEF FreeSlot, Goto, TypeOK, local
<1>3. /\ seq'[Slot(pos[t])] = pos[t] + Capacity
      /\ \A p \in Nat : Slot(p) # Slot(pos[t]) => seq'[Slot(p)] = seq[Slot(p)]
  BY <1>1, SlotType DEF FreeSlot, TypeOK
<1>4. /\ pos[t] < head /\ tail <= pos[t] + Capacity
      /\ seq[Slot(pos[t])] = pos[t] + 1
      /\ head <= tail /\ tail <= head + Capacity
      /\ Slot(pos[t] + Capacity) = Slot(pos[t])
  BY <1>1, SlotRound DEF Ring, Claims, SlotPhases
<1>5. ASSUME NEW p \in head..(head + Capacity - 1), p # pos[t] + Capacity
      PROVE  seq'[Slot(p)] = seq[Slot(p)]
  <2>1. Slot(p) # Slot(pos[t] + Capacity)
    BY <1>1, <1>4, <1>5, SlotsDiffer
  <2> QED BY <1>1, <1>3, <1>4, <1>5, <2>1
<1>6. SlotPhases'
  <2>1. ASSUME NEW p \in head..(tail - 1) PROVE seq'[Slot(p)] = seq[Slot(p)]
    <3>1. p \in head..(head + Capacity - 1) /\ p # pos[t] + Capacity
      BY <1>1, <1>4, <2>1
    <3> QED BY <1>5, <3>1
  <2>2. ASSUME NEW p \in tail..(head + Capacity - 1)
        PROVE  seq'[Slot(p)] = p \/ seq'[Slot(p)] = p + 1 - Capacity
    <3>1. CASE p = pos[t] + Capacity
      BY <1>3, <1>4, <3>1
    <3>2. CASE p # pos[t] + Capacity
      <4>1. p \in head..(head + Capacity - 1)
        BY <1>1, <1>4, <2>2
      <4> QED BY <1>5, <2>2, <3>2, <4>1 DEF Ring, SlotPhases
    <3> QED BY <3>1, <3>2
  <2> QED BY <1>2, <2>1, <2>2 DEF Ring, SlotPhases
<1>7. Claims'
  <2>1. ASSUME NEW u \in Threads
        PROVE  /\ Taking(u)' <=> Taking(u) /\ u # t
               /\ Filling(u)' <=> Filling(u)
               /\ u # t /\ (Filling(u) \/ Taking(u)) =>
                    pc'[u] = pc[u] /\ seq'[Slot(pos[u])] = seq[Slot(pos[u])]
    <3>1. t \notin Producers
      BY ThreadsAssumption
    <3>2. u # t /\ (Filling(u) \/ Taking(u)) => Slot(pos[u]) # Slot(pos[t])
      BY <1>1, ClaimsApart
    <3> QED BY <1>1, <1>2, <1>3, <3>1, <3>2 DEF Filling, Taking
  <2>2. \A u \in Producers : u \in Threads /\ u # t
    BY ThreadsAssumption DEF Threads
  <2> QED BY <1>1, <1>2, <2>1, <2>2 DEF Ring, Claims, Threads
<1>8. ASSUME NEW u \in Producers PROVE ProducerKnows(u)'
  <2>1. u \in Threads /\ u # t /\ ProducerKnows(u)
    BY ThreadsAssumption DEF Ring, Observations, Threads
  <2>2. seq[Slot(tail)] = tail => seq'[Slot(tail)] = tail
    <3>1. CASE tail = pos[t] + Capacity
      BY <1>3, <1>4, <3>1
    <3>2. CASE tail # pos[t] + Capacity
      <4>1. Slot(tail) # Slot(pos[t])
        BY <1>1, <1>4, <3>2, SlotsDiffer
      <4> QED BY <1>1, <1>3, <4>1
    <3> QED BY <3>1, <3>2
  <2> QED BY <1>2, <2>1, <2>2 DEF ProducerKnows
<1>9. ASSUME NEW u \in Consumers PROVE ConsumerKnows(u)'
  <2>1. u \in Threads /\ ConsumerKnows(u)
    BY DEF Ring, Observations, Threads
  <2>2. seq[Slot(head)] = head + 1 => seq'[Slot(head)] = head + 1
    <3>1. CASE Slot(head) = Slot(pos[t])
      BY <1>1, <1>4, <3>1
    <3>2. CASE Slot(head) # Slot(pos[t])
      BY <1>1, <1>3, <3>2
    <3> QED BY <3>1, <3>2
  <2> QED BY <1>2, <2>1, <2>2 DEF ConsumerKnows
<1>10. Bounded'
  BY <1>2 DEF Ring, Bounded, Limit
<1> QED BY <1>6, <1>7, <1>8, <1>9, <1>10 DEF Ring, Observations

-----------------------------------------------------------------------------
(* The theorems.                                                            *)

LEMMA RingInit == Init => Ring
<1> SUFFICES ASSUME Init PROVE Ring
  OBVIOUS
<1> USE CapacityAssumption, LimitsAssumption
<1>1. /\ head = 0 /\ tail = 0 /\ hist = <<>>
      /\ \A t \in Threads : pc[t] = "idle" /\ pos[t] = 0 /\ seen[t] = 0
  BY DEF Init
<1>2. ASSUME NEW p \in 0..(Capacity - 1) PROVE seq[Slot(p)] = p
  <2>1. p \in Nat /\ Slot(p) = p
    BY DEF Slot
  <2> QED BY <2>1 DEF Init, Slots
<1>3. SlotPhases
  BY <1>1, <1>2 DEF SlotPhases
<1>4. Claims
  BY <1>1 DEF Claims, Filling, Taking, Threads
<1>5. Observations
  BY <1>1 DEF Observations, ProducerKnows, ConsumerKnows, Threads
<1>6. Bounded
  BY <1>1 DEF Bounded, Limit
<1> QED BY <1>3, <1>4, <1>5, <1>6 DEF Ring

LEMMA RingStep ==
    ASSUME TypeOK, Sides, Ring, [Next]_vars PROVE Ring'
<1>1. ASSUME NEW t \in Threads, Step(t) PROVE Ring'
  <2>1. ~IsFullTail(t) \/ t \in Producers
    BY DEF IsFullTail, Sides, CommonPc, PopPc, Threads
  <2>2. Stays(t)
    BY <1>1, <2>1, PcStepsStay, SignalStays, LoadsStay DEF Step, PcOnly
  <2> QED BY <2>2, RingStays
<1>2. ASSUME NEW t \in Producers, ProducerStep(t) PROVE Ring'
  <2>1. t \in Threads
    BY DEF Threads
  <2>2. CASE ClaimTail(t) \/ FillSlot(t) \/ AddBytes(t) \/ Publish(t)
    BY <2>1, <2>2, ClaimTailKeeps, FillSlotKeeps, CountingKeeps, PublishKeeps
  <2>3. CASE IsFullTail(t) \/ RecheckTail(t)
    BY <2>1, <2>3, PcStepsStay, RingStays DEF PcOnly
  <2>4. CASE \/ IsFullHead(t) \/ RecheckHead(t)
             \/ \E b \in Buffers, o \in PushOps : PushCall(t, b, o)
    BY <2>1, <2>4, LoadsStay, RingStays
  <2> QED BY <1>2, <2>2, <2>3, <2>4 DEF ProducerStep
<1>3. ASSUME NEW t \in Consumers, ConsumerStep(t) PROVE Ring'
  <2>1. t \in Threads
    BY DEF Threads
  <2>2. CASE ClaimHead(t) \/ TakeSlot(t) \/ ClearSlot(t) \/ FreeSlot(t)
    BY <2>1, <2>2, ClaimHeadKeeps, CountingKeeps, ClearSlotKeeps, FreeSlotKeeps
  <2>3. CASE FlushNext(t) \/ \E o \in PopOps : PopCall(t, o)
    BY <2>1, <2>3, LoadsStay, RingStays
  <2> QED BY <1>3, <2>2, <2>3 DEF ConsumerStep
<1>4. ASSUME UNCHANGED vars PROVE Ring'
  BY <1>4 DEF vars, shared, local, Ring, SlotPhases, Claims, Filling, Taking,
              Observations, ProducerKnows, ConsumerKnows, Bounded, Limit
<1> QED BY <1>1, <1>2, <1>3, <1>4 DEF Next

\* The inductive invariant holds in every behaviour of the ring.
THEOREM Invariant == Spec => []IndInv
<1>1. Init => IndInv
  BY TypeInit, RingInit DEF IndInv, Ring
<1>2. IndInv /\ [Next]_vars => IndInv'
  <2> SUFFICES ASSUME IndInv, [Next]_vars PROVE IndInv'
    OBVIOUS
  <2>1. TypeOK /\ Sides /\ Ring
    BY DEF IndInv, Ring
  <2>2. TypeOK' /\ Sides' /\ Ring'
    BY <2>1, TypeStep, RingStep
  <2> QED BY <2>2 DEF IndInv, Ring
<1> QED BY <1>1, <1>2, PTL DEF Spec

\* The queue never holds more than max_buffers buffers: the unlocked check of
\* zst_queue_is_full and the compare-and-swap of tail are together exact.
THEOREM QueueBounded == Spec => []Bounded
<1>1. IndInv => Bounded
  BY DEF IndInv
<1> QED BY <1>1, Invariant, PTL

\* No two threads of zst_queue_push and zst_queue_pop work on one slot.
THEOREM SlotsExclusive == Spec => []ExclusiveSlot
<1>1. IndInv => ExclusiveSlot
  <2> SUFFICES ASSUME IndInv, NEW t \in Owners, NEW u \in Owners, t # u
               PROVE  Slot(pos[t]) # Slot(pos[u])
    BY DEF ExclusiveSlot
  <2>1. /\ t \in Threads /\ u \in Threads
        /\ Filling(t) \/ Taking(t)
        /\ Filling(u) \/ Taking(u)
    BY DEF Owners, Working, Filling, Taking, IndInv, Sides, PushPc, PopPc, CommonPc,
           Threads
  <2> QED BY <2>1, ClaimsApart DEF IndInv, Ring
<1> QED BY <1>1, Invariant, PTL

\* A pop of position p delivers the buffer pushed at position p.
THEOREM FifoOrder == Spec => []FirstInFirstOut
<1>1. IndInv => FirstInFirstOut
  BY DEF IndInv, Observations, ConsumerKnows, FirstInFirstOut
<1> QED BY <1>1, Invariant, PTL

-----------------------------------------------------------------------------
(* The ring implements the bounded FIFO of ZstFifo.                         *)

fifoCalls == [t \in Threads |-> FifoCall(t)]
fifoArgs == [t \in Threads |-> FifoArg(t)]
shown == <<FifoQueue, fifoCalls, fifoArgs>>

\* One thread moves, and the queue stays.
LEMMA CallMoves ==
    ASSUME NEW t \in Threads, UNCHANGED <<hist, head, tail>>,
           \A u \in Threads \ {t} : FifoCall(u)' = FifoCall(u) /\ FifoArg(u)' = FifoArg(u),
           \/ FifoCall(t)' = FifoCall(t) /\ FifoArg(t)' = FifoArg(t)
           \/ FifoCall(t) = "open" /\ FifoCall(t)' = "idle" /\ FifoArg(t)' = FifoArg(t)
           \/ FifoCall(t) = "done" /\ FifoCall(t)' = "idle" /\ FifoArg(t)' = FifoArg(t)
           \/ t \in Producers /\ FifoCall(t) = "idle" /\ FifoCall(t)' = "open" /\ FifoArg(t)' \in Buffers
           \/ t \in Consumers /\ FifoCall(t) = "idle" /\ FifoCall(t)' = "open" /\ FifoArg(t)' = NoBuf
    PROVE  [Fifo!Next]_shown
<1>1. FifoQueue' = FifoQueue
  BY DEF FifoQueue
<1>2. /\ fifoCalls' = [fifoCalls EXCEPT ![t] = FifoCall(t)'] /\ fifoCalls[t] = FifoCall(t)
      /\ fifoArgs' = [fifoArgs EXCEPT ![t] = FifoArg(t)'] /\ fifoArgs[t] = FifoArg(t)
  BY DEF fifoCalls, fifoArgs
<1>3. FifoArg(t)' = FifoArg(t) => fifoArgs' = fifoArgs
  BY <1>2 DEF fifoArgs
<1>4. CASE FifoCall(t)' = FifoCall(t) /\ FifoArg(t)' = FifoArg(t)
  <2>1. fifoCalls' = fifoCalls
    BY <1>2, <1>4 DEF fifoCalls
  <2> QED BY <1>1, <1>3, <1>4, <2>1 DEF shown
<1>5. CASE FifoCall(t) = "open" /\ FifoCall(t)' = "idle" /\ FifoArg(t)' = FifoArg(t)
  <2>1. Fifo!Fail(t)
    BY <1>1, <1>2, <1>3, <1>5 DEF Fifo!Fail, Fifo!Move, fifoCalls, fifoArgs
  <2> QED BY <2>1 DEF Fifo!Next, Threads
<1>6. CASE FifoCall(t) = "done" /\ FifoCall(t)' = "idle" /\ FifoArg(t)' = FifoArg(t)
  <2>1. Fifo!Succeed(t)
    BY <1>1, <1>2, <1>3, <1>6 DEF Fifo!Succeed, Fifo!Move, fifoCalls, fifoArgs
  <2> QED BY <2>1 DEF Fifo!Next, Threads
<1>7. CASE t \in Producers /\ FifoCall(t) = "idle" /\ FifoCall(t)' = "open" /\ FifoArg(t)' \in Buffers
  <2>1. Fifo!InvokePush(t, FifoArg(t)')
    BY <1>1, <1>2, <1>7 DEF Fifo!InvokePush, Fifo!Move, fifoCalls, fifoArgs
  <2> QED BY <1>7, <2>1 DEF Fifo!Next, Threads
<1>8. CASE t \in Consumers /\ FifoCall(t) = "idle" /\ FifoCall(t)' = "open" /\ FifoArg(t)' = NoBuf
  <2>1. Fifo!InvokePop(t)
    BY <1>1, <1>2, <1>8 DEF Fifo!InvokePop, Fifo!Move, fifoCalls, fifoArgs
  <2> QED BY <1>8, <2>1 DEF Fifo!Next, Threads
<1> QED BY <1>4, <1>5, <1>6, <1>7, <1>8

\* Everything but the claims leaves the queue alone.
LEMMA StepShown ==
    ASSUME TypeOK, Sides, NEW t \in Threads, Step(t) PROVE [Fifo!Next]_shown
<1> USE DEF FifoCall, FifoArg, Claimed, Working
<1>1. UNCHANGED <<hist, head, tail, item>> /\ pc[t] # "idle"
  BY DEF Step, LoadSeq, ClaimFails, Reload, LoadWaiters, Signal, IncWaiters, RecheckSeq,
         SpuriousWakeup, Deadline, Relock, DecWaiters, shared, local
<1>2. CASE Signal(t)
  <2>1. /\ pc[t] = "signal" /\ pc'[t] \in {"idle", "again"} /\ UNCHANGED pos
        /\ \A u \in Threads : u # t => pc'[u] = pc[u] \/ (pc[u] = "wait" /\ pc'[u] = "woken")
    <3>1. /\ pc[t] = "signal" /\ UNCHANGED pos
          /\ \/ pc' = [pc EXCEPT ![t] = AfterOk(t)]
             \/ \E w \in Threads : pc[w] = "wait" /\ pc' = [pc EXCEPT ![t] = AfterOk(t), ![w] = "woken"]
      BY <1>2 DEF Signal, Waiting, Goto, local
    <3>2. CASE pc' = [pc EXCEPT ![t] = AfterOk(t)]
      BY <3>1, <3>2 DEF TypeOK, AfterOk
    <3>3. ASSUME NEW w \in Threads, pc[w] = "wait",
                 pc' = [pc EXCEPT ![t] = AfterOk(t), ![w] = "woken"]
          PROVE  <2>1!:
      BY <3>1, <3>3 DEF TypeOK, AfterOk
    <3> QED BY <3>1, <3>2, <3>3
  <2>2. \A u \in Threads \ {t} : FifoCall(u)' = FifoCall(u) /\ FifoArg(u)' = FifoArg(u)
    BY <1>1, <2>1
  <2>3. FifoCall(t) = "done" /\ FifoCall(t)' = "idle" /\ FifoArg(t)' = FifoArg(t)
    BY <1>1, <2>1
  <2> QED BY <1>1, <2>2, <2>3, CallMoves
<1>3. CASE ~Signal(t)
  <2>1. \A u \in Threads \ {t} : pc'[u] = pc[u] /\ pos'[u] = pos[u]
    BY <1>3 DEF Step, LoadSeq, ClaimFails, Reload, LoadWaiters, IncWaiters, RecheckSeq,
                SpuriousWakeup, Deadline, Relock, DecWaiters, local, Goto, TypeOK
  <2>2. \A u \in Threads \ {t} : FifoCall(u)' = FifoCall(u) /\ FifoArg(u)' = FifoArg(u)
    BY <1>1, <2>1
  <2> DEFINE Open == {"seq", "claim", "reload", "incSeq", "recheckSeq", "wait", "woken", "late",
                      "dec", "decLate", "fullHead", "incFull", "recheckHead"}
  <2>3. \/ pc[t] \in Open /\ pc'[t] \in Open \cup {"idle"}
        \/ pc[t] = "notify" /\ pc'[t] \in {"signal", "idle", "again"}
    <3>1. CASE LoadSeq(t) \/ ClaimFails(t) \/ Reload(t)
      BY <3>1 DEF LoadSeq, ClaimFails, Reload, Goto, NotReady, TypeOK
    <3>2. CASE LoadWaiters(t)
      BY <3>2 DEF LoadWaiters, Goto, AfterOk, TypeOK
    <3>3. CASE IncWaiters(t) \/ RecheckSeq(t) \/ SpuriousWakeup(t)
      BY <3>3 DEF IncWaiters, RecheckSeq, SpuriousWakeup, Goto, TypeOK
    <3>4. CASE Deadline(t) \/ Relock(t) \/ DecWaiters(t)
      BY <3>4 DEF Deadline, Relock, DecWaiters, Goto, TypeOK
    <3> QED BY <1>3, <3>1, <3>2, <3>3, <3>4 DEF Step
  <2>4. /\ FifoArg(t)' = FifoArg(t)
        /\ \/ FifoCall(t)' = FifoCall(t)
           \/ FifoCall(t) \in {"open", "done"} /\ FifoCall(t)' = "idle"
    BY <1>1, <2>3
  <2> QED BY <1>1, <2>2, <2>4, CallMoves
<1> QED BY <1>2, <1>3

LEMMA PushShown ==
    ASSUME IndInv, IndInv', NEW t \in Producers, ProducerStep(t) PROVE [Fifo!Next]_shown
<1>0. TypeOK /\ Sides /\ t \in Threads
  BY DEF IndInv, Threads
<1>1. CASE ~ClaimTail(t)
  <2> USE DEF FifoCall, FifoArg, Claimed, Working
  <2>1. UNCHANGED <<hist, head, tail>> /\ \A u \in Threads \ {t} : UNCHANGED <<pc[u], pos[u], item[u]>>
    BY <1>0, <1>1 DEF ProducerStep, PushCall, IsFullHead, IsFullTail, RecheckHead, RecheckTail,
                FillSlot, AddBytes, Publish, local, shared, Goto, TypeOK
  <2>2. \A u \in Threads \ {t} : FifoCall(u)' = FifoCall(u) /\ FifoArg(u)' = FifoArg(u)
    BY <2>1
  <2>3. CASE \E b \in Buffers, o \in PushOps : PushCall(t, b, o)
    <3>1. pc[t] = "idle" /\ pc'[t] = "seq" /\ item'[t] \in Buffers
      BY <1>0, <2>3 DEF PushCall, Goto, TypeOK
    <3>2. FifoCall(t) = "idle" /\ FifoCall(t)' = "open" /\ FifoArg(t)' \in Buffers
      BY <3>1
    <3> QED BY <1>0, <2>1, <2>2, <3>2, CallMoves
  <2>4. CASE ~\E b \in Buffers, o \in PushOps : PushCall(t, b, o)
    <3>1. /\ item' = item
          /\ \/ /\ pc[t] \in {"fullHead", "fullTail", "recheckHead", "recheckTail"}
                /\ pc'[t] \in {"fullTail", "claim", "idle", "incFull", "recheckTail", "wait", "dec"}
             \/ pc[t] \in {"fill", "count", "publish"} /\ pc'[t] \in {"count", "publish", "notify"}
      BY <1>0, <1>1, <2>4 DEF ProducerStep, IsFullHead, IsFullTail, RecheckHead, RecheckTail,
                FillSlot, AddBytes, Publish, local, Goto, TypeOK, NotReady
    <3>2. /\ FifoArg(t)' = FifoArg(t)
          /\ \/ FifoCall(t)' = FifoCall(t)
             \/ FifoCall(t) = "open" /\ FifoCall(t)' = "idle"
      BY <3>1
    <3> QED BY <1>0, <2>1, <2>2, <3>2, CallMoves
  <2> QED BY <2>3, <2>4
<1>2. CASE ClaimTail(t)
  <2>1. /\ pc[t] = "claim" /\ pc'[t] = "fill" /\ hist' = Append(hist, item[t]) /\ tail' = tail + 1
        /\ UNCHANGED <<head, pos, item>> /\ \A u \in Threads \ {t} : pc'[u] = pc[u]
    BY <1>0, <1>2 DEF ClaimTail, local, Goto, TypeOK
  <2>2. /\ hist \in Seq(Buffers) /\ item[t] \in Buffers /\ head \in Nat /\ tail \in Nat
        /\ head <= tail /\ Len(hist) = tail /\ tail - head < Limit /\ Limit \in Nat
    <3>1. item[t] \in Buffers
      BY <1>0, <2>1 DEF Sides
    <3>2. Limit \in Nat
      BY CapacityAssumption, LimitsAssumption DEF Limit
    <3>3. head \in Nat /\ tail \in Nat /\ head <= tail /\ Len(hist) = tail /\ tail' - head' <= Limit'
      BY <1>0 DEF IndInv, TypeOK, SlotPhases, Bounded
    <3>4. Limit' = Limit
      BY DEF Limit
    <3> QED BY <1>0, <2>1, <3>1, <3>2, <3>3, <3>4 DEF TypeOK
  <2>3. /\ FifoQueue' = Append(FifoQueue, item[t]) /\ Len(FifoQueue) < Limit
    <3>1. /\ FifoQueue \in Seq(Buffers) /\ Len(FifoQueue) = tail - head
          /\ \A i \in 1 .. tail - head : FifoQueue[i] = hist[head + i]
      BY <2>2, SubSeqProperties DEF FifoQueue
    <3>2. /\ hist' \in Seq(Buffers) /\ Len(hist') = tail + 1
          /\ (\A i \in 1 .. tail : hist'[i] = hist[i]) /\ hist'[tail + 1] = item[t]
      BY <2>1, <2>2, AppendProperties
    <3>3. FifoQueue' = SubSeq(hist', head + 1, tail + 1)
      BY <2>1 DEF FifoQueue
    <3>4. /\ FifoQueue' \in Seq(Buffers) /\ Len(FifoQueue') = tail - head + 1
          /\ \A i \in 1 .. tail - head + 1 : FifoQueue'[i] = hist'[head + i]
      BY <2>2, <3>2, <3>3, SubSeqProperties
    <3>5. \A i \in 1 .. tail - head : FifoQueue'[i] = FifoQueue[i]
      BY <2>2, <3>1, <3>2, <3>4
    <3>6. FifoQueue'[tail - head + 1] = item[t]
      <4>1. tail - head + 1 \in 1 .. tail - head + 1 /\ head + (tail - head + 1) = tail + 1
        BY <2>2
      <4> QED BY <3>2, <3>4, <4>1
    <3>7. /\ Append(FifoQueue, item[t]) \in Seq(Buffers) /\ Len(Append(FifoQueue, item[t])) = tail - head + 1
          /\ (\A i \in 1 .. tail - head : Append(FifoQueue, item[t])[i] = FifoQueue[i])
          /\ Append(FifoQueue, item[t])[tail - head + 1] = item[t]
      BY <2>2, <3>1, AppendProperties
    <3>8. \A i \in 1 .. tail - head + 1 : FifoQueue'[i] = Append(FifoQueue, item[t])[i]
      <4> TAKE i \in 1 .. tail - head + 1
      <4>1. i \in 1 .. tail - head \/ i = tail - head + 1
        BY <2>2
      <4> QED BY <3>5, <3>6, <3>7, <4>1
    <3> QED BY <2>2, <3>1, <3>4, <3>7, <3>8, SeqEqual
  <2>4. \A u \in Threads \ {t} : FifoCall(u)' = FifoCall(u) /\ FifoArg(u)' = FifoArg(u)
    <3> TAKE u \in Threads \ {t}
    <3>1. pc[u] = "take" => pos[u] + 1 \in 1 .. tail
      <4> SUFFICES ASSUME pc[u] = "take" PROVE pos[u] + 1 \in 1 .. tail
        OBVIOUS
      <4>1. u \in Consumers /\ Taking(u)
        BY <1>0 DEF Taking, Threads, Sides, PushPc, CommonPc
      <4>2. pos[u] < head /\ pos[u] \in Nat
        BY <1>0, <4>1 DEF IndInv, Claims, TypeOK
      <4> QED BY <2>2, <4>2
    <3>2. pc[u] = "take" => hist'[pos[u] + 1] = hist[pos[u] + 1]
      BY <2>1, <2>2, <3>1, AppendProperties
    <3> QED BY <2>1, <3>2 DEF FifoCall, FifoArg
  <2>5. FifoCall(t) = "open" /\ FifoCall(t)' = "done" /\ FifoArg(t)' = item[t] /\ FifoArg(t) = item[t]
    BY <2>1 DEF FifoCall, FifoArg, Claimed, Working
  <2>6. /\ fifoCalls' = [fifoCalls EXCEPT ![t] = "done"] /\ fifoCalls[t] = "open"
        /\ fifoArgs' = fifoArgs /\ fifoArgs[t] = item[t]
    BY <1>0, <2>4, <2>5 DEF fifoCalls, fifoArgs
  <2>7. Fifo!Put(t)
    BY <2>3, <2>6 DEF Fifo!Put, Fifo!Move, fifoCalls, fifoArgs
  <2> QED BY <2>7 DEF Fifo!Next
<1> QED BY <1>1, <1>2

LEMMA PopShown ==
    ASSUME IndInv, NEW t \in Consumers, ConsumerStep(t) PROVE [Fifo!Next]_shown
<1>0. TypeOK /\ Sides /\ t \in Threads
  BY DEF IndInv, Threads
<1>1. CASE ~ClaimHead(t)
  <2> USE DEF FifoCall, FifoArg, Claimed, Working
  <2>1. UNCHANGED <<hist, head, tail>> /\ \A u \in Threads \ {t} : UNCHANGED <<pc[u], pos[u], item[u]>>
    BY <1>0, <1>1 DEF ConsumerStep, PopCall, FlushNext, TakeSlot, ClearSlot, FreeSlot, local, shared, Goto, TypeOK
  <2>2. \A u \in Threads \ {t} : FifoCall(u)' = FifoCall(u) /\ FifoArg(u)' = FifoArg(u)
    BY <2>1
  <2>3. CASE FlushNext(t) \/ \E o \in PopOps : PopCall(t, o)
    <3>1. pc[t] \in {"idle", "again"} /\ pc'[t] = "seq" /\ item'[t] = NoBuf
      BY <1>0, <2>3 DEF PopCall, FlushNext, Goto, TypeOK
    <3>2. FifoCall(t) = "idle" /\ FifoCall(t)' = "open" /\ FifoArg(t)' = NoBuf
      BY <3>1
    <3> QED BY <1>0, <2>1, <2>2, <3>2, CallMoves
  <2>4. CASE TakeSlot(t)
    <3>1. pc[t] = "take" /\ pc'[t] = "clear" /\ item'[t] = buf[Slot(pos[t])]
      BY <1>0, <2>4 DEF TakeSlot, Goto, TypeOK
    <3>2. buf[Slot(pos[t])] = hist[pos[t] + 1]
      BY <3>1 DEF IndInv, Claims, Taking
    <3>3. FifoCall(t) = FifoCall(t)' /\ FifoArg(t)' = FifoArg(t)
      BY <3>1, <3>2
    <3> QED BY <1>0, <2>1, <2>2, <3>3, CallMoves
  <2>5. CASE ClearSlot(t) \/ FreeSlot(t)
    <3>1. /\ pc[t] \in {"clear", "free"} /\ pc'[t] \in {"free", "notify"}
          /\ item'[t] = item[t]
      BY <1>0, <2>5 DEF ClearSlot, FreeSlot, Goto, TypeOK, local
    <3>3. FifoCall(t) = FifoCall(t)' /\ FifoArg(t)' = FifoArg(t)
      BY <3>1
    <3> QED BY <1>0, <2>1, <2>2, <3>3, CallMoves
  <2> QED BY <1>1, <2>3, <2>4, <2>5 DEF ConsumerStep
<1>2. CASE ClaimHead(t)
  <2>1. /\ pc[t] = "claim" /\ pc'[t] = "take" /\ head = pos[t] /\ head' = head + 1
        /\ UNCHANGED <<tail, hist, pos, item>> /\ \A u \in Threads \ {t} : pc'[u] = pc[u]
    BY <1>0, <1>2 DEF ClaimHead, local, Goto, TypeOK
  <2>2. /\ hist \in Seq(Buffers) /\ head \in Nat /\ tail \in Nat /\ Len(hist) = tail /\ head < tail
    <3>1. /\ head \in Nat /\ tail \in Nat /\ head <= tail /\ tail <= head + Capacity
          /\ Len(hist) = tail /\ hist \in Seq(Buffers)
      BY <1>0 DEF IndInv, TypeOK, SlotPhases
    <3>2. seq[Slot(head)] = head + 1
      BY <2>1 DEF IndInv, Observations, ConsumerKnows
    <3>3. ~(head = tail)
      <4> SUFFICES ASSUME head = tail PROVE FALSE
        OBVIOUS
      <4>1. head \in tail .. (head + Capacity - 1)
        BY <3>1, CapacityAssumption
      <4>2. seq[Slot(head)] = head \/ seq[Slot(head)] = head + 1 - Capacity
        BY <4>1 DEF IndInv, SlotPhases
      <4> QED BY <3>1, <3>2, <4>2, CapacityAssumption
    <3> QED BY <3>1, <3>3
  <2>3. FifoQueue # <<>> /\ FifoQueue' = Tail(FifoQueue) /\ Head(FifoQueue) = hist[head + 1]
    <3>1. FifoQueue \in Seq(Buffers) /\ Len(FifoQueue) = tail - head
      BY <2>2, SubSeqProperties DEF FifoQueue
    <3>2. FifoQueue # <<>>
      BY <2>2, <3>1
    <3>3. Head(FifoQueue) = hist[head + 1] /\ Tail(FifoQueue) = SubSeq(hist, head + 1 + 1, tail)
      <4>1. head + 1 \in 1 .. tail
        BY <2>2
      <4>2. tail \in (head + 1) .. Len(hist) /\ head + 1 \in 1 .. Len(hist)
        BY <2>2
      <4> QED BY <2>2, <4>1, <4>2, HeadTailOfSubSeq DEF FifoQueue
    <3>4. FifoQueue' = SubSeq(hist, head + 1 + 1, tail)
      BY <2>1 DEF FifoQueue
    <3> QED BY <3>2, <3>3, <3>4
  <2>4. \A u \in Threads \ {t} : FifoCall(u)' = FifoCall(u) /\ FifoArg(u)' = FifoArg(u)
    BY <2>1 DEF FifoCall, FifoArg
  <2>5. FifoCall(t) = "open" /\ FifoCall(t)' = "done" /\ FifoArg(t)' = hist[head + 1]
    BY <2>1 DEF FifoCall, FifoArg, Claimed, Working
  <2>6. /\ fifoCalls' = [fifoCalls EXCEPT ![t] = "done"] /\ fifoCalls[t] = "open"
        /\ fifoArgs' = [fifoArgs EXCEPT ![t] = hist[head + 1]]
    BY <1>0, <2>4, <2>5 DEF fifoCalls, fifoArgs
  <2>7. Fifo!Take(t)
    BY <2>3, <2>6 DEF Fifo!Take, Fifo!Move, fifoCalls, fifoArgs
  <2> QED BY <2>7 DEF Fifo!Next
<1> QED BY <1>1, <1>2

\* zst_queue_push and zst_queue_pop (zst_queue.c:220-380), interleaved access
\* by access, are a push and a pop of a bounded FIFO: every call takes effect
\* at its claim or not at all.
THEOREM RingIsFifo == Spec => ImplementsFifo
<1>1. Init => Fifo!Init
  <2> SUFFICES ASSUME Init PROVE Fifo!Init
    OBVIOUS
  <2>1. FifoQueue = <<>>
    BY SubSeqEmpty DEF FifoQueue, Init
  <2>2. \A t \in Threads : FifoCall(t) = "idle" /\ FifoArg(t) = NoBuf
    BY DEF FifoCall, FifoArg, Init
  <2> QED BY <2>1, <2>2 DEF Fifo!Init, Threads
<1>2. IndInv /\ IndInv' /\ [Next]_vars => [Fifo!Next]_shown
  <2> SUFFICES ASSUME IndInv, IndInv', [Next]_vars PROVE [Fifo!Next]_shown
    OBVIOUS
  <2>1. CASE \E t \in Threads : Step(t)
    BY <2>1, StepShown DEF IndInv
  <2>2. CASE \E t \in Producers : ProducerStep(t)
    BY <2>2, PushShown
  <2>3. CASE \E t \in Consumers : ConsumerStep(t)
    BY <2>3, PopShown
  <2>4. CASE UNCHANGED vars
    BY <2>4 DEF vars, shared, local, shown, FifoQueue, fifoCalls, fifoArgs, FifoCall, FifoArg
  <2> QED BY <2>1, <2>2, <2>3, <2>4 DEF Next
<1> QED BY <1>1, <1>2, Invariant, PTL DEF Spec, ImplementsFifo, Fifo!Spec, shown, fifoCalls, fifoArgs

-----------------------------------------------------------------------------
(* Where the buffers are, and their bytes.                                  *)

\* Where the buffers are: a slot is empty when a producer is about to fill it,
\* and outside head..tail-1 only a consumer about to empty it has a buffer.
Stores ==
    /\ \A t \in Producers : pc[t] = "fill" => buf[Slot(pos[t])] = NoBuf
    /\ \A p \in tail..(head + Capacity - 1) : buf[Slot(p)] # NoBuf =>
            \E c \in Consumers : pc[c] \in {"take", "clear"} /\ pos[c] = p - Capacity

\* A step leaves the ring alone or is one of those that work on it.
LEMMA StepKinds ==
    ASSUME TypeOK, Sides, Ring, [Next]_vars
    PROVE  \/ UNCHANGED vars
           \/ \E t \in Threads : /\ Stays(t) /\ UNCHANGED bytes
                                 /\ pos'[t] \in {pos[t], Index(t)}
           \/ \E t \in Producers : ClaimTail(t) \/ FillSlot(t) \/ AddBytes(t) \/ Publish(t)
           \/ \E t \in Consumers : ClaimHead(t) \/ TakeSlot(t) \/ ClearSlot(t) \/ FreeSlot(t)
<1>1. ASSUME NEW t \in Threads, Step(t)
      PROVE  Stays(t) /\ UNCHANGED bytes /\ pos'[t] \in {pos[t], Index(t)}
  <2>1. ~IsFullTail(t) \/ t \in Producers
    BY DEF IsFullTail, Sides, CommonPc, PopPc, Threads
  <2>2. Stays(t)
    BY <1>1, <2>1, PcStepsStay, SignalStays, LoadsStay DEF Step, PcOnly
  <2>3. UNCHANGED bytes /\ pos'[t] \in {pos[t], Index(t)}
    BY <1>1 DEF Step, LoadSeq, ClaimFails, Reload, LoadWaiters, Signal, IncWaiters,
       RecheckSeq, SpuriousWakeup, Deadline, Relock, DecWaiters, shared, local, TypeOK
  <2> QED BY <2>2, <2>3
<1>2. ASSUME NEW t \in Producers, ProducerStep(t),
             ~(ClaimTail(t) \/ FillSlot(t) \/ AddBytes(t) \/ Publish(t))
      PROVE  t \in Threads /\ Stays(t) /\ UNCHANGED bytes /\ pos'[t] \in {pos[t], Index(t)}
  <2>1. t \in Threads /\ Index(t) = tail
    BY DEF Threads, Index
  <2>2. Stays(t)
    BY <1>2, <2>1, PcStepsStay, LoadsStay DEF ProducerStep, PcOnly
  <2>3. UNCHANGED bytes /\ pos'[t] \in {pos[t], tail}
    BY <1>2, <2>1 DEF ProducerStep, PushCall, IsFullHead, IsFullTail, RecheckHead,
       RecheckTail, shared, local, TypeOK
  <2> QED BY <2>1, <2>2, <2>3
<1>3. ASSUME NEW t \in Consumers, ConsumerStep(t),
             ~(ClaimHead(t) \/ TakeSlot(t) \/ ClearSlot(t) \/ FreeSlot(t))
      PROVE  t \in Threads /\ Stays(t) /\ UNCHANGED bytes /\ pos'[t] \in {pos[t], Index(t)}
  <2>1. t \in Threads /\ Index(t) = head
    BY ThreadsAssumption DEF Threads, Index
  <2>2. Stays(t)
    BY <1>3, <2>1, LoadsStay DEF ConsumerStep
  <2>3. UNCHANGED bytes /\ pos'[t] \in {pos[t], head}
    BY <1>3, <2>1 DEF ConsumerStep, PopCall, FlushNext, shared, TypeOK
  <2> QED BY <2>1, <2>2, <2>3
<1> QED BY <1>1, <1>2, <1>3 DEF Next

LEMMA StoresStep ==
    ASSUME TypeOK, Sides, Ring, Stores, [Next]_vars PROVE Stores'
<1> USE CapacityAssumption, ThreadsAssumption
<1>0. /\ head \in Nat /\ tail \in Nat /\ head <= tail /\ tail <= head + Capacity
      /\ \A u \in Threads : pos[u] \in Nat
      /\ Producers \subseteq Threads /\ Consumers \subseteq Threads
  BY DEF TypeOK, Ring, SlotPhases, Threads
<1>1. CASE UNCHANGED vars
  BY <1>1 DEF vars, shared, local, Stores
<1>2. ASSUME NEW t \in Threads, Stays(t) PROVE Stores'
  <2>1. \A u \in Threads : /\ pc'[u] = "fill" => pc[u] = "fill" /\ pos'[u] = pos[u]
                           /\ pc[u] \in {"take", "clear"} => pc'[u] = pc[u] /\ pos'[u] = pos[u]
    BY <1>2 DEF Stays, Working
  <2> QED BY <1>0, <1>2, <2>1 DEF Stores, Stays
<1>3. ASSUME NEW t \in Producers, ClaimTail(t) PROVE Stores'
  <2>1. /\ UNCHANGED <<head, seq, buf, pos>> /\ tail' = tail + 1 /\ pos[t] = tail
        /\ pc[t] = "claim" /\ pc'[t] = "fill"
        /\ \A u \in Threads : u # t => pc'[u] = pc[u]
    BY <1>0, <1>3 DEF ClaimTail, Goto, TypeOK, local
  <2>2. seq[Slot(tail)] = tail
    BY <2>1 DEF Ring, Observations, ProducerKnows
  <2>3. buf[Slot(tail)] = NoBuf
    <3> SUFFICES ASSUME buf[Slot(tail)] # NoBuf PROVE FALSE
      OBVIOUS
    <3>1. tail < head + Capacity
      <4>1. Bounded'
        BY <1>3, ClaimTailKeeps DEF Ring
      <4>2. tail' - head' <= Limit /\ Limit <= Capacity /\ Limit \in Nat
        BY <4>1, LimitsAssumption DEF Bounded, Limit
      <4> QED BY <1>0, <2>1, <4>2
    <3>2. PICK c \in Consumers : pc[c] \in {"take", "clear"} /\ pos[c] = tail - Capacity
      BY <1>0, <3>1 DEF Stores
    <3>3. Taking(c) /\ pos[c] \in Nat
      BY <1>0, <3>2 DEF Taking
    <3>4. seq[Slot(pos[c])] = pos[c] + 1 /\ Slot(pos[c] + Capacity) = Slot(pos[c])
      BY <3>3, SlotRound DEF Ring, Claims
    <3> QED BY <1>0, <2>2, <3>2, <3>3, <3>4
  <2>4. \A c \in Consumers : pc'[c] = pc[c]
    BY <1>0, <2>1
  <2> QED BY <1>0, <2>1, <2>3, <2>4 DEF Stores
<1>4. ASSUME NEW t \in Producers, FillSlot(t) PROVE Stores'
  <2>1. /\ UNCHANGED <<head, tail, pos>>
        /\ pc[t] = "fill" /\ pc'[t] = "count"
        /\ \A u \in Threads : u # t => pc'[u] = pc[u]
        /\ \A p \in Nat : Slot(p) # Slot(pos[t]) => buf'[Slot(p)] = buf[Slot(p)]
    BY <1>0, <1>4, SlotType DEF FillSlot, Goto, TypeOK, local
  <2>2. Filling(t) /\ head <= pos[t] /\ pos[t] < tail
    BY <2>1 DEF Ring, Claims, Filling
  <2>3. ASSUME NEW u \in Producers, pc'[u] = "fill" PROVE buf'[Slot(pos'[u])] = NoBuf
    <3>1. u # t /\ pc[u] = "fill" /\ Filling(u)
      BY <1>0, <2>1, <2>3 DEF Filling
    <3>2. Slot(pos[u]) # Slot(pos[t])
      BY <1>0, <2>2, <3>1, ClaimsApart
    <3> QED BY <1>0, <2>1, <3>1, <3>2 DEF Stores
  <2>4. ASSUME NEW p \in tail..(head + Capacity - 1) PROVE buf'[Slot(p)] = buf[Slot(p)]
    <3>1. Slot(p) # Slot(pos[t])
      BY <1>0, <2>2, SlotsDiffer
    <3> QED BY <1>0, <2>1, <3>1
  <2>5. \A c \in Consumers : pc'[c] = pc[c]
    BY <1>0, <2>1
  <2> QED BY <2>1, <2>3, <2>4, <2>5 DEF Stores
<1>5. ASSUME NEW t \in Producers, Publish(t) PROVE Stores'
  <2>1. /\ UNCHANGED <<head, tail, pos, buf>> /\ pc[t] = "publish" /\ pc'[t] = "notify"
        /\ \A u \in Threads : u # t => pc'[u] = pc[u]
    BY <1>0, <1>5 DEF Publish, Goto, TypeOK, local
  <2>2. /\ \A u \in Producers : pc'[u] = "fill" => pc[u] = "fill"
        /\ \A c \in Consumers : pc'[c] = pc[c]
    BY <1>0, <2>1
  <2> QED BY <2>1, <2>2 DEF Stores
<1>6. ASSUME NEW t \in Consumers, ClaimHead(t) PROVE Stores'
  <2>1. /\ UNCHANGED <<tail, buf, pos>> /\ head' = head + 1 /\ pos[t] = head
        /\ pc[t] = "claim" /\ pc'[t] = "take"
        /\ \A u \in Threads : u # t => pc'[u] = pc[u]
    BY <1>0, <1>6 DEF ClaimHead, Goto, TypeOK, local
  <2>2. \A u \in Producers : pc'[u] = pc[u]
    BY <1>0, <2>1
  <2>3. \A c \in Consumers : pc[c] \in {"take", "clear"} => pc'[c] = pc[c]
    BY <1>0, <2>1
  <2>4. ASSUME NEW p \in tail..(head' + Capacity - 1), buf[Slot(p)] # NoBuf
        PROVE  \E c \in Consumers : pc'[c] \in {"take", "clear"} /\ pos[c] = p - Capacity
    <3>1. CASE p = head + Capacity
      BY <1>0, <2>1, <3>1
    <3>2. CASE p # head + Capacity
      <4>1. p \in tail..(head + Capacity - 1)
        BY <1>0, <2>1, <3>2
      <4> QED BY <2>3, <2>4, <4>1 DEF Stores
    <3> QED BY <3>1, <3>2
  <2> QED BY <2>1, <2>2, <2>4 DEF Stores
<1>9. ASSUME NEW t \in Threads,
             (t \in Producers /\ AddBytes(t)) \/ (t \in Consumers /\ TakeSlot(t))
      PROVE  Stores'
  <2>1. /\ UNCHANGED <<head, tail, pos, buf>>
        /\ \A u \in Threads : u # t => pc'[u] = pc[u]
        /\ pc'[t] # "fill" /\ (pc[t] \in {"take", "clear"} => pc'[t] = "clear")
    BY <1>9 DEF AddBytes, TakeSlot, Goto, TypeOK, local
  <2> QED BY <1>0, <2>1 DEF Stores
<1>7. ASSUME NEW t \in Consumers, ClearSlot(t) PROVE Stores'
  <2>1. /\ UNCHANGED <<head, tail, pos>> /\ pc[t] = "clear" /\ pc'[t] = "free"
        /\ \A u \in Threads : u # t => pc'[u] = pc[u]
    BY <1>0, <1>7 DEF ClearSlot, Goto, TypeOK, local
  <2>2. /\ buf'[Slot(pos[t])] = NoBuf
        /\ \A p \in Nat : buf'[Slot(p)] # NoBuf => buf'[Slot(p)] = buf[Slot(p)]
    BY <1>0, <1>7, SlotType DEF ClearSlot, TypeOK
  <2>3. \A u \in Producers : pc'[u] = pc[u]
    BY <1>0, <2>1
  <2>4. ASSUME NEW p \in tail..(head + Capacity - 1), buf'[Slot(p)] # NoBuf
        PROVE  \E c \in Consumers : pc'[c] \in {"take", "clear"} /\ pos[c] = p - Capacity
    <3>1. PICK c \in Consumers : pc[c] \in {"take", "clear"} /\ pos[c] = p - Capacity
      BY <1>0, <2>2, <2>4 DEF Stores
    <3>2. c # t
      <4>1. Slot(pos[c] + Capacity) = Slot(pos[c]) /\ pos[c] + Capacity = p
        BY <1>0, <3>1, SlotRound
      <4> QED BY <2>2, <2>4, <4>1
    <3> QED BY <1>0, <2>1, <3>1, <3>2
  <2> QED BY <1>0, <2>1, <2>2, <2>3, <2>4 DEF Stores
<1>8. ASSUME NEW t \in Consumers, FreeSlot(t) PROVE Stores'
  <2>1. /\ UNCHANGED <<head, tail, pos, buf>> /\ pc[t] = "free" /\ pc'[t] = "notify"
        /\ \A u \in Threads : u # t => pc'[u] = pc[u]
    BY <1>0, <1>8 DEF FreeSlot, Goto, TypeOK, local
  <2>2. /\ \A u \in Producers : pc'[u] = pc[u]
        /\ \A c \in Consumers : pc[c] \in {"take", "clear"} => pc'[c] = pc[c]
    BY <1>0, <2>1
  <2> QED BY <2>1, <2>2 DEF Stores
<1> QED BY <1>0, <1>1, <1>2, <1>3, <1>4, <1>5, <1>6, <1>7, <1>8, <1>9, StepKinds

LEMMA BlockSize ==
    ASSUME NEW i, NEW n \in Nat
    PROVE  IsFiniteSet({i} \X (1..n)) /\ Cardinality({i} \X (1..n)) = n
<1>1. IsFiniteSet({i}) /\ Cardinality({i}) = 1
  BY FS_Singleton
<1>2. IsFiniteSet(1..n) /\ Cardinality(1..n) = n
  BY FS_Interval
<1>3. \A S, T : IsFiniteSet(S) /\ IsFiniteSet(T) =>
          IsFiniteSet(S \X T) /\ Cardinality(S \X T) = Cardinality(S) * Cardinality(T)
  BY FS_Product
<1>4. /\ IsFiniteSet({i} \X (1..n))
      /\ Cardinality({i} \X (1..n)) = Cardinality({i}) * Cardinality(1..n)
  BY <1>1, <1>2, <1>3, Zenon
<1>5. Cardinality({i}) * Cardinality(1..n) = 1 * n
  BY <1>1, <1>2, Zenon
<1> QED BY <1>4, <1>5

\* A block of bytes joins the others.
LEMMA BlockAdded ==
    ASSUME NEW S, IsFiniteSet(S), NEW i, NEW n \in Nat,
           \A x \in S : x[1] # i
    PROVE  /\ IsFiniteSet(S \cup ({i} \X (1..n)))
           /\ Cardinality(S \cup ({i} \X (1..n))) = Cardinality(S) + n
<1>1. IsFiniteSet({i} \X (1..n)) /\ Cardinality({i} \X (1..n)) = n
  BY BlockSize
<1>2. S \cap ({i} \X (1..n)) = {}
  OBVIOUS
<1>3. Cardinality(S) \in Nat
  BY FS_CardinalityType
<1>3a. Cardinality({}) = 0
  BY FS_EmptySet
<1>4. /\ IsFiniteSet(S \cup ({i} \X (1..n)))
      /\ Cardinality(S \cup ({i} \X (1..n))) = Cardinality(S) + n - Cardinality({})
  BY <1>1, <1>2, FS_Union
<1> QED BY <1>3, <1>3a, <1>4

BytesCounted == IsFiniteSet(SettledBytes) /\ bytes = Cardinality(SettledBytes)

LEMMA SettledMembers ==
    ASSUME NEW x
    PROVE  x \in SettledBytes <=> \E i \in Settled : x \in {i} \X (1..buf[i].size)
BY DEF SettledBytes

\* The bytes of one more slot.
LEMMA SlotSettles ==
    ASSUME BytesCounted, NEW s, s \notin Settled, Settled' = Settled \cup {s},
           \A i \in Settled : buf'[i] = buf[i],
           buf'[s].size \in Nat, bytes' = bytes + buf'[s].size
    PROVE  BytesCounted'
<1> DEFINE n == buf'[s].size
<1>1. SettledBytes' = SettledBytes \cup ({s} \X (1..n))
  <2>1. SettledBytes' = UNION {{i} \X (1..buf'[i].size) : i \in Settled'}
    BY DEF SettledBytes
  <2>2. ASSUME NEW x \in SettledBytes' PROVE x \in SettledBytes \cup ({s} \X (1..n))
    <3>1. PICK j \in Settled' : x \in {j} \X (1..buf'[j].size)
      BY <2>1, <2>2
    <3>2. CASE j = s
      BY <3>1, <3>2
    <3>3. CASE j # s
      BY <3>1, <3>3, SettledMembers
    <3> QED BY <3>2, <3>3
  <2>3. ASSUME NEW x \in SettledBytes PROVE x \in SettledBytes'
    <3>1. PICK j \in Settled : x \in {j} \X (1..buf[j].size)
      BY SettledMembers
    <3> QED BY <2>1, <3>1
  <2>4. ASSUME NEW x \in {s} \X (1..n) PROVE x \in SettledBytes'
    BY <2>1
  <2> QED BY <2>2, <2>3, <2>4
<1>2. \A x \in SettledBytes : x[1] # s
  BY SettledMembers
<1>3. /\ IsFiniteSet(SettledBytes')
      /\ Cardinality(SettledBytes') = Cardinality(SettledBytes) + n
  <2> HIDE DEF n
  <2>1. n \in Nat
    BY DEF n
  <2> QED BY <1>1, <1>2, <2>1, BlockAdded DEF BytesCounted
<1> QED BY <1>3 DEF BytesCounted

\* The bytes of one slot less.
LEMMA SlotUnsettles ==
    ASSUME BytesCounted, NEW s, s \notin Settled', Settled = Settled' \cup {s},
           \A i \in Settled' : buf'[i] = buf[i],
           buf[s].size \in Nat, bytes' = bytes - buf[s].size
    PROVE  BytesCounted'
<1> DEFINE n == buf[s].size
<1>1. SettledBytes' = UNION {{i} \X (1..buf'[i].size) : i \in Settled'}
  BY DEF SettledBytes
<1>2. ASSUME NEW x \in SettledBytes' PROVE x \in SettledBytes /\ x[1] # s
  <2>1. PICK j \in Settled' : x \in {j} \X (1..buf'[j].size)
    BY <1>1, <1>2
  <2> QED BY <2>1, SettledMembers
<1>3. ASSUME NEW x \in SettledBytes PROVE x \in SettledBytes' \cup ({s} \X (1..n))
  <2>1. PICK j \in Settled : x \in {j} \X (1..buf[j].size)
    BY SettledMembers
  <2>2. CASE j = s
    BY <2>1, <2>2
  <2>3. CASE j # s
    BY <1>1, <2>1, <2>3
  <2> QED BY <2>2, <2>3
<1>4. ASSUME NEW x \in {s} \X (1..n) PROVE x \in SettledBytes
  BY SettledMembers
<1>5. SettledBytes = SettledBytes' \cup ({s} \X (1..n))
  BY <1>2, <1>3, <1>4
<1>6. IsFiniteSet(SettledBytes')
  BY <1>2, FS_Subset DEF BytesCounted
<1>7. Cardinality(SettledBytes) = Cardinality(SettledBytes') + n
  <2> HIDE DEF n
  <2>1. n \in Nat
    BY DEF n
  <2>2. \A x \in SettledBytes' : x[1] # s
    BY <1>2
  <2>3. Cardinality(SettledBytes' \cup ({s} \X (1..n))) = Cardinality(SettledBytes') + n
    BY <1>6, <2>1, <2>2, BlockAdded
  <2> QED BY <1>5, <2>3
<1>8. Cardinality(SettledBytes') \in Nat
  BY <1>6, FS_CardinalityType
<1> QED BY <1>6, <1>7, <1>8 DEF BytesCounted

\* Of two claims on different slots, one does not unsettle the other's slot.
LEMMA OneUnsettles ==
    ASSUME TypeOK, Sides, Ring, NEW t \in Threads, Filling(t) \/ Taking(t)
    PROVE  Unsettled(Slot(pos[t])) <=> pc[t] \in {"count", "clear"}
<1>1. ASSUME NEW u \in Threads, pc[u] \in {"count", "clear"}, u # t
      PROVE  Slot(pos[u]) # Slot(pos[t])
  <2>1. Filling(u) \/ Taking(u)
    BY <1>1 DEF Filling, Taking, Sides, PushPc, PopPc, CommonPc, Threads
  <2> QED BY <1>1, <2>1, ClaimsApart
<1> QED BY <1>1 DEF Unsettled

LEMMA BytesStep ==
    ASSUME TypeOK, Sides, Ring, Stores, BytesCounted, [Next]_vars PROVE BytesCounted'
<1> USE ThreadsAssumption
<1>0. /\ pc \in [Threads -> PushPc \cup PopPc] /\ buf \in [Slots -> Buffers \cup {NoBuf}]
      /\ \A u \in Threads : Slot(pos[u]) \in Slots
      /\ Producers \subseteq Threads /\ Consumers \subseteq Threads
  BY SlotType DEF TypeOK, Threads
<1>1. ASSUME UNCHANGED bytes, Settled' = Settled, \A i \in Settled : buf'[i] = buf[i]
      PROVE  BytesCounted'
  <2>1. SettledBytes' = SettledBytes
    BY <1>1 DEF SettledBytes
  <2> QED BY <1>1, <2>1 DEF BytesCounted
<1>2. ASSUME NEW t \in Threads, UNCHANGED pos, \A u \in Threads : u # t => pc'[u] = pc[u],
             NEW i \in Slots, i # Slot(pos[t])
      PROVE  Unsettled(i)' <=> Unsettled(i)
  BY <1>2 DEF Unsettled
<1>3. ASSUME NEW t \in Producers, FillSlot(t) PROVE BytesCounted'
  <2> DEFINE s == Slot(pos[t])
  <2>1. /\ UNCHANGED <<bytes, pos>> /\ pc[t] = "fill" /\ pc'[t] = "count"
        /\ buf' = [buf EXCEPT ![s] = item[t]] /\ buf[s] = NoBuf
        /\ \A u \in Threads : u # t => pc'[u] = pc[u]
    BY <1>0, <1>3 DEF FillSlot, Stores, Goto, local
  <2>2. s \in Slots /\ Unsettled(s)'
    BY <1>0, <2>1 DEF Unsettled
  <2>3. \A i \in Slots \ {s} : buf'[i] = buf[i] /\ (Unsettled(i)' <=> Unsettled(i))
    BY <1>0, <1>2, <2>1
  <2>4. Settled' = Settled /\ s \notin Settled
    BY <2>1, <2>2, <2>3 DEF Settled
  <2> QED BY <1>1, <2>1, <2>3, <2>4 DEF Settled
<1>4. ASSUME NEW t \in Producers, AddBytes(t) PROVE BytesCounted'
  <2> DEFINE s == Slot(pos[t])
  <2>1. /\ UNCHANGED <<buf, pos, head, tail>> /\ pc[t] = "count" /\ pc'[t] = "publish"
        /\ bytes' = bytes + item[t].size
        /\ \A u \in Threads : u # t => pc'[u] = pc[u]
    BY <1>0, <1>4 DEF AddBytes, Goto, local
  <2>2. Filling(t) /\ s \in Slots /\ Unsettled(s)
    BY <1>0, <2>1 DEF Unsettled, Filling
  <2>3. buf[s] = item[t] /\ item[t] \in Buffers /\ item[t].size \in Nat /\ item[t] # NoBuf
    BY <1>0, <2>1, <2>2, BuffersAssumption DEF Ring, Claims, Sides
  <2>4. ~Unsettled(s)'
    <3>1. \A u \in Threads : u # t /\ pc[u] \in {"count", "clear"} => Slot(pos[u]) # s
      <4> SUFFICES ASSUME NEW u \in Threads, u # t, pc[u] \in {"count", "clear"}
                   PROVE  Slot(pos[u]) # s
        OBVIOUS
      <4>1. Filling(u) \/ Taking(u)
        BY DEF Filling, Taking, Sides, PushPc, PopPc, CommonPc, Threads
      <4> QED BY <1>0, <2>2, <4>1, ClaimsApart
    <3> QED BY <1>0, <2>1, <3>1 DEF Unsettled
  <2>5. \A i \in Slots \ {s} : Unsettled(i)' <=> Unsettled(i)
    BY <1>0, <1>2, <2>1
  <2>6. s \notin Settled /\ Settled' = Settled \cup {s}
    BY <2>1, <2>2, <2>3, <2>4, <2>5 DEF Settled
  <2>7. bytes' = bytes + buf'[s].size /\ buf'[s].size \in Nat /\ \A i \in Settled : buf'[i] = buf[i]
    BY <2>1, <2>3
  <2> HIDE DEF s
  <2> QED BY <2>6, <2>7, SlotSettles
<1>5. ASSUME NEW t \in Consumers, TakeSlot(t) PROVE BytesCounted'
  <2> DEFINE s == Slot(pos[t])
  <2>1. /\ UNCHANGED <<buf, pos, head, tail>> /\ pc[t] = "take" /\ pc'[t] = "clear"
        /\ bytes' = bytes - (IF buf[s] = NoBuf THEN 0 ELSE buf[s].size)
        /\ \A u \in Threads : u # t => pc'[u] = pc[u]
    BY <1>0, <1>5 DEF TakeSlot, Goto
  <2>2. Taking(t) /\ s \in Slots /\ Unsettled(s)'
    BY <1>0, <2>1 DEF Unsettled, Taking
  <2>3. ~Unsettled(s)
    BY <1>0, <2>1, <2>2, OneUnsettles
  <2>4. buf[s] \in Buffers /\ buf[s].size \in Nat /\ buf[s] # NoBuf
    <3>1. pos[t] < head /\ buf[s] = hist[pos[t] + 1] /\ pos[t] \in Nat
      BY <1>0, <2>1, <2>2 DEF Ring, Claims, TypeOK
    <3>2. head <= tail /\ Len(hist) = tail /\ head \in Nat /\ tail \in Nat /\ hist \in Seq(Buffers)
      BY DEF Ring, SlotPhases, TypeOK
    <3>3. pos[t] + 1 \in 1..Len(hist)
      BY <3>1, <3>2
    <3>4. hist[pos[t] + 1] \in Buffers
      BY <3>2, <3>3
    <3> QED BY <3>1, <3>4, BuffersAssumption
  <2>5. \A i \in Slots \ {s} : Unsettled(i)' <=> Unsettled(i)
    BY <1>0, <1>2, <2>1
  <2>6. s \notin Settled' /\ Settled = Settled' \cup {s}
    BY <2>1, <2>2, <2>3, <2>4, <2>5 DEF Settled
  <2>7. bytes' = bytes - buf[s].size /\ \A i \in Settled' : buf'[i] = buf[i]
    BY <2>1, <2>4
  <2> HIDE DEF s
  <2> QED BY <2>4, <2>6, <2>7, SlotUnsettles
<1>6. ASSUME NEW t \in Consumers, ClearSlot(t) PROVE BytesCounted'
  <2> DEFINE s == Slot(pos[t])
  <2>1. /\ UNCHANGED <<bytes, pos>> /\ pc[t] = "clear"
        /\ buf' = [buf EXCEPT ![s] = NoBuf]
        /\ \A u \in Threads : u # t => pc'[u] = pc[u]
    BY <1>0, <1>6 DEF ClearSlot, Goto, local
  <2>2. s \in Slots /\ Unsettled(s)
    BY <1>0, <2>1 DEF Unsettled
  <2>3. buf'[s] = NoBuf /\ \A i \in Slots \ {s} : buf'[i] = buf[i] /\ (Unsettled(i)' <=> Unsettled(i))
    BY <1>0, <1>2, <2>1, <2>2
  <2>4. Settled' = Settled /\ s \notin Settled
    BY <2>2, <2>3 DEF Settled
  <2> QED BY <1>1, <2>1, <2>3, <2>4 DEF Settled
<1>7. ASSUME NEW t \in Threads, Stays(t), UNCHANGED bytes PROVE BytesCounted'
  <2>1. \A u \in Threads :
          /\ pc'[u] \in {"count", "clear"} <=> pc[u] \in {"count", "clear"}
          /\ pc[u] \in {"count", "clear"} => pos'[u] = pos[u]
    BY <1>7 DEF Stays, Working
  <2>2. buf' = buf /\ \A i \in Slots : Unsettled(i)' <=> Unsettled(i)
    BY <1>7, <2>1 DEF Stays, Unsettled
  <2> QED BY <1>1, <1>7, <2>2 DEF Settled
<1>8. ASSUME NEW t \in Threads,
             \/ t \in Producers /\ (ClaimTail(t) \/ Publish(t))
             \/ t \in Consumers /\ (ClaimHead(t) \/ FreeSlot(t))
      PROVE  BytesCounted'
  <2>1. /\ UNCHANGED <<buf, bytes, pos>>
        /\ \A u \in Threads : pc'[u] \in {"count", "clear"} <=> pc[u] \in {"count", "clear"}
    BY <1>0, <1>8 DEF ClaimTail, Publish, ClaimHead, FreeSlot, Goto, local
  <2>2. \A i \in Slots : Unsettled(i)' <=> Unsettled(i)
    BY <2>1 DEF Unsettled
  <2> QED BY <1>1, <2>1, <2>2 DEF Settled
<1>9. CASE UNCHANGED vars
  <2>1. UNCHANGED <<buf, bytes, pc, pos>>
    BY <1>9 DEF vars, shared, local
  <2> QED BY <1>1, <2>1 DEF Settled, Unsettled
<1> QED BY <1>0, <1>3, <1>4, <1>5, <1>6, <1>7, <1>8, <1>9, StepKinds

LEMMA StoresInit == Init => Stores /\ BytesCounted
<1> SUFFICES ASSUME Init PROVE Stores /\ BytesCounted
  OBVIOUS
<1>1. Stores
  <2>1. \A p \in Nat : buf[Slot(p)] = NoBuf
    BY SlotType DEF Init
  <2>2. head = 0 /\ tail = 0 /\ \A t \in Threads : pc[t] = "idle"
    BY DEF Init
  <2> QED BY <2>1, <2>2, CapacityAssumption DEF Stores, Threads
<1>2. SettledBytes = {}
  BY DEF SettledBytes, Settled, Init
<1> QED BY <1>1, <1>2, FS_EmptySet DEF BytesCounted, Init

\* At every step of every push and pop approx_bytes is the bytes in the ring but
\* for the buffers of the threads between the slot and the counter
\* (zst_queue.c:285-286, 366-372): the byte limit of zst_queue_is_full neither
\* erodes nor, by a wrap below zero, closes the queue.
THEOREM BytesAlwaysExact == Spec => []BytesExact
<1>1. Init => Stores /\ BytesCounted
  BY StoresInit
<1>2. IndInv /\ Stores /\ BytesCounted /\ [Next]_vars => (Stores /\ BytesCounted)'
  BY StoresStep, BytesStep DEF IndInv, Ring
<1>3. BytesCounted => BytesExact
  BY DEF BytesCounted, BytesExact
<1> QED BY <1>1, <1>2, <1>3, Invariant, PTL DEF Spec

-----------------------------------------------------------------------------
(* Wakeups.                                                                 *)

\* A thread that has counted itself among the waiters and not uncounted itself.
CountedPc == {"recheckSeq", "recheckHead", "recheckTail", "wait", "woken",
              "late", "dec", "decLate"}
Counted(s) == {t \in Threads : Side(t) = s /\ pc[t] \in CountedPc}

\* A consumer between its claim and its look at the waiting producers, and a
\* producer between its publication and its look at the waiting consumers.
LeavingPc == {"take", "clear", "free", "notify", "signal"}
NotifyingPc == {"notify", "signal"}

\* A producer that will look at the queue again before it waits.
TryingPc == {"seq", "fullHead", "fullTail", "claim", "reload", "incSeq", "incFull",
             "recheckSeq", "recheckHead", "recheckTail", "woken", "dec"}
Trying(p) == op[p] \in {"timed", "inf"} /\ pc[p] \in TryingPc

\* Only calls that may block count themselves, and the counters are exact.
Counters ==
    /\ \A t \in Threads : pc[t] \in CountedPc \cup {"incSeq", "incFull"} =>
            op[t] \in {"timed", "inf"} /\ (t \in Producers => ~Async)
    /\ \A s \in {"push", "pop"} : IsFiniteSet(Counted(s)) /\ waiters[s] = Cardinality(Counted(s))

\* A slot that is neither free nor published has a thread that works on it.
Worked ==
    /\ \A q \in head..(tail - 1) : seq[Slot(q)] = q =>
            \E p \in Producers : Filling(p) /\ pos[p] = q
    /\ \A q \in tail..(head + Capacity - 1) : seq[Slot(q)] = q + 1 - Capacity =>
            \E c \in Consumers : Taking(c) /\ pos[c] = q - Capacity
    /\ \A p \in Producers : pos[p] < tail => pos[p] <= seq[Slot(pos[p])]

\* A waiting consumer is about to be told of the buffer at head.
PopSide ==
    \A c \in Consumers :
        /\ pc[c] \notin LeavingPc \cup {"again", "idle"} => pos[c] = head
        /\ pc[c] = "wait" /\ seq[Slot(head)] = head + 1 =>
                \E p \in Producers : pc[p] \in NotifyingPc

\* When a producer waits, a buffer is left to pop, or a consumer is about to
\* signal, or another producer is about to try.
PushSide ==
    /\ \A p \in Producers : pc[p] = "recheckTail" =>
            /\ lock = p
            /\ seen[p] < head => \E c \in Consumers : pc[c] \in LeavingPc
    /\ (\E p \in Producers : pc[p] = "wait") =>
            \/ head < tail
            \/ \E c \in Consumers : pc[c] \in LeavingPc
            \/ \E p \in Producers : Trying(p)

LEMMA WorkedStep ==
    ASSUME TypeOK, Sides, Ring, Worked, [Next]_vars PROVE Worked'
<1> USE CapacityAssumption, ThreadsAssumption
<1>0. /\ head \in Nat /\ tail \in Nat /\ head <= tail /\ tail <= head + Capacity
      /\ \A u \in Threads : pos[u] \in Nat
      /\ \A p \in Nat : seq[Slot(p)] \in Nat
      /\ Producers \subseteq Threads /\ Consumers \subseteq Threads
  BY SlotType DEF TypeOK, Ring, SlotPhases, Threads
<1>1. CASE UNCHANGED vars
  BY <1>1 DEF vars, shared, local, Worked, Filling, Taking
<1>2. ASSUME NEW t \in Threads, Stays(t), pos'[t] \in {pos[t], Index(t)} PROVE Worked'
  <2>1. /\ \A u \in Producers : Filling(u) => Filling(u)' /\ pos'[u] = pos[u]
        /\ \A u \in Consumers : Taking(u) => Taking(u)' /\ pos'[u] = pos[u]
    BY <1>0, <1>2 DEF Stays, Filling, Taking, Working
  <2>2. \A u \in Producers : pos'[u] \in {pos[u], tail}
    BY <1>0, <1>2 DEF Stays, Index
  <2>3. UNCHANGED <<head, tail, seq>>
    BY <1>2 DEF Stays
  <2> QED BY <1>0, <2>1, <2>2, <2>3 DEF Worked
<1>3. ASSUME NEW t \in Producers, ClaimTail(t) PROVE Worked'
  <2>1. /\ UNCHANGED <<head, seq, pos>> /\ tail' = tail + 1 /\ pos[t] = tail
        /\ pc[t] = "claim" /\ pc'[t] = "fill"
        /\ \A u \in Threads : u # t => pc'[u] = pc[u]
    BY <1>0, <1>3 DEF ClaimTail, Goto, TypeOK, local
  <2>2. seq[Slot(tail)] = tail
    BY <2>1 DEF Ring, Observations, ProducerKnows
  <2>3. /\ \A u \in Producers : Filling(u) => Filling(u)'
        /\ \A u \in Consumers : Taking(u) => Taking(u)'
        /\ Filling(t)'
    BY <1>0, <2>1 DEF Filling, Taking
  <2>4. ASSUME NEW q \in head..tail, seq[Slot(q)] = q
        PROVE  \E p \in Producers : Filling(p)' /\ pos[p] = q
    <3>1. CASE q = tail
      BY <2>1, <2>3, <3>1
    <3>2. CASE q # tail
      <4>1. q \in head..(tail - 1)
        BY <1>0, <3>2
      <4> QED BY <2>3, <2>4, <4>1 DEF Worked
    <3> QED BY <3>1, <3>2
  <2>5. \A p \in Producers : pos[p] < tail + 1 => pos[p] <= seq[Slot(pos[p])]
    BY <1>0, <2>2 DEF Worked
  <2> QED BY <1>0, <2>1, <2>3, <2>4, <2>5 DEF Worked
<1>4. ASSUME NEW t \in Threads,
             \/ t \in Producers /\ (FillSlot(t) \/ AddBytes(t))
             \/ t \in Consumers /\ (TakeSlot(t) \/ ClearSlot(t))
      PROVE  Worked'
  <2>1. /\ UNCHANGED <<head, tail, seq, pos>>
        /\ \A u \in Threads : u # t => pc'[u] = pc[u]
        /\ t \in Producers => pc'[t] \in {"count", "publish"}
        /\ t \in Consumers => pc'[t] \in {"clear", "free"}
    BY <1>0, <1>4 DEF FillSlot, AddBytes, TakeSlot, ClearSlot, Goto, TypeOK, local
  <2>2. /\ \A u \in Producers : Filling(u) => Filling(u)'
        /\ \A u \in Consumers : Taking(u) => Taking(u)'
    BY <1>0, <2>1 DEF Filling, Taking
  <2> QED BY <2>1, <2>2 DEF Worked
<1>5. ASSUME NEW t \in Producers, Publish(t) PROVE Worked'
  <2>1. /\ UNCHANGED <<head, tail, pos>> /\ pc[t] = "publish"
        /\ \A u \in Threads : u # t => pc'[u] = pc[u]
    BY <1>0, <1>5 DEF Publish, Goto, TypeOK, local
  <2>2. /\ seq'[Slot(pos[t])] = pos[t] + 1
        /\ \A p \in Nat : Slot(p) # Slot(pos[t]) => seq'[Slot(p)] = seq[Slot(p)]
    BY <1>0, <1>5, SlotType DEF Publish, TypeOK
  <2>3. head <= pos[t] /\ pos[t] < tail /\ seq[Slot(pos[t])] = pos[t]
    BY <2>1 DEF Ring, Claims, Filling
  <2>4. /\ \A u \in Producers : u # t /\ Filling(u) => Filling(u)'
        /\ \A u \in Consumers : Taking(u) => Taking(u)'
    BY <1>0, <2>1 DEF Filling, Taking
  <2>5. ASSUME NEW q \in head..(head + Capacity - 1), q # pos[t]
        PROVE  seq'[Slot(q)] = seq[Slot(q)]
    <3>1. Slot(q) # Slot(pos[t])
      BY <1>0, <2>3, <2>5, SlotsDiffer
    <3> QED BY <1>0, <2>2, <3>1
  <2>6. ASSUME NEW q \in head..(tail - 1), seq'[Slot(q)] = q
        PROVE  \E p \in Producers : Filling(p)' /\ pos[p] = q
    <3>1. q # pos[t]
      BY <1>0, <2>2, <2>6
    <3>2. seq[Slot(q)] = q
      BY <1>0, <2>5, <2>6, <3>1
    <3>3. PICK p \in Producers : Filling(p) /\ pos[p] = q
      BY <3>2 DEF Worked
    <3> QED BY <2>4, <3>1, <3>3
  <2>7. ASSUME NEW q \in tail..(head + Capacity - 1), seq'[Slot(q)] = q + 1 - Capacity
        PROVE  \E c \in Consumers : Taking(c)' /\ pos[c] = q - Capacity
    <3>1. seq[Slot(q)] = q + 1 - Capacity
      BY <1>0, <2>3, <2>5, <2>7
    <3> QED BY <2>4, <3>1 DEF Worked
  <2>8. ASSUME NEW u \in Producers, pos[u] < tail PROVE pos[u] <= seq'[Slot(pos[u])]
    <3>1. pos[u] \in Nat /\ pos[u] <= seq[Slot(pos[u])]
      BY <1>0, <2>8 DEF Worked
    <3>2. CASE Slot(pos[u]) = Slot(pos[t])
      BY <1>0, <2>2, <2>3, <3>1, <3>2
    <3>3. CASE Slot(pos[u]) # Slot(pos[t])
      BY <2>2, <3>1, <3>3
    <3> QED BY <3>2, <3>3
  <2> QED BY <2>1, <2>6, <2>7, <2>8 DEF Worked
<1>6. ASSUME NEW t \in Consumers, ClaimHead(t) PROVE Worked'
  <2>1. /\ UNCHANGED <<tail, seq, pos>> /\ head' = head + 1 /\ pos[t] = head
        /\ pc[t] = "claim" /\ pc'[t] = "take"
        /\ \A u \in Threads : u # t => pc'[u] = pc[u]
    BY <1>0, <1>6 DEF ClaimHead, Goto, TypeOK, local
  <2>2. /\ \A u \in Producers : Filling(u) => Filling(u)'
        /\ \A u \in Consumers : Taking(u) => Taking(u)'
        /\ Taking(t)'
    BY <1>0, <2>1 DEF Filling, Taking
  <2>3. ASSUME NEW q \in tail..(head + Capacity), seq[Slot(q)] = q + 1 - Capacity
        PROVE  \E c \in Consumers : Taking(c)' /\ pos[c] = q - Capacity
    <3>1. CASE q = head + Capacity
      BY <1>0, <2>1, <2>2, <3>1
    <3>2. CASE q # head + Capacity
      <4>1. q \in tail..(head + Capacity - 1)
        BY <1>0, <3>2
      <4> QED BY <2>2, <2>3, <4>1 DEF Worked
    <3> QED BY <3>1, <3>2
  <2>4. \A q \in head'..(tail - 1) : q \in head..(tail - 1)
    BY <1>0, <2>1
  <2>5. head' + Capacity - 1 = head + Capacity
    BY <1>0, <2>1
  <2> QED BY <1>0, <2>1, <2>2, <2>3, <2>4, <2>5 DEF Worked
<1>8. ASSUME NEW t \in Consumers, FreeSlot(t) PROVE Worked'
  <2>1. /\ UNCHANGED <<head, tail, pos>> /\ pc[t] = "free"
        /\ \A u \in Threads : u # t => pc'[u] = pc[u]
    BY <1>0, <1>8 DEF FreeSlot, Goto, TypeOK, local
  <2>2. /\ seq'[Slot(pos[t])] = pos[t] + Capacity
        /\ \A p \in Nat : Slot(p) # Slot(pos[t]) => seq'[Slot(p)] = seq[Slot(p)]
    BY <1>0, <1>8, SlotType DEF FreeSlot, TypeOK
  <2>3. /\ pos[t] < head /\ tail <= pos[t] + Capacity /\ seq[Slot(pos[t])] = pos[t] + 1
        /\ pos[t] \in Nat /\ Slot(pos[t] + Capacity) = Slot(pos[t])
    BY <1>0, <2>1, SlotRound DEF Ring, Claims, Taking
  <2>4. /\ \A u \in Producers : Filling(u) => Filling(u)'
        /\ \A u \in Consumers : u # t /\ Taking(u) => Taking(u)'
    BY <1>0, <2>1 DEF Filling, Taking
  <2>5. ASSUME NEW q \in head..(head + Capacity - 1), q # pos[t] + Capacity
        PROVE  seq'[Slot(q)] = seq[Slot(q)]
    <3>1. Slot(q) # Slot(pos[t] + Capacity)
      BY <1>0, <2>3, <2>5, SlotsDiffer
    <3> QED BY <1>0, <2>2, <2>3, <3>1
  <2>6. ASSUME NEW q \in head..(tail - 1), seq'[Slot(q)] = q
        PROVE  \E p \in Producers : Filling(p)' /\ pos[p] = q
    <3>1. seq[Slot(q)] = q
      BY <1>0, <2>3, <2>5, <2>6
    <3> QED BY <2>4, <3>1 DEF Worked
  <2>7. ASSUME NEW q \in tail..(head + Capacity - 1), seq'[Slot(q)] = q + 1 - Capacity
        PROVE  \E c \in Consumers : Taking(c)' /\ pos[c] = q - Capacity
    <3>1. q # pos[t] + Capacity
      BY <1>0, <2>2, <2>3, <2>7
    <3>2. seq[Slot(q)] = q + 1 - Capacity
      BY <1>0, <2>5, <2>7, <3>1
    <3>3. PICK c \in Consumers : Taking(c) /\ pos[c] = q - Capacity
      BY <3>2 DEF Worked
    <3>4. c # t
      BY <1>0, <2>3, <3>1, <3>3
    <3> QED BY <2>4, <3>3, <3>4
  <2>8. ASSUME NEW u \in Producers, pos[u] < tail PROVE pos[u] <= seq'[Slot(pos[u])]
    <3>1. pos[u] \in Nat /\ pos[u] <= seq[Slot(pos[u])]
      BY <1>0, <2>8 DEF Worked
    <3>2. CASE Slot(pos[u]) = Slot(pos[t])
      BY <1>0, <2>2, <2>3, <3>1, <3>2
    <3>3. CASE Slot(pos[u]) # Slot(pos[t])
      BY <2>2, <3>1, <3>3
    <3> QED BY <3>2, <3>3
  <2> QED BY <2>1, <2>6, <2>7, <2>8 DEF Worked
<1> QED BY <1>0, <1>1, <1>2, <1>3, <1>4, <1>5, <1>6, <1>8, StepKinds

\* The steps of a thread that neither count nor uncount it nor wake another.
Uncounted(t) ==
    \/ LoadSeq(t) \/ ClaimFails(t) \/ Reload(t) \/ LoadWaiters(t)
    \/ RecheckSeq(t) \/ SpuriousWakeup(t) \/ Deadline(t) \/ Relock(t)
    \/ t \in Producers /\ ProducerStep(t)
    \/ t \in Consumers /\ ConsumerStep(t)

LEMMA StepsOfThreads ==
    ASSUME [Next]_vars
    PROVE  \/ UNCHANGED vars
           \/ \E t \in Threads : Uncounted(t) \/ IncWaiters(t) \/ DecWaiters(t) \/ Signal(t)
BY DEF Next, Step, Uncounted, Threads

\* Whether thread t is counted does not change, and if it is on its way to be
\* counted, its call may block.
KeepsCount(t) ==
    /\ waiters' = waiters
    /\ pc' = [pc EXCEPT ![t] = pc'[t]]
    /\ \A u \in Threads : u # t => op'[u] = op[u]
    /\ pc'[t] \in CountedPc <=> pc[t] \in CountedPc
    /\ pc'[t] \in CountedPc \cup {"incSeq", "incFull"} =>
          op'[t] \in {"timed", "inf"} /\ (t \in Producers => ~Async)

LEMMA UncountedStep ==
    ASSUME TypeOK, Sides, Counters, NEW t \in Threads, Uncounted(t)
    PROVE  KeepsCount(t)
<1> USE DEF CountedPc, KeepsCount
<1>0. pc \in [Threads -> PushPc \cup PopPc] /\ op \in [Threads -> {"zero", "timed", "inf", "flush"}]
  BY DEF TypeOK
<1>1. CASE LoadSeq(t)
  <2>1. /\ UNCHANGED <<waiters, op>> /\ pc[t] = "seq" /\ pc' = [pc EXCEPT ![t] = pc'[t]]
        /\ \/ pc'[t] \in {"fullHead", "claim", "reload"}
           \/ pc'[t] = NotReady(t, "incSeq")
    BY <1>0, <1>1 DEF LoadSeq, Goto, local
  <2> QED BY <1>0, <2>1 DEF NotReady
<1>2. CASE ClaimFails(t) \/ Reload(t) \/ LoadWaiters(t)
  BY <1>0, <1>2 DEF ClaimFails, Reload, LoadWaiters, Goto, AfterOk, local
<1>3. CASE RecheckSeq(t) \/ SpuriousWakeup(t) \/ Deadline(t) \/ Relock(t)
  <2>1. /\ UNCHANGED <<waiters, op>> /\ pc[t] \in CountedPc /\ pc' = [pc EXCEPT ![t] = pc'[t]]
        /\ pc'[t] \in CountedPc
    BY <1>0, <1>3 DEF RecheckSeq, SpuriousWakeup, Deadline, Relock, Goto, local
  <2> QED BY <2>1 DEF Counters
<1>4. ASSUME t \in Producers, NEW b \in Buffers, NEW o \in PushOps, PushCall(t, b, o)
      PROVE  KeepsCount(t)
  BY <1>0, <1>4 DEF PushCall, Goto
<1>5. CASE IsFullTail(t)
  <2>1. /\ UNCHANGED <<waiters, op>> /\ pc[t] = "fullTail" /\ pc' = [pc EXCEPT ![t] = pc'[t]]
        /\ pc'[t] = "claim" \/ pc'[t] = NotReady(t, "incFull")
    BY <1>0, <1>5 DEF IsFullTail, Goto, local
  <2> QED BY <1>0, <2>1 DEF NotReady
<1>6. CASE RecheckHead(t) \/ RecheckTail(t)
  <2>1. /\ UNCHANGED <<waiters, op>> /\ pc[t] \in CountedPc /\ pc' = [pc EXCEPT ![t] = pc'[t]]
        /\ pc'[t] \in CountedPc
    BY <1>0, <1>6 DEF RecheckHead, RecheckTail, Goto, local
  <2> QED BY <2>1 DEF Counters
<1>7. CASE IsFullHead(t) \/ ClaimTail(t) \/ FillSlot(t) \/ AddBytes(t) \/ Publish(t)
  BY <1>0, <1>7 DEF IsFullHead, ClaimTail, FillSlot, AddBytes, Publish, Goto, local
<1>8. CASE FlushNext(t) \/ ClaimHead(t) \/ TakeSlot(t) \/ ClearSlot(t) \/ FreeSlot(t)
  BY <1>0, <1>8 DEF FlushNext, ClaimHead, TakeSlot, ClearSlot, FreeSlot, Goto, local
<1>9. ASSUME t \in Consumers, NEW o \in PopOps, PopCall(t, o)
      PROVE  KeepsCount(t)
  BY <1>0, <1>9 DEF PopCall, Goto
<1> QED BY <1>1, <1>2, <1>3, <1>4, <1>5, <1>6, <1>7, <1>8, <1>9
        DEF Uncounted, ProducerStep, ConsumerStep

LEMMA CountersStep ==
    ASSUME TypeOK, Sides, Counters, [Next]_vars PROVE Counters'
<1>0. /\ pc \in [Threads -> PushPc \cup PopPc]
      /\ waiters \in [{"push", "pop"} -> Int]
      /\ \A t \in Threads : Side(t) \in {"push", "pop"}
  BY DEF TypeOK, Side
<1>1. ASSUME UNCHANGED <<waiters, op>> \/ (UNCHANGED waiters /\ \E t \in Threads : Uncounted(t)),
             \A u \in Threads : pc'[u] \in CountedPc <=> pc[u] \in CountedPc
      PROVE  \A s \in {"push", "pop"} :
                 IsFiniteSet(Counted(s)') /\ waiters'[s] = Cardinality(Counted(s)')
  <2>1. \A s \in {"push", "pop"} : Counted(s)' = Counted(s)
    BY <1>1 DEF Counted, Side
  <2> QED BY <1>1, <2>1 DEF Counters
<1>2. CASE UNCHANGED vars
  BY <1>2 DEF vars, local, Counters, Counted
<1>3. ASSUME NEW t \in Threads, Uncounted(t) PROVE Counters'
  <2>1. /\ waiters' = waiters
        /\ pc' = [pc EXCEPT ![t] = pc'[t]]
        /\ \A u \in Threads : u # t => op'[u] = op[u]
        /\ pc'[t] \in CountedPc <=> pc[t] \in CountedPc
        /\ pc'[t] \in CountedPc \cup {"incSeq", "incFull"} =>
              op'[t] \in {"timed", "inf"} /\ (t \in Producers => ~Async)
    BY <1>3, UncountedStep DEF KeepsCount
  <2>2. \A u \in Threads : u # t => pc'[u] = pc[u]
    BY <1>0, <2>1
  <2>3. \A u \in Threads : pc'[u] \in CountedPc <=> pc[u] \in CountedPc
    BY <2>1, <2>2
  <2>4. \A s \in {"push", "pop"} :
            IsFiniteSet(Counted(s)') /\ waiters'[s] = Cardinality(Counted(s)')
    BY <1>1, <1>3, <2>1, <2>3
  <2>5. \A u \in Threads : pc'[u] \in CountedPc \cup {"incSeq", "incFull"} =>
            op'[u] \in {"timed", "inf"} /\ (u \in Producers => ~Async)
    BY <2>1, <2>2 DEF Counters
  <2> QED BY <2>4, <2>5 DEF Counters
<1>4. ASSUME NEW t \in Threads, IncWaiters(t) PROVE Counters'
  <2>1. /\ UNCHANGED op /\ pc[t] \in {"incSeq", "incFull"} /\ pc'[t] \in CountedPc
        /\ waiters' = [waiters EXCEPT ![Side(t)] = @ + 1]
        /\ \A u \in Threads : u # t => pc'[u] = pc[u]
    BY <1>0, <1>4 DEF IncWaiters, Goto, local, CountedPc
  <2>2. \A u \in Threads : pc'[u] \in CountedPc \cup {"incSeq", "incFull"} =>
            op'[u] \in {"timed", "inf"} /\ (u \in Producers => ~Async)
    BY <2>1 DEF Counters
  <2>3. t \notin Counted(Side(t)) /\ Counted(Side(t))' = Counted(Side(t)) \cup {t}
    BY <2>1 DEF Counted, CountedPc, Side
  <2>4. /\ IsFiniteSet(Counted(Side(t)))
        /\ waiters[Side(t)] = Cardinality(Counted(Side(t)))
    BY <1>0 DEF Counters
  <2>5. /\ IsFiniteSet(Counted(Side(t)) \cup {t})
        /\ Cardinality(Counted(Side(t)) \cup {t}) = Cardinality(Counted(Side(t))) + 1
    BY <2>3, <2>4, FS_AddElement
  <2>6. waiters'[Side(t)] = waiters[Side(t)] + 1
    BY <1>0, <2>1
  <2>7. IsFiniteSet(Counted(Side(t))') /\ waiters'[Side(t)] = Cardinality(Counted(Side(t))')
    BY <2>3, <2>4, <2>5, <2>6
  <2>8. ASSUME NEW s \in {"push", "pop"}, s # Side(t)
        PROVE  IsFiniteSet(Counted(s)') /\ waiters'[s] = Cardinality(Counted(s)')
    <3>1. Counted(s)' = Counted(s)
      BY <2>1, <2>8 DEF Counted, Side
    <3>2. waiters'[s] = waiters[s]
      BY <1>0, <2>1, <2>8
    <3> QED BY <3>1, <3>2 DEF Counters
  <2>9. \A s \in {"push", "pop"} : IsFiniteSet(Counted(s)') /\ waiters'[s] = Cardinality(Counted(s)')
    BY <2>7, <2>8
  <2> QED BY <2>2, <2>9 DEF Counters
<1>5. ASSUME NEW t \in Threads, DecWaiters(t) PROVE Counters'
  <2>1. /\ UNCHANGED op /\ pc[t] \in CountedPc /\ pc'[t] \in {"reload", "idle"}
        /\ waiters' = [waiters EXCEPT ![Side(t)] = @ - 1]
        /\ \A u \in Threads : u # t => pc'[u] = pc[u]
    BY <1>0, <1>5 DEF DecWaiters, Goto, local, CountedPc
  <2>2. \A u \in Threads : pc'[u] \in CountedPc \cup {"incSeq", "incFull"} =>
            op'[u] \in {"timed", "inf"} /\ (u \in Producers => ~Async)
    BY <2>1 DEF Counters, CountedPc
  <2>3. t \in Counted(Side(t)) /\ Counted(Side(t))' = Counted(Side(t)) \ {t}
    BY <2>1 DEF Counted, CountedPc, Side
  <2>4. /\ IsFiniteSet(Counted(Side(t)))
        /\ waiters[Side(t)] = Cardinality(Counted(Side(t)))
    BY <1>0 DEF Counters
  <2>5. /\ IsFiniteSet(Counted(Side(t)) \ {t})
        /\ Cardinality(Counted(Side(t)) \ {t}) = Cardinality(Counted(Side(t))) - 1
    BY <2>3, <2>4, FS_RemoveElement
  <2>6. waiters'[Side(t)] = waiters[Side(t)] - 1
    BY <1>0, <2>1
  <2>7. IsFiniteSet(Counted(Side(t))') /\ waiters'[Side(t)] = Cardinality(Counted(Side(t))')
    BY <2>3, <2>4, <2>5, <2>6
  <2>8. ASSUME NEW s \in {"push", "pop"}, s # Side(t)
        PROVE  IsFiniteSet(Counted(s)') /\ waiters'[s] = Cardinality(Counted(s)')
    <3>1. Counted(s)' = Counted(s)
      BY <2>1, <2>8 DEF Counted, Side
    <3>2. waiters'[s] = waiters[s]
      BY <1>0, <2>1, <2>8
    <3> QED BY <3>1, <3>2 DEF Counters
  <2>9. \A s \in {"push", "pop"} : IsFiniteSet(Counted(s)') /\ waiters'[s] = Cardinality(Counted(s)')
    BY <2>7, <2>8
  <2> QED BY <2>2, <2>9 DEF Counters
<1>6. ASSUME NEW t \in Threads, Signal(t) PROVE Counters'
  <2>1. UNCHANGED <<waiters, op>> /\ pc[t] = "signal"
    BY <1>6 DEF Signal, local
  <2>2. /\ pc'[t] \in {"idle", "again"}
        /\ \A u \in Threads : u # t => pc'[u] = pc[u] \/ (pc[u] = "wait" /\ pc'[u] = "woken")
    BY <1>0, <1>6 DEF Signal, Waiting, Goto, AfterOk
  <2>3. \A u \in Threads : pc'[u] \in CountedPc <=> pc[u] \in CountedPc
    BY <2>1, <2>2 DEF CountedPc
  <2>4. \A s \in {"push", "pop"} :
            IsFiniteSet(Counted(s)') /\ waiters'[s] = Cardinality(Counted(s)')
    BY <1>1, <2>1, <2>3
  <2>5. \A u \in Threads : pc'[u] \in CountedPc \cup {"incSeq", "incFull"} =>
            op'[u] \in {"timed", "inf"} /\ (u \in Producers => ~Async)
    BY <2>1, <2>2, <2>3 DEF Counters, CountedPc
  <2> QED BY <2>4, <2>5 DEF Counters
<1> QED BY <1>2, <1>3, <1>4, <1>5, <1>6, StepsOfThreads

\* Whoever waits is seen by the thread that looks at the counter.
LEMMA WaiterSeen ==
    ASSUME Counters, NEW t \in Threads, pc[t] \in CountedPc
    PROVE  waiters[Side(t)] > 0
<1>1. t \in Counted(Side(t)) /\ Side(t) \in {"push", "pop"}
  BY DEF Counted, Side
<1>2. IsFiniteSet(Counted(Side(t))) /\ waiters[Side(t)] = Cardinality(Counted(Side(t)))
  BY <1>1 DEF Counters
<1>3. Cardinality(Counted(Side(t))) \in Nat
  BY <1>2, FS_CardinalityType
<1>4. Cardinality(Counted(Side(t))) # 0
  BY <1>1, <1>2, FS_EmptySet
<1> QED BY <1>2, <1>3, <1>4

Acts(t) == Uncounted(t) \/ IncWaiters(t) \/ DecWaiters(t) \/ Signal(t)

\* What a step of thread t does to the others, and how t comes to wait.
LEMMA ActsFacts ==
    ASSUME TypeOK, Sides, Counters, NEW t \in Threads, Acts(t)
    PROVE  /\ \A u \in Threads : u # t =>
                 /\ pos'[u] = pos[u] /\ op'[u] = op[u] /\ seen'[u] = seen[u]
                 /\ pc'[u] = pc[u] \/ (pc[u] = "wait" /\ pc'[u] = "woken" /\ Signal(t))
           /\ pc'[t] = "wait" => RecheckSeq(t) \/ (RecheckTail(t) /\ t \in Producers)
           /\ pc[t] = "notify" => LoadWaiters(t)
           /\ pc[t] = "signal" => Signal(t)
<1>0. /\ pc \in [Threads -> PushPc \cup PopPc] /\ pos \in [Threads -> Nat]
      /\ op \in [Threads -> {"zero", "timed", "inf", "flush"}] /\ seen \in [Threads -> Nat]
  BY DEF TypeOK
<1>1. \A u \in Threads : u # t => pos'[u] = pos[u] /\ op'[u] = op[u] /\ seen'[u] = seen[u]
  <2>1. CASE Uncounted(t)
    BY <1>0, <2>1 DEF Uncounted, LoadSeq, ClaimFails, Reload, LoadWaiters, RecheckSeq,
       SpuriousWakeup, Deadline, Relock, ProducerStep, ConsumerStep, PushCall, PopCall,
       IsFullHead, IsFullTail, RecheckHead, RecheckTail, ClaimTail, FillSlot, AddBytes, Publish,
       FlushNext, ClaimHead, TakeSlot, ClearSlot, FreeSlot, local
  <2>2. CASE IncWaiters(t) \/ DecWaiters(t) \/ Signal(t)
    BY <2>2 DEF IncWaiters, DecWaiters, Signal, local
  <2> QED BY <2>1, <2>2 DEF Acts
<1>2. \A u \in Threads : u # t =>
          pc'[u] = pc[u] \/ (pc[u] = "wait" /\ pc'[u] = "woken" /\ Signal(t))
  <2>1. CASE Uncounted(t)
    BY <1>0, <2>1, UncountedStep DEF KeepsCount
  <2>2. CASE IncWaiters(t) \/ DecWaiters(t)
    BY <1>0, <2>2 DEF IncWaiters, DecWaiters, Goto
  <2>3. CASE Signal(t)
    BY <1>0, <2>3 DEF Signal, Waiting, Goto
  <2> QED BY <2>1, <2>2, <2>3 DEF Acts
<1>3. /\ pc'[t] = "wait" => RecheckSeq(t) \/ (RecheckTail(t) /\ t \in Producers)
      /\ pc[t] = "notify" => LoadWaiters(t)
      /\ pc[t] = "signal" => Signal(t)
  <2>1. CASE LoadSeq(t) \/ ClaimFails(t) \/ Reload(t)
    BY <1>0, <2>1 DEF LoadSeq, ClaimFails, Reload, Goto, NotReady
  <2>2. CASE LoadWaiters(t) \/ RecheckSeq(t) \/ SpuriousWakeup(t) \/ Deadline(t) \/ Relock(t)
    BY <1>0, <2>2 DEF LoadWaiters, RecheckSeq, SpuriousWakeup, Deadline, Relock, Goto, AfterOk
  <2>3. CASE t \in Producers /\ ProducerStep(t)
    BY <1>0, <2>3 DEF ProducerStep, PushCall, IsFullHead, IsFullTail, RecheckHead,
       RecheckTail, ClaimTail, FillSlot, AddBytes, Publish, Goto, NotReady
  <2>4. CASE t \in Consumers /\ ConsumerStep(t)
    BY <1>0, <2>4 DEF ConsumerStep, PopCall, FlushNext, ClaimHead, TakeSlot, ClearSlot, FreeSlot, Goto
  <2>5. CASE IncWaiters(t) \/ DecWaiters(t)
    BY <1>0, <2>5 DEF IncWaiters, DecWaiters, Goto
  <2>6. CASE Signal(t)
    <3>1. pc'[t] # "wait" /\ pc[t] = "signal"
      BY <1>0, <2>6 DEF Signal, Waiting, Goto, AfterOk
    <3> QED BY <2>6, <3>1
  <2> QED BY <2>1, <2>2, <2>3, <2>4, <2>5, <2>6 DEF Acts, Uncounted
<1> QED BY <1>1, <1>2, <1>3

\* Which steps move the indices and the sequence numbers.
LEMMA ActsOnRing ==
    ASSUME NEW t \in Threads, Acts(t)
    PROVE  /\ head' = head \/ (t \in Consumers /\ ClaimHead(t))
           /\ tail' = tail \/ (t \in Producers /\ ClaimTail(t))
           /\ \/ seq' = seq
              \/ t \in Producers /\ Publish(t)
              \/ t \in Consumers /\ FreeSlot(t)
           /\ \/ lock' = lock
              \/ t \in Producers /\ (RecheckHead(t) \/ RecheckTail(t))
BY DEF Acts, IncWaiters, DecWaiters, Signal,
       Uncounted, LoadSeq, ClaimFails, Reload, LoadWaiters, RecheckSeq,
       SpuriousWakeup, Deadline, Relock, ProducerStep, ConsumerStep, PushCall, PopCall,
       IsFullHead, IsFullTail, RecheckHead, RecheckTail, ClaimTail, FillSlot, AddBytes, Publish,
       FlushNext, ClaimHead, TakeSlot, ClearSlot, FreeSlot, shared

LEMMA PopSideStep ==
    ASSUME TypeOK, Sides, Ring, Counters, PopSide, NEW c, Consumers = {c}, [Next]_vars
    PROVE  PopSide'
<1> USE ThreadsAssumption
<1>0. /\ pc \in [Threads -> PushPc \cup PopPc] /\ pos \in [Threads -> Nat]
      /\ c \in Threads /\ c \in Consumers /\ c \notin Producers
      /\ head \in Nat /\ Producers \subseteq Threads
      /\ \A t \in Threads : t # c => t \in Producers /\ t \notin Consumers
      /\ pc[c] \notin LeavingPc \cup {"again", "idle"} => pos[c] = head
  BY DEF TypeOK, Threads, PopSide
<1>1. CASE UNCHANGED vars
  BY <1>1 DEF vars, shared, local, PopSide
<1>2. ASSUME NEW t \in Threads, Acts(t) PROVE PopSide'
  <2>1. ASSUME pc'[c] \notin LeavingPc \cup {"again", "idle"} PROVE pos'[c] = head'
    <3>1. CASE t # c
      <4>1. head' = head /\ pos'[c] = pos[c]
        BY <1>0, <1>2, <3>1, ActsFacts, ActsOnRing
      <4>2. pc[c] \notin LeavingPc \cup {"again", "idle"}
        BY <1>0, <1>2, <2>1, <3>1, ActsFacts DEF LeavingPc
      <4> QED BY <1>0, <4>1, <4>2
    <3>2. CASE t = c
      <4>1. CASE LoadSeq(c) \/ ClaimFails(c) \/ Reload(c)
        <5>1. UNCHANGED head /\ pc[c] \in {"seq", "claim", "reload"} /\ pos'[c] \in {pos[c], head}
          BY <1>0, <4>1 DEF LoadSeq, ClaimFails, Reload, shared, local, Index
        <5> QED BY <1>0, <5>1 DEF LeavingPc
      <4>2. CASE LoadWaiters(c) \/ Signal(c)
        <5>1. pc'[c] \in {"signal", "again", "idle"}
          BY <1>0, <4>2 DEF LoadWaiters, Signal, Waiting, Goto, AfterOk
        <5> QED BY <2>1, <5>1 DEF LeavingPc
      <4>3. CASE \/ RecheckSeq(c) \/ SpuriousWakeup(c) \/ Deadline(c) \/ Relock(c)
                 \/ IncWaiters(c) \/ DecWaiters(c)
        <5>1. /\ UNCHANGED <<head, pos>>
              /\ pc[c] \in CountedPc \cup {"incSeq", "incFull"}
          BY <4>3 DEF RecheckSeq, SpuriousWakeup, Deadline, Relock, IncWaiters, DecWaiters,
             shared, local, CountedPc
        <5> QED BY <1>0, <5>1 DEF LeavingPc, CountedPc
      <4>4. CASE FlushNext(c) \/ \E o \in PopOps : PopCall(c, o)
        BY <1>0, <4>4 DEF FlushNext, PopCall, shared
      <4>5. CASE ClaimHead(c) \/ TakeSlot(c) \/ ClearSlot(c) \/ FreeSlot(c)
        <5>1. pc'[c] \in LeavingPc
          BY <1>0, <4>5 DEF ClaimHead, TakeSlot, ClearSlot, FreeSlot, Goto, LeavingPc
        <5> QED BY <2>1, <5>1
      <4> QED BY <1>0, <1>2, <3>2, <4>1, <4>2, <4>3, <4>4, <4>5 DEF Acts, Uncounted, ConsumerStep
    <3> QED BY <3>1, <3>2
  <2>2. ASSUME pc'[c] = "wait", seq'[Slot(head')] = head' + 1
        PROVE  \E p \in Producers : pc'[p] \in NotifyingPc
    <3>1. CASE t = c
      <4>1. RecheckSeq(c)
        BY <1>0, <1>2, <2>2, <3>1, ActsFacts
      <4>2. /\ UNCHANGED <<head, seq>> /\ pc[c] = "recheckSeq"
            /\ seq[Slot(pos[c])] < pos[c] + 1
        BY <1>0, <2>2, <4>1 DEF RecheckSeq, Goto, Ready, shared
      <4>3. pos[c] = head
        BY <1>0, <4>2 DEF LeavingPc
      <4>4. seq[Slot(head)] \in Nat
        BY <1>0, SlotType DEF TypeOK
      <4> QED BY <1>0, <2>2, <4>2, <4>3, <4>4
    <3>2. CASE t # c
      <4>1. /\ t \in Producers /\ head' = head /\ pc[c] = "wait" /\ ~Signal(t)
        <5>1. t \in Producers /\ head' = head
          BY <1>0, <1>2, <3>2, ActsOnRing
        <5>2. pc[c] = "wait"
          BY <1>0, <1>2, <2>2, <3>2, ActsFacts
        <5>3. ~Signal(t)
          <6> SUFFICES ASSUME Signal(t) PROVE FALSE
            OBVIOUS
          <6>1. Waiting(Other(Side(t))) = {c}
            BY <1>0, <5>1, <5>2 DEF Waiting, Other, Side
          <6>2. pc' = [pc EXCEPT ![t] = AfterOk(t), ![c] = "woken"]
            BY <6>1 DEF Signal
          <6> QED BY <1>0, <2>2, <6>2
        <5> QED BY <5>1, <5>2, <5>3
      <4>2. CASE Publish(t)
        <5>1. pc'[t] = "notify"
          BY <1>0, <4>2 DEF Publish, Goto
        <5> QED BY <4>1, <5>1 DEF NotifyingPc
      <4>3. CASE ~Publish(t)
        <5>1. seq' = seq
          BY <1>0, <1>2, <3>2, <4>3, ActsOnRing
        <5>2. PICK p \in Producers : pc[p] \in NotifyingPc
          BY <1>0, <2>2, <4>1, <5>1 DEF PopSide
        <5>3. CASE p # t
          <6>1. pc'[p] = pc[p]
            BY <1>0, <1>2, <4>1, <5>2, <5>3, ActsFacts
          <6> QED BY <5>2, <6>1
        <5>4. CASE p = t
          <6>1. LoadWaiters(t)
            BY <1>2, <4>1, <5>2, <5>4, ActsFacts DEF NotifyingPc
          <6>2. waiters["pop"] > 0
            BY <1>0, <4>1, WaiterSeen DEF CountedPc, Side
          <6>3. pc'[t] = "signal"
            BY <1>0, <4>1, <6>1, <6>2 DEF LoadWaiters, Goto, Other, Side
          <6> QED BY <4>1, <6>3 DEF NotifyingPc
        <5> QED BY <5>3, <5>4
      <4> QED BY <4>2, <4>3
    <3> QED BY <3>1, <3>2
  <2> QED BY <2>1, <2>2 DEF PopSide
<1> QED BY <1>1, <1>2, StepsOfThreads DEF Acts

LEMMA RemainderOf ==
    ASSUME NEW m \in Nat \ {0}, NEW q \in Nat, NEW r \in 0..(m - 1)
    PROVE  (m * q + r) % m = r
<1>1. m * q \in Nat
  OBVIOUS
<1>2. m * q + r \in Nat
  BY <1>1
<1>3. PICK q2 \in Nat, r2 \in 0..(m - 1) : m * q + r = m * q2 + r2 /\ r2 = (m * q + r) % m
  BY <1>2, DivisionFact
<1>4. q - q2 \in Int /\ m * (q - q2) = m * q - m * q2
  OBVIOUS
<1>5. m * (q - q2) = r2 - r
  <2>1. m * q2 \in Int
    OBVIOUS
  <2> QED BY <1>1, <1>3, <1>4, <2>1
<1>6. q - q2 = 0
  <2>1. -m < r2 - r /\ r2 - r < m
    OBVIOUS
  <2> QED BY <1>4, <1>5, <2>1, SmallMultiple
<1> QED BY <1>3, <1>5, <1>6

\* Every slot is the slot of one of Capacity successive positions.
LEMMA SlotOnto ==
    ASSUME NEW h \in Nat, NEW i \in Slots
    PROVE  \E p \in h..(h + Capacity - 1) : Slot(p) = i
<1>1. Capacity \in Nat \ {0} /\ i \in 0..(Capacity - 1)
  BY CapacityAssumption DEF Slots
<1>2. PICK q \in Nat, r \in 0..(Capacity - 1) : h = Capacity * q + r
  BY <1>1, DivisionFact
<1>3. Capacity * q \in Nat /\ Capacity * (q + 1) = Capacity * q + Capacity
  BY <1>1
<1>4. CASE r <= i
  <2>1. Capacity * q + i \in h..(h + Capacity - 1)
    BY <1>1, <1>2, <1>3, <1>4
  <2>2. Slot(Capacity * q + i) = i
    BY <1>1, RemainderOf DEF Slot
  <2> QED BY <2>1, <2>2
<1>5. CASE i < r
  <2>1. Capacity * (q + 1) + i \in h..(h + Capacity - 1)
    BY <1>1, <1>2, <1>3, <1>5
  <2>2. q + 1 \in Nat
    OBVIOUS
  <2>3. Slot(Capacity * (q + 1) + i) = i
    BY <1>1, <2>2, RemainderOf DEF Slot
  <2> QED BY <2>1, <2>3
<1> QED BY <1>1, <1>4, <1>5

\* A queue that is_full reports full, and whose head is as it was read, is not
\* empty, or a consumer is about to empty a slot.
LEMMA FullNotEmpty ==
    ASSUME TypeOK, Ring, Stores, BytesCounted, NEW h \in Nat, h <= head, IsFull(h)
    PROVE  h < head \/ head < tail \/ \E c \in Consumers : pc[c] \in {"take", "clear"}
<1>0. head \in Nat /\ tail \in Nat /\ head <= tail
  BY DEF TypeOK, Ring, SlotPhases
<1>1. CASE MaxBuffers > 0 /\ tail - h >= MaxBuffers
  BY <1>0, <1>1, LimitsAssumption
<1>2. CASE MaxBytes > 0 /\ bytes >= MaxBytes
  <2>1. Cardinality(SettledBytes) # 0
    BY <1>2, LimitsAssumption DEF BytesCounted
  <2>2. SettledBytes # {}
    BY <2>1, FS_EmptySet
  <2>3. PICK i \in Slots : buf[i] # NoBuf
    BY <2>2, SettledMembers DEF Settled
  <2>4. PICK p \in head..(head + Capacity - 1) : Slot(p) = i
    BY <1>0, SlotOnto
  <2>5. CASE p < tail
    BY <1>0, <2>4, <2>5
  <2>6. CASE ~(p < tail)
    <3>1. p \in tail..(head + Capacity - 1)
      BY <1>0, <2>4, <2>6, CapacityAssumption
    <3> QED BY <2>3, <2>4, <3>1 DEF Stores
  <2> QED BY <2>5, <2>6
<1>3. CASE MaxDuration > 0 /\ Duration >= MaxDuration
  <2>1. Published # {}
    BY <1>3, LimitsAssumption DEF Duration
  <2>2. PICK p \in head..(tail - 1) : TRUE
    BY <2>1 DEF Published
  <2> QED BY <1>0, <2>2
<1> QED BY <1>1, <1>2, <1>3 DEF IsFull

\* A producer that goes to sleep leaves a buffer to pop or a consumer that will
\* look at the waiters.
LEMMA SleepsSafely ==
    ASSUME TypeOK, Sides, Ring, Stores, BytesCounted, Worked, PushSide,
           NEW t \in Producers, RecheckSeq(t) \/ RecheckTail(t), pc'[t] = "wait"
    PROVE  head < tail \/ \E c \in Consumers : pc[c] \in LeavingPc
<1> USE CapacityAssumption, ThreadsAssumption
<1>0. /\ pc \in [Threads -> PushPc \cup PopPc] /\ t \in Threads
      /\ head \in Nat /\ tail \in Nat /\ pos[t] \in Nat /\ seen[t] \in Nat
      /\ pos[t] <= tail /\ seen[t] <= head /\ head <= tail /\ tail <= head + Capacity
      /\ \A p \in Nat : seq[Slot(p)] \in Nat
  BY SlotType DEF TypeOK, Threads, Ring, Observations, ProducerKnows, SlotPhases
<1>1. CASE RecheckSeq(t)
  <2>1. seq[Slot(pos[t])] < pos[t]
    BY <1>0, <1>1 DEF RecheckSeq, Goto, Ready
  <2>2. pos[t] = tail
    <3>1. pos[t] < tail => pos[t] <= seq[Slot(pos[t])]
      BY DEF Worked
    <3>2. seq[Slot(pos[t])] \in Nat
      BY <1>0
    <3> QED BY <1>0, <2>1, <3>1, <3>2
  <2>3. CASE tail = head + Capacity
    BY <1>0, <2>3
  <2>4. CASE tail # head + Capacity
    <3>1. tail \in tail..(head + Capacity - 1)
      BY <1>0, <2>4
    <3>2. seq[Slot(tail)] = tail + 1 - Capacity
      BY <1>0, <2>1, <2>2, <3>1 DEF Ring, SlotPhases
    <3>3. PICK c \in Consumers : Taking(c)
      BY <3>1, <3>2 DEF Worked
    <3> QED BY <3>3 DEF Taking, LeavingPc
  <2> QED BY <2>3, <2>4
<1>2. CASE RecheckTail(t)
  <2>1. IsFull(seen[t]) /\ pc[t] = "recheckTail"
    BY <1>0, <1>2 DEF RecheckTail, Goto
  <2>2. seen[t] < head \/ head < tail \/ \E c \in Consumers : pc[c] \in {"take", "clear"}
    BY <1>0, <2>1, FullNotEmpty
  <2>3. seen[t] < head => \E c \in Consumers : pc[c] \in LeavingPc
    BY <2>1 DEF PushSide
  <2> QED BY <2>2, <2>3 DEF LeavingPc
<1> QED BY <1>1, <1>2

\* A consumer that leaves stays on its way as long as a producer waits for it,
\* or wakes a producer.
LEMMA LeavesOn ==
    ASSUME TypeOK, Sides, Counters, NEW c \in Consumers, pc[c] \in LeavingPc, Acts(c),
           NEW p \in Producers, pc[p] \in CountedPc
    PROVE  \/ pc'[c] \in LeavingPc
           \/ /\ Signal(c)
              /\ (\E u \in Producers : pc[u] = "wait") =>
                    \E w \in Producers : pc[w] = "wait" /\ pc'[w] = "woken"
<1> USE ThreadsAssumption
<1>0. /\ pc \in [Threads -> PushPc \cup PopPc] /\ c \in Threads /\ p \in Threads
      /\ c \notin Producers /\ Side(c) = "pop" /\ Side(p) = "push"
  BY DEF TypeOK, Threads, Side
<1>1. CASE pc[c] \in {"take", "clear", "free"}
  <2>1. TakeSlot(c) \/ ClearSlot(c) \/ FreeSlot(c)
    BY <1>0, <1>1 DEF Acts, Uncounted, LoadSeq, ClaimFails, Reload, LoadWaiters, RecheckSeq,
       SpuriousWakeup, Deadline, Relock, ConsumerStep, PopCall, FlushNext, ClaimHead,
       IncWaiters, DecWaiters, Signal
  <2> QED BY <1>0, <2>1 DEF TakeSlot, ClearSlot, FreeSlot, Goto, LeavingPc
<1>2. CASE pc[c] = "notify"
  <2>1. LoadWaiters(c)
    BY <1>0, <1>2, ActsFacts
  <2>2. waiters["push"] > 0
    BY <1>0, WaiterSeen
  <2>3. pc'[c] = "signal"
    BY <1>0, <2>1, <2>2 DEF LoadWaiters, Goto, Other
  <2> QED BY <2>3 DEF LeavingPc
<1>3. CASE pc[c] = "signal"
  <2>1. Signal(c)
    BY <1>0, <1>3, ActsFacts
  <2>2. ASSUME NEW u \in Producers, pc[u] = "wait"
        PROVE  \E w \in Producers : pc[w] = "wait" /\ pc'[w] = "woken"
    <3>1. u \in Waiting(Other(Side(c)))
      BY <1>0, <2>2 DEF Waiting, Other, Side, Threads
    <3>2. PICK w \in Waiting(Other(Side(c))) : pc' = [pc EXCEPT ![c] = AfterOk(c), ![w] = "woken"]
      BY <2>1, <3>1 DEF Signal
    <3>3. w \in Threads /\ w \in Producers /\ pc[w] = "wait"
      BY <1>0, <3>2 DEF Waiting, Other, Side
    <3>4. pc'[w] = "woken"
      BY <1>0, <3>2, <3>3
    <3> QED BY <3>3, <3>4
  <2> QED BY <2>1, <2>2
<1> QED BY <1>1, <1>2, <1>3 DEF LeavingPc

\* A producer that tries goes on trying, claims a position, or waits.
LEMMA TriesOn ==
    ASSUME TypeOK, Sides, Ring, Counters, NEW p \in Producers, Trying(p), ~Async, Acts(p)
    PROVE  Trying(p)' \/ (ClaimTail(p) /\ head' < tail') \/ pc'[p] = "wait"
<1> USE ThreadsAssumption
<1>0. /\ pc \in [Threads -> PushPc \cup PopPc] /\ p \in Threads /\ p \notin Consumers
      /\ op[p] \in {"timed", "inf"} /\ pc[p] \in TryingPc
      /\ head \in Nat /\ tail \in Nat /\ head <= tail
  BY DEF TypeOK, Threads, Trying, Ring, SlotPhases
<1>1. CASE ClaimTail(p)
  BY <1>0, <1>1 DEF ClaimTail
<1>2. CASE LoadSeq(p) \/ ClaimFails(p) \/ Reload(p) \/ IsFullHead(p) \/ IsFullTail(p)
  <2>1. op' = op
    BY <1>2 DEF LoadSeq, ClaimFails, Reload, IsFullHead, IsFullTail, local
  <2>2. pc'[p] \in TryingPc
    BY <1>0, <1>2 DEF LoadSeq, ClaimFails, Reload, IsFullHead, IsFullTail, Goto, NotReady, TryingPc
  <2> QED BY <1>0, <2>1, <2>2 DEF Trying
<1>3. CASE \/ RecheckSeq(p) \/ RecheckHead(p) \/ RecheckTail(p) \/ Relock(p)
           \/ IncWaiters(p) \/ DecWaiters(p)
  <2>1. op' = op
    BY <1>3 DEF RecheckSeq, RecheckHead, RecheckTail, Relock, IncWaiters, DecWaiters, local
  <2>2. pc'[p] \in TryingPc \cup {"wait"}
    BY <1>0, <1>3 DEF RecheckSeq, RecheckHead, RecheckTail, Relock, IncWaiters, DecWaiters,
       Goto, TryingPc
  <2> QED BY <1>0, <2>1, <2>2 DEF Trying
<1>4. CASE \/ LoadWaiters(p) \/ Signal(p) \/ SpuriousWakeup(p) \/ Deadline(p)
           \/ FillSlot(p) \/ AddBytes(p) \/ Publish(p) \/ \E b \in Buffers, o \in PushOps : PushCall(p, b, o)
  BY <1>0, <1>4 DEF LoadWaiters, Signal, SpuriousWakeup, Deadline, FillSlot, AddBytes, Publish, PushCall,
     TryingPc
<1> QED BY <1>0, <1>1, <1>2, <1>3, <1>4 DEF Acts, Uncounted, ProducerStep

LEMMA PushSideStep ==
    ASSUME TypeOK, Sides, Ring, Stores, BytesCounted, Worked, Counters, PushSide,
           NEW c, Consumers = {c}, [Next]_vars
    PROVE  PushSide'
<1> USE ThreadsAssumption
<1>0. /\ pc \in [Threads -> PushPc \cup PopPc]
      /\ c \in Threads /\ c \in Consumers /\ c \notin Producers
      /\ head \in Nat /\ tail \in Nat /\ head <= tail
      /\ Producers \subseteq Threads /\ NoThread \notin Producers
      /\ \A t \in Threads : t # c => t \in Producers /\ t \notin Consumers
  BY DEF TypeOK, Threads, Ring, SlotPhases
<1>1. CASE UNCHANGED vars
  BY <1>1 DEF vars, shared, local, PushSide, Trying
<1>2. ASSUME NEW t \in Threads, Acts(t) PROVE PushSide'
  <2>0. \A u \in Threads : u # t =>
          /\ pos'[u] = pos[u] /\ op'[u] = op[u] /\ seen'[u] = seen[u]
          /\ pc'[u] = pc[u] \/ (pc[u] = "wait" /\ pc'[u] = "woken" /\ Signal(t))
    BY <1>2, ActsFacts
  <2>a. \/ head' = head
        \/ t = c /\ ClaimHead(t) /\ pc'[c] = "take"
    BY <1>0, <1>2, ActsOnRing DEF ClaimHead, Goto
  <2>1. ASSUME NEW p \in Producers, pc'[p] = "recheckTail"
        PROVE  lock' = p /\ (seen'[p] < head' => pc'[c] \in LeavingPc)
    <3>0. p \in Threads /\ p # c
      BY <1>0
    <3>1. CASE RecheckHead(t) /\ t \in Producers
      <4>1. lock = NoThread /\ lock' = t /\ seen'[t] = head /\ head' = head
        BY <3>1 DEF RecheckHead, shared, TypeOK
      <4>2. p = t
        <5>1. p # t => pc[p] = "recheckTail"
          BY <2>0, <2>1, <3>0
        <5>2. p # t => lock = p
          BY <5>1 DEF PushSide
        <5> QED BY <1>0, <4>1, <5>2
      <4> QED BY <1>0, <4>1, <4>2
    <3>2. CASE ~(RecheckHead(t) /\ t \in Producers)
      <4>1. p # t
        <5> SUFFICES ASSUME p = t PROVE FALSE
          OBVIOUS
        <5>1. CASE Uncounted(t)
          BY <1>0, <2>1, <3>2, <5>1 DEF Uncounted, LoadSeq, ClaimFails, Reload, LoadWaiters,
             RecheckSeq, SpuriousWakeup, Deadline, Relock, ProducerStep, PushCall, IsFullHead,
             IsFullTail, RecheckTail, ClaimTail, FillSlot, AddBytes, Publish, Goto, NotReady, AfterOk
        <5>2. CASE IncWaiters(t) \/ DecWaiters(t)
          BY <1>0, <2>1, <5>2 DEF IncWaiters, DecWaiters, Goto
        <5>3. CASE Signal(t)
          BY <1>0, <2>1, <5>3 DEF Signal, Waiting, Goto, AfterOk
        <5> QED BY <1>2, <5>1, <5>2, <5>3 DEF Acts
      <4>2. pc[p] = "recheckTail" /\ seen'[p] = seen[p]
        BY <2>0, <2>1, <3>0, <4>1
      <4>3. lock = p
        BY <4>2 DEF PushSide
      <4>4. lock' = lock
        <5>1. ~(t \in Producers /\ RecheckTail(t))
          BY <1>0, <4>1, <4>3 DEF RecheckTail, PushSide
        <5> QED BY <1>2, <3>2, <5>1, ActsOnRing
      <4>5. ASSUME seen'[p] < head' PROVE pc'[c] \in LeavingPc
        <5>1. CASE head' # head
          BY <2>a, <5>1 DEF LeavingPc
        <5>2. CASE head' = head
          <6>1. pc[c] \in LeavingPc
            BY <1>0, <4>2, <4>5, <5>2 DEF PushSide
          <6>2. CASE t = c
            <7>1. ~Signal(c)
              BY <1>0, <4>3 DEF Signal
            <7> QED BY <1>0, <1>2, <4>2, <6>1, <6>2, <7>1, LeavesOn DEF CountedPc
          <6>3. CASE t # c
            BY <1>0, <2>0, <6>1, <6>3 DEF LeavingPc
          <6> QED BY <6>2, <6>3
        <5> QED BY <5>1, <5>2
      <4> QED BY <4>3, <4>4, <4>5
    <3> QED BY <3>1, <3>2
  <2>2. ASSUME NEW p \in Producers, pc'[p] = "wait"
        PROVE  \/ head' < tail' \/ pc'[c] \in LeavingPc \/ \E u \in Producers : Trying(u)'
    <3>0. p \in Threads /\ p # c
      BY <1>0
    <3>a. \A u \in Producers : u # t /\ Trying(u) => Trying(u)'
      BY <1>0, <2>0 DEF Trying, TryingPc
    <3>1. CASE p = t
      <4>1. RecheckSeq(t) \/ RecheckTail(t)
        BY <1>2, <2>2, <3>1, ActsFacts
      <4>2. head < tail \/ pc[c] \in LeavingPc
        BY <2>2, <3>1, <4>1, SleepsSafely
      <4>3. UNCHANGED <<head, tail>>
        BY <4>1 DEF RecheckSeq, RecheckTail, shared
      <4>4. pc[c] \in LeavingPc => pc'[c] = pc[c]
        BY <1>0, <2>0, <3>0, <3>1 DEF LeavingPc
      <4> QED BY <4>2, <4>3, <4>4
    <3>2. CASE p # t
      <4>1. pc[p] = "wait" /\ pc[p] \in CountedPc
        BY <2>0, <2>2, <3>0, <3>2 DEF CountedPc
      <4>2. ~Async
        BY <3>0, <4>1 DEF Counters
      <4>3. head < tail \/ pc[c] \in LeavingPc \/ \E u \in Producers : Trying(u)
        BY <4>1 DEF PushSide
      <4>4. CASE head' # head
        BY <2>a, <4>4 DEF LeavingPc
      <4>5. CASE head' = head /\ head < tail
        <5>1. tail' = tail \/ tail' = tail + 1
          BY <1>2, ActsOnRing DEF ClaimTail
        <5> QED BY <1>0, <4>5, <5>1
      <4>6. CASE pc[c] \in LeavingPc
        <5>1. CASE t # c
          <6>1. pc'[c] = pc[c]
            BY <1>0, <2>0, <4>6, <5>1 DEF LeavingPc
          <6> QED BY <4>6, <6>1
        <5>2. CASE t = c
          <6>1. \/ pc'[c] \in LeavingPc
                \/ \E w \in Producers : pc[w] = "wait" /\ pc'[w] = "woken"
            BY <1>0, <1>2, <4>1, <4>6, <5>2, LeavesOn
          <6>2. ASSUME NEW w \in Producers, pc[w] = "wait", pc'[w] = "woken"
                PROVE  Trying(w)'
            <7>1. op[w] \in {"timed", "inf"}
              BY <1>0, <6>2 DEF Counters, CountedPc
            <7>2. op'[w] = op[w]
              BY <1>0, <2>0, <5>2
            <7> QED BY <6>2, <7>1, <7>2 DEF Trying, TryingPc
          <6> QED BY <6>1, <6>2
        <5> QED BY <5>1, <5>2
      <4>7. ASSUME NEW u \in Producers, Trying(u), head' = head
            PROVE  \/ head' < tail' \/ pc'[c] \in LeavingPc \/ \E v \in Producers : Trying(v)'
        <5>1. CASE u # t
          BY <3>a, <4>7, <5>1
        <5>2. CASE u = t
          <6>1. Trying(u)' \/ head' < tail' \/ pc'[u] = "wait"
            BY <1>2, <4>2, <4>7, <5>2, TriesOn
          <6>2. CASE pc'[u] = "wait"
            <7>1. RecheckSeq(t) \/ RecheckTail(t)
              BY <1>2, <5>2, <6>2, ActsFacts
            <7>2. head < tail \/ pc[c] \in LeavingPc
              BY <5>2, <6>2, <7>1, SleepsSafely
            <7>3. UNCHANGED <<head, tail>>
              BY <7>1 DEF RecheckSeq, RecheckTail, shared
            <7>4. pc[c] \in LeavingPc => pc'[c] = pc[c]
              BY <1>0, <2>0, <5>2 DEF LeavingPc
            <7> QED BY <7>2, <7>3, <7>4
          <6> QED BY <6>1, <6>2
        <5> QED BY <5>1, <5>2
      <4> QED BY <4>3, <4>4, <4>5, <4>6, <4>7
    <3> QED BY <3>1, <3>2
  <2> QED BY <1>0, <2>1, <2>2 DEF PushSide
<1> QED BY <1>1, <1>2, StepsOfThreads DEF Acts

WakeInv == Stores /\ BytesCounted /\ Counters /\ Worked /\ PopSide /\ PushSide

LEMMA WakeInit == ASSUME Init, NEW c, Consumers = {c} PROVE WakeInv
<1>1. /\ head = 0 /\ tail = 0 /\ \A t \in Threads : pc[t] = "idle" /\ pos[t] = 0
      /\ waiters["push"] = 0 /\ waiters["pop"] = 0
      /\ Producers \subseteq Threads /\ Consumers \subseteq Threads
  BY DEF Init, Threads
<1>2. Stores /\ BytesCounted
  BY StoresInit
<1>3. Counters
  <2>1. \A s \in {"push", "pop"} : Counted(s) = {}
    BY <1>1 DEF Counted, CountedPc
  <2>2. \A s \in {"push", "pop"} : IsFiniteSet(Counted(s)) /\ waiters[s] = Cardinality(Counted(s))
    BY <1>1, <2>1, FS_EmptySet
  <2> QED BY <1>1, <2>2 DEF Counters, CountedPc
<1>4. Worked
  <2>1. ASSUME NEW q \in 0..(Capacity - 1) PROVE seq[Slot(q)] = q
    <3>1. q \in Nat /\ Slot(q) = q
      BY CapacityAssumption DEF Slot
    <3> QED BY <3>1 DEF Init, Slots
  <2>2. \A q \in tail..(head + Capacity - 1) : seq[Slot(q)] # q + 1 - Capacity
    BY <1>1, <2>1, CapacityAssumption
  <2> QED BY <1>1, <2>2 DEF Worked
<1>5. PopSide /\ PushSide
  BY <1>1 DEF PopSide, PushSide
<1> QED BY <1>2, <1>3, <1>4, <1>5 DEF WakeInv

\* Between one consumer and any number of producers, whatever limits are set
\* and however timeouts, spurious wakeups, flushes and failed compare-and-swaps
\* interleave, nobody is stranded: when every other call has returned, an
\* untimed pop does not sleep beside a published buffer, nor an untimed push
\* before an empty queue (zst_queue.c:227-243, 291-300).
THEOREM NobodyStranded ==
    ASSUME NEW c, Consumers = {c} PROVE Spec => []NeverStranded
<1>1. Init => WakeInv
  BY WakeInit
<1>2. IndInv /\ WakeInv /\ [Next]_vars => WakeInv'
  BY StoresStep, BytesStep, CountersStep, WorkedStep, PopSideStep, PushSideStep
  DEF IndInv, Ring, WakeInv
<1>3. IndInv /\ WakeInv => NeverStranded
  <2> SUFFICES ASSUME IndInv, WakeInv, Quiet PROVE NeverStranded
    BY DEF NeverStranded, NoStuckPop
  <2>0. /\ \A t \in Producers : t \in Threads /\ pc[t] \in {"idle", "wait"}
        /\ \A t \in Consumers : t \in Threads /\ pc[t] \in {"idle", "wait"}
        /\ head \in Nat /\ tail \in Nat
    BY DEF Quiet, Threads, IndInv, TypeOK
  <2>1. ASSUME Published # {}, NEW d \in Consumers, pc[d] = "wait" PROVE FALSE
    <3>1. head \in head..(tail - 1)
      <4>1. PICK q \in head..(tail - 1) : TRUE
        BY <2>1 DEF Published
      <4> QED BY <2>0, <4>1
    <3>2. seq[Slot(head)] = head \/ seq[Slot(head)] = head + 1
      BY <3>1 DEF IndInv, SlotPhases
    <3>3. seq[Slot(head)] # head
      BY <2>0, <3>1 DEF WakeInv, Worked, Filling
    <3>4. \E p \in Producers : pc[p] \in NotifyingPc
      BY <2>1, <3>2, <3>3 DEF WakeInv, PopSide
    <3> QED BY <2>0, <3>4 DEF NotifyingPc
  <2>2. ASSUME head = tail, NEW p \in Producers, pc[p] = "wait" PROVE FALSE
    <3>1. \/ \E d \in Consumers : pc[d] \in LeavingPc
          \/ \E u \in Producers : Trying(u)
      BY <2>0, <2>2 DEF WakeInv, PushSide
    <3> QED BY <2>0, <3>1 DEF LeavingPc, Trying, TryingPc
  <2> QED BY <2>1, <2>2 DEF NeverStranded, NoStuckPop
<1> QED BY <1>1, <1>2, <1>3, Invariant, PTL DEF Spec

-----------------------------------------------------------------------------
(* Room.  Where buffers are limited by their number alone, every free place  *)
(* of a queue before which a producer sleeps is spoken for: by a producer    *)
(* that is about to look again, or by the consumer that is about to signal.  *)

CountOnly == MaxBytes = 0 /\ MaxDuration = 0

Looking == {p \in Producers : Trying(p)}
Pending == IF \E c \in Consumers : pc[c] \in LeavingPc THEN 1 ELSE 0

RoomInv ==
    /\ \A c \in Consumers : pc[c] \in LeavingPc => pos[c] + 1 = head
    /\ \A p \in Producers : pc[p] = "recheckTail" => head <= seen[p] + 1
    /\ IsFiniteSet(Looking)
    /\ (\E p \in Producers : pc[p] = "wait") =>
            Limit - (tail - head) <= Cardinality(Looking) + Pending

\* A producer that goes to sleep has seen no room but the place the consumer
\* that is still to signal has just made.
LEMMA SleepsFull ==
    ASSUME TypeOK, Sides, Ring, Worked, PushSide, RoomInv, CountOnly,
           NEW t \in Producers, RecheckSeq(t) \/ RecheckTail(t), pc'[t] = "wait"
    PROVE  Limit - (tail - head) <= Pending
<1> USE CapacityAssumption, ThreadsAssumption, LimitsAssumption
<1>0. /\ pc \in [Threads -> PushPc \cup PopPc] /\ t \in Threads
      /\ head \in Nat /\ tail \in Nat /\ pos[t] \in Nat /\ seen[t] \in Nat
      /\ pos[t] <= tail /\ seen[t] <= head /\ head <= tail /\ tail <= head + Capacity
      /\ \A p \in Nat : seq[Slot(p)] \in Nat
      /\ Limit \in Nat /\ Limit <= Capacity
      /\ \A u \in Threads : pos[u] \in Nat
  <2>1. /\ pc \in [Threads -> PushPc \cup PopPc] /\ t \in Threads
        /\ head \in Nat /\ tail \in Nat /\ pos[t] \in Nat /\ seen[t] \in Nat
        /\ \A u \in Threads : pos[u] \in Nat
    BY DEF TypeOK, Threads
  <2>2. pos[t] <= tail /\ seen[t] <= head
    BY DEF Ring, Observations, ProducerKnows
  <2>3. head <= tail /\ tail <= head + Capacity
    BY DEF Ring, SlotPhases
  <2>4. \A p \in Nat : seq[Slot(p)] \in Nat
    BY SlotType DEF TypeOK
  <2>5. Limit \in Nat /\ Limit <= Capacity
    BY DEF Limit
  <2> QED BY <2>1, <2>2, <2>3, <2>4, <2>5
<1>1. CASE RecheckSeq(t)
  <2>1. seq[Slot(pos[t])] < pos[t]
    BY <1>0, <1>1 DEF RecheckSeq, Goto, Ready
  <2>2. pos[t] = tail
    <3>1. pos[t] < tail => pos[t] <= seq[Slot(pos[t])]
      BY DEF Worked
    <3>2. seq[Slot(pos[t])] \in Nat
      BY <1>0
    <3> QED BY <1>0, <2>1, <3>1, <3>2
  <2>3. CASE tail = head + Capacity
    BY <1>0, <2>3 DEF Pending
  <2>4. CASE tail # head + Capacity
    <3>1. tail \in tail..(head + Capacity - 1)
      BY <1>0, <2>4
    <3>2. seq[Slot(tail)] = tail + 1 - Capacity
      BY <1>0, <2>1, <2>2, <3>1 DEF Ring, SlotPhases
    <3>3. PICK c \in Consumers : Taking(c) /\ pos[c] = tail - Capacity
      BY <3>1, <3>2 DEF Worked
    <3>4. pc[c] \in LeavingPc /\ c \in Threads
      BY <3>3 DEF Taking, LeavingPc, Threads
    <3>5. pos[c] + 1 = head /\ Pending = 1
      BY <3>4 DEF RoomInv, Pending
    <3> QED BY <1>0, <3>3, <3>4, <3>5
  <2> QED BY <2>3, <2>4
<1>2. CASE RecheckTail(t)
  <2>1. IsFull(seen[t]) /\ pc[t] = "recheckTail"
    BY <1>0, <1>2 DEF RecheckTail, Goto
  <2>2. MaxBuffers > 0 /\ tail - seen[t] >= MaxBuffers /\ Limit = MaxBuffers
    BY <2>1 DEF IsFull, CountOnly, Limit
  <2>3. head <= seen[t] + 1 /\ (seen[t] < head => Pending = 1)
    BY <2>1 DEF RoomInv, PushSide, Pending
  <2> QED BY <1>0, <2>2, <2>3 DEF Pending
<1> QED BY <1>1, <1>2

\* How the set of producers about to look again changes in a step.
LEMMA LookingStep ==
    ASSUME TypeOK, Sides, Ring, Counters, NEW c, Consumers = {c},
           NEW t \in Threads, Acts(t)
    PROVE  /\ t \in Producers => Looking' \ {t} = Looking \ {t}
           /\ t = c => \/ Looking' = Looking
                       \/ /\ Signal(c)
                          /\ \E w \in Producers \ Looking : Looking' = Looking \cup {w}
<1> USE ThreadsAssumption
<1>0. /\ pc \in [Threads -> PushPc \cup PopPc]
      /\ c \in Threads /\ c \in Consumers /\ c \notin Producers
      /\ Producers \subseteq Threads
      /\ \A u \in Threads : u # t =>
          /\ op'[u] = op[u]
          /\ pc'[u] = pc[u] \/ (pc[u] = "wait" /\ pc'[u] = "woken" /\ Signal(t))
  BY ActsFacts DEF TypeOK, Threads
<1>1. ASSUME t \in Producers PROVE Looking' \ {t} = Looking \ {t}
  <2>1. \A u \in Producers : u # t => pc'[u] = pc[u]
    <3>1. CASE Signal(t)
      <4>1. Waiting(Other(Side(t))) \subseteq Consumers
        BY <1>1 DEF Waiting, Other, Side, Threads
      <4> QED BY <1>0, <3>1, <4>1 DEF Signal, Goto
    <3>2. CASE ~Signal(t)
      BY <1>0, <3>2
    <3> QED BY <3>1, <3>2
  <2> QED BY <1>0, <2>1 DEF Looking, Trying
<1>2. ASSUME t = c
      PROVE  \/ Looking' = Looking
             \/ /\ Signal(c)
                /\ \E w \in Producers \ Looking : Looking' = Looking \cup {w}
  <2>1. CASE ~Signal(c)
    <3>1. \A u \in Producers : pc'[u] = pc[u] /\ op'[u] = op[u]
      BY <1>0, <1>2, <2>1
    <3> QED BY <3>1 DEF Looking, Trying
  <2>2. CASE Signal(c)
    <3>1. CASE \A u \in Producers : pc'[u] = pc[u]
      BY <1>0, <1>2, <3>1 DEF Looking, Trying
    <3>2. CASE \E u \in Producers : pc'[u] # pc[u]
      <4>1. PICK w \in Threads : /\ pc[w] = "wait" /\ Side(w) = Other(Side(c))
                                 /\ pc' = [pc EXCEPT ![c] = AfterOk(c), ![w] = "woken"]
        BY <1>0, <2>2, <3>2 DEF Signal, Waiting, Goto
      <4>2. w \in Producers
        BY <1>0, <4>1 DEF Side, Other
      <4>3. op[w] \in {"timed", "inf"}
        BY <4>1 DEF Counters, CountedPc
      <4>4. w \notin Looking
        BY <4>1 DEF Looking, Trying, TryingPc
      <4>5. \A u \in Producers : u # w => pc'[u] = pc[u] /\ op'[u] = op[u]
        BY <1>0, <1>2, <4>1
      <4>6. pc'[w] = "woken" /\ op'[w] = op[w]
        BY <1>0, <1>2, <4>1, <4>2
      <4>7. Looking' = Looking \cup {w}
        BY <4>2, <4>3, <4>5, <4>6 DEF Looking, Trying, TryingPc
      <4> QED BY <2>2, <4>2, <4>4, <4>7
    <3> QED BY <3>1, <3>2
  <2> QED BY <2>1, <2>2
<1> QED BY <1>1, <1>2

\* Sets that differ in one element differ in size by one at most.
LEMMA SetsNear ==
    ASSUME NEW S, NEW T, NEW x, IsFiniteSet(S), T \ {x} = S \ {x}
    PROVE  /\ IsFiniteSet(T)
           /\ Cardinality(T) \in Nat /\ Cardinality(S) \in Nat
           /\ Cardinality(S) - 1 <= Cardinality(T)
           /\ x \notin S \/ x \in T => Cardinality(S) <= Cardinality(T)
<1>0. IsFiniteSet(S \ {x}) /\ x \notin S \ {x}
  BY FS_Subset
<1>1. Cardinality(S) \in Nat /\ Cardinality(S \ {x}) \in Nat
  BY <1>0, FS_CardinalityType
<1>2. /\ IsFiniteSet((S \ {x}) \cup {x})
      /\ Cardinality((S \ {x}) \cup {x}) = Cardinality(S \ {x}) + 1
  BY <1>0, FS_AddElement
<1>3. /\ S = S \ {x} \/ S = (S \ {x}) \cup {x}
      /\ T = S \ {x} \/ T = (S \ {x}) \cup {x}
      /\ x \notin S => S = S \ {x}
      /\ x \in T => T = (S \ {x}) \cup {x}
  OBVIOUS
<1>4. \/ Cardinality(T) = Cardinality(S \ {x}) /\ IsFiniteSet(T)
      \/ Cardinality(T) = Cardinality(S \ {x}) + 1 /\ IsFiniteSet(T)
  BY <1>0, <1>2, <1>3
<1>5. \/ Cardinality(S) = Cardinality(S \ {x})
      \/ Cardinality(S) = Cardinality(S \ {x}) + 1
  BY <1>2, <1>3
<1>6. x \notin S => Cardinality(S) = Cardinality(S \ {x})
  BY <1>3
<1>7. x \in T => Cardinality(T) = Cardinality(S \ {x}) + 1
  BY <1>2, <1>3
<1>8. IsFiniteSet(T)
  BY <1>4
<1> QED BY <1>1, <1>4, <1>5, <1>6, <1>7, <1>8

LEMMA RoomStep ==
    ASSUME TypeOK, Sides, Ring, Worked, Counters, PopSide, PushSide, RoomInv, CountOnly,
           NEW c, Consumers = {c}, [Next]_vars
    PROVE  RoomInv'
<1> USE ThreadsAssumption, LimitsAssumption, CapacityAssumption
<1>0. /\ pc \in [Threads -> PushPc \cup PopPc]
      /\ c \in Threads /\ c \in Consumers /\ c \notin Producers
      /\ head \in Nat /\ tail \in Nat /\ head <= tail /\ Limit \in Nat
      /\ Producers \subseteq Threads
      /\ \A t \in Threads : t # c => t \in Producers /\ t \notin Consumers
      /\ \A t \in Threads : pos[t] \in Nat /\ seen[t] \in Nat
      /\ \A p \in Producers : seen[p] <= head
      /\ Pending = (IF pc[c] \in LeavingPc THEN 1 ELSE 0)
      /\ IsFiniteSet(Looking)
  BY DEF TypeOK, Threads, Ring, SlotPhases, Observations, ProducerKnows, Limit, Pending, RoomInv
<1>a. /\ Limit' = Limit
      /\ Pending' = (IF pc'[c] \in LeavingPc THEN 1 ELSE 0)
  BY <1>0 DEF Limit, Pending
<1>1. CASE UNCHANGED vars
  <2>1. Looking' = Looking /\ Pending' = Pending
    BY <1>1 DEF vars, local, Looking, Trying, Pending
  <2> QED BY <1>1, <1>a, <2>1 DEF vars, shared, local, RoomInv
<1>2. ASSUME NEW t \in Threads, Acts(t) PROVE RoomInv'
  <2>0. /\ \A u \in Threads : u # t =>
             /\ pos'[u] = pos[u] /\ op'[u] = op[u] /\ seen'[u] = seen[u]
             /\ pc'[u] = pc[u] \/ (pc[u] = "wait" /\ pc'[u] = "woken" /\ Signal(t))
        /\ pc'[t] = "wait" => RecheckSeq(t) \/ (RecheckTail(t) /\ t \in Producers)
    BY <1>2, ActsFacts
  <2>a. \/ head' = head
        \/ t = c /\ ClaimHead(c) /\ pc[c] = "claim" /\ pc'[c] = "take" /\ head' = head + 1
           /\ pos[c] = head /\ pos'[c] = pos[c] /\ tail' = tail
    BY <1>0, <1>2, ActsOnRing DEF ClaimHead, Goto, local
  <2>b. tail' = tail \/ (t \in Producers /\ ClaimTail(t) /\ tail' = tail + 1)
    BY <1>0, <1>2, ActsOnRing DEF ClaimTail
  <2>1. ASSUME pc'[c] \in LeavingPc PROVE pos'[c] + 1 = head'
    <3>1. CASE head' # head
      BY <1>0, <2>a, <3>1
    <3>2. CASE head' = head /\ t # c
      <4>1. pc[c] \in LeavingPc /\ pos'[c] = pos[c]
        BY <1>0, <2>0, <2>1, <3>2 DEF LeavingPc
      <4> QED BY <1>0, <3>2, <4>1 DEF RoomInv
    <3>3. CASE head' = head /\ t = c
      <4>1. pc[c] \in LeavingPc /\ pos'[c] = pos[c]
        <5>1. CASE LoadSeq(c) \/ ClaimFails(c) \/ Reload(c)
          BY <1>0, <2>1, <5>1 DEF LoadSeq, ClaimFails, Reload, Goto, NotReady, LeavingPc
        <5>2. CASE LoadWaiters(c)
          BY <1>0, <5>2 DEF LoadWaiters, LeavingPc, local
        <5>3. CASE Signal(c)
          BY <1>0, <5>3 DEF Signal, LeavingPc, local
        <5>4. CASE \/ RecheckSeq(c) \/ SpuriousWakeup(c) \/ Deadline(c) \/ Relock(c)
                   \/ IncWaiters(c) \/ DecWaiters(c)
          BY <1>0, <2>1, <5>4 DEF RecheckSeq, SpuriousWakeup, Deadline, Relock, IncWaiters,
             DecWaiters, Goto, LeavingPc
        <5>5. CASE FlushNext(c) \/ \E o \in PopOps : PopCall(c, o)
          BY <1>0, <2>1, <5>5 DEF FlushNext, PopCall, Goto, LeavingPc
        <5>6. CASE ClaimHead(c)
          BY <1>0, <3>3, <5>6 DEF ClaimHead
        <5>7. CASE TakeSlot(c) \/ ClearSlot(c) \/ FreeSlot(c)
          BY <1>0, <5>7 DEF TakeSlot, ClearSlot, FreeSlot, LeavingPc, local
        <5> QED BY <1>0, <1>2, <3>3, <5>1, <5>2, <5>3, <5>4, <5>5, <5>6, <5>7
                DEF Acts, Uncounted, ConsumerStep
      <4> QED BY <1>0, <3>3, <4>1 DEF RoomInv
    <3> QED BY <3>1, <3>2, <3>3
  <2>2. ASSUME NEW p \in Producers, pc'[p] = "recheckTail" PROVE head' <= seen'[p] + 1
    <3>1. CASE p = t /\ RecheckHead(t)
      BY <1>0, <3>1 DEF RecheckHead, shared, TypeOK
    <3>2. CASE ~(p = t /\ RecheckHead(t))
      <4>1. p # t
        <5> SUFFICES ASSUME p = t PROVE FALSE
          OBVIOUS
        <5>1. CASE Uncounted(t)
          BY <1>0, <2>2, <3>2, <5>1 DEF Uncounted, LoadSeq, ClaimFails, Reload, LoadWaiters,
             RecheckSeq, SpuriousWakeup, Deadline, Relock, ProducerStep, PushCall, IsFullHead,
             IsFullTail, RecheckTail, ClaimTail, FillSlot, AddBytes, Publish, Goto, NotReady,
             AfterOk
        <5>2. CASE IncWaiters(t) \/ DecWaiters(t)
          BY <1>0, <2>2, <5>2 DEF IncWaiters, DecWaiters, Goto
        <5>3. CASE Signal(t)
          BY <1>0, <2>2, <5>3 DEF Signal, Waiting, Goto, AfterOk
        <5> QED BY <1>2, <5>1, <5>2, <5>3 DEF Acts
      <4>2. pc[p] = "recheckTail" /\ seen'[p] = seen[p]
        BY <1>0, <2>0, <2>2, <4>1
      <4>3. CASE head' = head
        BY <4>2, <4>3 DEF RoomInv
      <4>4. CASE head' # head
        <5>1. pc[c] \notin LeavingPc /\ head' = head + 1
          BY <2>a, <4>4 DEF LeavingPc
        <5>2. ~(seen[p] < head)
          BY <1>0, <4>2, <5>1 DEF PushSide
        <5> QED BY <1>0, <4>2, <5>1, <5>2
      <4> QED BY <4>3, <4>4
    <3> QED BY <3>1, <3>2
  <2>3. IsFiniteSet(Looking') /\ Cardinality(Looking') \in Nat /\ Cardinality(Looking) \in Nat
    <3>1. \E x : Looking' \ {x} = Looking \ {x}
      BY <1>0, <1>2, LookingStep
    <3> QED BY <1>0, <3>1, SetsNear
  <2>4. ASSUME NEW p \in Producers, pc'[p] = "wait"
        PROVE  Limit' - (tail' - head') <= Cardinality(Looking') + Pending'
    <3>1. CASE t \in Producers /\ pc'[t] = "wait"
      <4>1. RecheckSeq(t) \/ RecheckTail(t)
        BY <2>0, <3>1
      <4>2. Limit - (tail - head) <= Pending
        BY <3>1, <4>1, SleepsFull
      <4>3. UNCHANGED <<head, tail>> /\ ~Signal(t)
        BY <4>1 DEF RecheckSeq, RecheckTail, Signal, shared
      <4>4. pc'[c] = pc[c]
        BY <1>0, <2>0, <3>1, <4>3
      <4> QED BY <1>0, <1>a, <2>3, <4>2, <4>3, <4>4
    <3>2. CASE ~(t \in Producers /\ pc'[t] = "wait")
      <4>1. p # t /\ pc[p] = "wait" /\ p \in Threads
        BY <1>0, <2>0, <2>4, <3>2
      <4>2. Limit - (tail - head) <= Cardinality(Looking) + Pending
        BY <4>1 DEF RoomInv
      <4>3. ~Async
        BY <4>1 DEF Counters, CountedPc
      <4>4. CASE t \in Producers
        <5>1. head' = head /\ t # c
          BY <1>0, <2>a, <4>4
        <5>2. pc'[c] \in LeavingPc <=> pc[c] \in LeavingPc
          BY <1>0, <2>0, <5>1 DEF LeavingPc
        <5>3. Looking' \ {t} = Looking \ {t}
          BY <1>0, <1>2, <4>4, LookingStep
        <5>4. CASE tail' = tail + 1
          <6>1. Cardinality(Looking) - 1 <= Cardinality(Looking')
            BY <1>0, <5>3, SetsNear
          <6> QED BY <1>0, <1>a, <2>3, <4>2, <5>1, <5>2, <5>4, <6>1
        <5>5. CASE tail' # tail + 1
          <6>1. tail' = tail /\ ~ClaimTail(t)
            BY <1>0, <2>b, <5>5 DEF ClaimTail
          <6>2. t \in Looking => t \in Looking'
            <7> SUFFICES ASSUME Trying(t) PROVE Trying(t)'
              BY <4>4 DEF Looking
            <7> QED BY <1>2, <3>2, <4>3, <4>4, <6>1, TriesOn
          <6>3. Cardinality(Looking) <= Cardinality(Looking')
            BY <1>0, <5>3, <6>2, SetsNear
          <6> QED BY <1>0, <1>a, <2>3, <4>2, <5>1, <5>2, <6>1, <6>3
        <5> QED BY <5>4, <5>5
      <4>5. CASE t = c
        <5>1. tail' = tail
          BY <1>0, <2>b, <4>5
        <5>2. CASE head' # head
          <6>1. pc[c] \notin LeavingPc /\ pc'[c] \in LeavingPc /\ head' = head + 1 /\ ~Signal(c)
            BY <2>a, <5>2 DEF LeavingPc, Signal
          <6>2. Looking' = Looking
            BY <1>0, <1>2, <4>5, <6>1, LookingStep
          <6> QED BY <1>0, <1>a, <2>3, <4>2, <5>1, <6>1, <6>2
        <5>3. CASE head' = head /\ Signal(c)
          <6>1. PICK w \in Producers : pc[w] = "wait" /\ pc'[w] = "woken"
            <7>1. p \in Waiting(Other(Side(c)))
              BY <1>0, <4>1 DEF Waiting, Other, Side
            <7>2. PICK w \in Waiting(Other(Side(c))) : pc' = [pc EXCEPT ![c] = AfterOk(c), ![w] = "woken"]
              BY <5>3, <7>1 DEF Signal
            <7>3. w \in Threads /\ w \in Producers /\ pc[w] = "wait"
              BY <1>0, <7>2 DEF Waiting, Other, Side
            <7> QED BY <1>0, <7>2, <7>3
          <6>2. w \in Looking' /\ w \notin Looking
            <7>1. op[w] \in {"timed", "inf"} /\ op'[w] = op[w]
              BY <1>0, <2>0, <4>5, <6>1 DEF Counters, CountedPc
            <7> QED BY <6>1, <7>1 DEF Looking, Trying, TryingPc
          <6>3. PICK v \in Producers \ Looking : Looking' = Looking \cup {v}
            BY <1>0, <1>2, <4>5, <6>2, LookingStep
          <6>4. Cardinality(Looking') = Cardinality(Looking) + 1
            BY <1>0, <6>3, FS_AddElement
          <6>5. Pending <= Pending' + 1
            BY <1>0, <1>a
          <6> QED BY <1>0, <1>a, <2>3, <4>2, <5>1, <5>3, <6>4, <6>5
        <5>4. CASE head' = head /\ ~Signal(c)
          <6>1. Looking' = Looking
            BY <1>0, <1>2, <4>5, <5>4, LookingStep
          <6>2. pc[c] \in LeavingPc => pc'[c] \in LeavingPc
            BY <1>0, <1>2, <4>1, <4>5, <5>4, LeavesOn DEF CountedPc
          <6> QED BY <1>0, <1>a, <2>3, <4>2, <5>1, <5>4, <6>1, <6>2
        <5> QED BY <5>2, <5>3, <5>4
      <4> QED BY <1>0, <4>4, <4>5
    <3> QED BY <3>1, <3>2
  <2>5. \A d \in Consumers : pc'[d] \in LeavingPc => pos'[d] + 1 = head'
    BY <2>1
  <2> QED BY <2>2, <2>3, <2>4, <2>5 DEF RoomInv
<1> QED BY <1>1, <1>2, StepsOfThreads DEF Acts

\* With one consumer and a limit on the number of buffers, zst_queue_push loses
\* no wakeup: when every other call has returned, no untimed push sleeps while
\* there is room, and no untimed pop beside a published buffer, although a pop
\* signals once and only if it sees a waiter (zst_queue.c:227-243, 291-300, 380-384).
THEOREM WakeupsNeverLost ==
    ASSUME NEW c, Consumers = {c}, MaxBytes = 0, MaxDuration = 0
    PROVE  Spec => []NoLostWakeup
<1>1. Init => WakeInv /\ RoomInv
  <2> SUFFICES ASSUME Init PROVE WakeInv /\ RoomInv
    OBVIOUS
  <2>1. \A t \in Threads : pc[t] = "idle"
    BY DEF Init
  <2>2. Looking = {}
    BY <2>1 DEF Looking, Trying, TryingPc, Threads
  <2>3. RoomInv
    BY <2>1, <2>2, FS_EmptySet DEF RoomInv, LeavingPc, Threads
  <2> QED BY <2>3, WakeInit
<1>2. IndInv /\ WakeInv /\ RoomInv /\ [Next]_vars => (WakeInv /\ RoomInv)'
  BY StoresStep, BytesStep, CountersStep, WorkedStep, PopSideStep, PushSideStep, RoomStep
  DEF IndInv, Ring, WakeInv, CountOnly
<1>3. IndInv /\ NeverStranded /\ RoomInv => NoLostWakeup
  <2> SUFFICES ASSUME IndInv, NoStuckPop, RoomInv, Quiet, Room,
                      NEW p \in Producers, pc[p] = "wait"
               PROVE  FALSE
    BY DEF NoLostWakeup, NoStuckPush, NeverStranded
  <2>0. /\ head \in Nat /\ tail \in Nat /\ head <= tail /\ tail <= head + Capacity
    BY DEF IndInv, TypeOK, SlotPhases
  <2>1. Looking = {} /\ Pending = 0
    BY DEF Quiet, Looking, Trying, TryingPc, Pending, LeavingPc, Threads
  <2>2. Limit - (tail - head) <= 0
    <3>1. Cardinality(Looking) = 0
      BY <2>1, FS_EmptySet
    <3>2. Limit - (tail - head) <= Cardinality(Looking) + Pending
      BY DEF RoomInv
    <3>3. Limit \in Nat
      BY LimitsAssumption, CapacityAssumption DEF Limit
    <3> QED BY <2>0, <2>1, <3>1, <3>2, <3>3
  <2>3. CASE HasExtraLimits
    <3>1. MaxBuffers > 0 /\ Limit = MaxBuffers
      BY <2>3, LimitsAssumption DEF HasExtraLimits, Limit
    <3>2. IsFull(head)
      BY <2>0, <2>2, <3>1, LimitsAssumption DEF IsFull
    <3> QED BY <2>3, <3>2 DEF Room
  <2>4. CASE ~HasExtraLimits
    <3>1. Limit = Capacity
      BY <2>4, LimitsAssumption, CapacityAssumption DEF HasExtraLimits, Limit
    <3>2. tail = head + Capacity
      BY <2>0, <2>2, <3>1, CapacityAssumption
    <3>3. Slot(tail) = Slot(head) /\ head \in head..(tail - 1)
      BY <2>0, <3>2, SlotRound, CapacityAssumption
    <3>4. seq[Slot(head)] = head \/ seq[Slot(head)] = head + 1
      BY <3>3 DEF IndInv, SlotPhases
    <3> QED BY <2>0, <3>2, <3>3, <3>4, CapacityAssumption DEF Room
  <2> QED BY <2>3, <2>4
<1> QED BY <1>1, <1>2, <1>3, Invariant, NobodyStranded, PTL DEF Spec

=============================================================================
