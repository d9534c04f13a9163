------------------------ MODULE ZstBufferPoolProofs ------------------------
(***************************************************************************)
(* The books of the buffer pool (zst_buffer_pool.c, zst_buffer.c) and the  *)
(* end of its life, for every number of threads and buffers and every      *)
(* configuration.                                                          *)
(***************************************************************************)
EXTENDS ZstBufferPool, SequenceTheorems, FiniteSetTheorems, TLAPS

-----------------------------------------------------------------------------
(* The idle stack.                                                          *)

LEMMA PushOne ==
    ASSUME NEW S, NEW s \in Seq(S), NEW e \in S, IsInjective(s), e \notin Range(s)
    PROVE  /\ Append(s, e) \in Seq(S) /\ Len(Append(s, e)) = Len(s) + 1
           /\ IsInjective(Append(s, e)) /\ Range(Append(s, e)) = Range(s) \cup {e}
<1>1. /\ Append(s, e) \in Seq(S) /\ Len(Append(s, e)) = Len(s) + 1
      /\ \A i \in 1..Len(s) : Append(s, e)[i] = s[i]
      /\ Append(s, e)[Len(s) + 1] = e
  BY AppendProperties
<1>2. Len(s) \in Nat /\ DOMAIN s = 1..Len(s) /\ DOMAIN Append(s, e) = 1..(Len(s) + 1)
  BY <1>1, LenProperties
<1>3. Range(s) = {s[i] : i \in 1..Len(s)}
  BY <1>2 DEF Range
<1>4. Range(Append(s, e)) = Range(s) \cup {e}
  BY <1>1, <1>2, <1>3 DEF Range
<1>5. IsInjective(Append(s, e))
  BY <1>1, <1>2, <1>3 DEF IsInjective
<1> QED BY <1>1, <1>4, <1>5

LEMMA ShrinkStack ==
    ASSUME NEW S, NEW s \in Seq(S), NEW n \in 0..Len(s), IsInjective(s)
    PROVE  /\ Shrink(s, n) \in Seq(S) /\ Len(Shrink(s, n)) = n
           /\ IsInjective(Shrink(s, n)) /\ Range(Shrink(s, n)) = Range(s) \ Top(s, n)
           /\ Top(s, n) \subseteq Range(s)
<1>1. Len(s) \in Nat /\ DOMAIN s = 1..Len(s) /\ n \in Nat /\ n <= Len(s)
  BY LenProperties
<1>2. \A i \in 1..n : s[i] \in S
  BY <1>1, ElementOfSeq
<1>3. /\ SubSeq(s, 1, n) \in Seq(S)
      /\ Len(SubSeq(s, 1, n)) = IF 1 <= n THEN n - 1 + 1 ELSE 0
      /\ \A i \in 1..(n - 1 + 1) : SubSeq(s, 1, n)[i] = s[1 + i - 1]
  BY <1>1, <1>2, SubSeqProperties
<1>4. /\ Shrink(s, n) \in Seq(S) /\ Len(Shrink(s, n)) = n
      /\ \A i \in 1..n : Shrink(s, n)[i] = s[i]
  BY <1>1, <1>3 DEF Shrink
<1> HIDE DEF Shrink
<1>5. DOMAIN Shrink(s, n) = 1..n
  BY <1>4, LenProperties
<1>6. IsInjective(Shrink(s, n))
  BY <1>1, <1>4, <1>5 DEF IsInjective
<1>7. Top(s, n) \subseteq Range(s)
  BY <1>1 DEF Top, Range
<1>8. Range(Shrink(s, n)) = Range(s) \ Top(s, n)
  <2>1. Range(Shrink(s, n)) = {s[i] : i \in 1..n}
    BY <1>4, <1>5 DEF Range
  <2>2. Range(s) = {s[i] : i \in 1..Len(s)}
    BY <1>1 DEF Range
  <2>3. ASSUME NEW x \in Range(Shrink(s, n)) PROVE x \in Range(s) \ Top(s, n)
    BY <1>1, <2>1, <2>2 DEF Top, IsInjective
  <2>4. ASSUME NEW x \in Range(s) \ Top(s, n) PROVE x \in Range(Shrink(s, n))
    BY <1>1, <2>1, <2>2 DEF Top
  <2> QED BY <2>3, <2>4
<1> QED BY <1>4, <1>6, <1>7, <1>8

LEMMA PushMany ==
    ASSUME NEW s \in Seq(Buffers), IsInjective(s),
           NEW F, F \subseteq Buffers, \A x \in F : x \notin Range(s),
           NEW n \in Nat, NEW u \in Injection(1..n, F)
    PROVE  /\ u \in Seq(Buffers) /\ Len(u) = n /\ Range(u) \subseteq F
           /\ s \o u \in Seq(Buffers) /\ Len(s \o u) = Len(s) + n
           /\ IsInjective(s \o u) /\ Range(s \o u) = Range(s) \cup Range(u)
<1>1. u \in [1..n -> F] /\ IsInjective(u)
  BY DEF Injection
<1>2. u \in Seq(Buffers) /\ Len(u) = n /\ Range(u) \subseteq F
  BY <1>1 DEF Range
<1>3. Len(s) \in Nat /\ DOMAIN s = 1..Len(s)
  BY LenProperties
<1>4. /\ s \o u \in Seq(Buffers) /\ Len(s \o u) = Len(s) + n
      /\ \A i \in 1..(Len(s) + n) : (s \o u)[i] = IF i <= Len(s) THEN s[i] ELSE u[i - Len(s)]
  BY <1>2, ConcatProperties
<1>5. Range(s \o u) = Range(s) \cup Range(u)
  BY <1>2, RangeConcatenation
<1>6. DOMAIN (s \o u) = 1..(Len(s) + n)
  BY <1>4, LenProperties
<1>7. ASSUME NEW i \in 1..(Len(s) + n), NEW j \in 1..(Len(s) + n), (s \o u)[i] = (s \o u)[j]
      PROVE  i = j
  <2>1. CASE i <= Len(s) /\ j <= Len(s)
    BY <2>1, <1>3, <1>4, <1>7 DEF IsInjective
  <2>2. CASE ~(i <= Len(s)) /\ ~(j <= Len(s))
    <3>1. /\ i - Len(s) \in 1..n /\ j - Len(s) \in 1..n
          /\ u[i - Len(s)] = u[j - Len(s)]
      BY <2>2, <1>3, <1>4, <1>7
    <3>2. i - Len(s) = j - Len(s)
      BY <3>1, <1>1 DEF IsInjective
    <3> QED BY <3>2, <1>3
  <2>3. ASSUME NEW k \in 1..(Len(s) + n), NEW l \in 1..(Len(s) + n),
               k <= Len(s), ~(l <= Len(s)), (s \o u)[k] = (s \o u)[l]
        PROVE  FALSE
    <3>1. s[k] \in Range(s) /\ l - Len(s) \in 1..n
      BY <2>3, <1>3 DEF Range
    <3>2. u[l - Len(s)] \in F /\ s[k] = u[l - Len(s)]
      BY <2>3, <3>1, <1>1, <1>4
    <3> QED BY <3>1, <3>2
  <2> QED BY <2>1, <2>2, <2>3, <1>7
<1>8. IsInjective(s \o u)
  BY <1>6, <1>7 DEF IsInjective
<1> QED BY <1>2, <1>4, <1>5, <1>8

-----------------------------------------------------------------------------
(* The inductive invariant: the books, with the type of the arguments.      *)

ArgValues == Buffers \cup Config \cup Waits \cup {NoArg}

Books ==
    /\ TypeOK /\ arg \in [Threads -> ArgValues]
    /\ StackFits /\ TotalCounts /\ OnePlace

LEMMA NormType ==
    ASSUME NEW c \in Config PROVE Norm(c) \in Config /\ Norm(c).min <= Norm(c).max
BY DEF Norm, Config, DefaultMax

LEMMA SizedType ==
    ASSUME NEW c \in Config, NEW q \in Nat PROVE SizedFor(c, q) \in Config
BY DEF SizedFor, Config

LEMMA ThreadSets ==
    ASSUME NEW S, S \subseteq Threads PROVE IsFiniteSet(S) /\ Cardinality(S) \in Nat
BY PoolConstants, FS_Subset, FS_CardinalityType

LEMMA BufferSets ==
    ASSUME NEW S, S \subseteq Buffers PROVE IsFiniteSet(S) /\ Cardinality(S) \in Nat
BY PoolConstants, FS_Subset, FS_CardinalityType

LEMMA Counted ==
    /\ Cardinality(Held) \in Nat /\ Cardinality(Releasing) \in Nat
    /\ Cardinality(Uncounting) \in Nat
    /\ IsFiniteSet(Held) /\ IsFiniteSet(Releasing) /\ IsFiniteSet(Uncounting)
BY ThreadSets, BufferSets DEF Held, Releasing, Uncounting

LEMMA CountType == ASSUME TypeOK PROVE Count \in Nat
BY LenProperties DEF TypeOK, Count

\* Thread t goes to l; a signal or a broadcast may send sleeping threads back
\* to the head of acquire.
Moved(t, l) ==
    /\ pc' \in [Threads -> PCs] /\ pc'[t] = l
    /\ \A u \in Threads : u # t =>
          pc'[u] = pc[u] \/ (pc[u] = "wait" /\ pc'[u] = "acquire")
    /\ arg' \in [Threads -> ArgValues]
    /\ \A u \in Threads : u # t => arg'[u] = arg[u]

LEMMA GotoMoves ==
    ASSUME Books, NEW t \in Threads, NEW l \in PCs, NEW a \in ArgValues, Goto(t, l, a)
    PROVE  Moved(t, l) /\ arg'[t] = a
BY DEF Books, TypeOK, Goto, Moved

LEMMA ReturnMoves ==
    ASSUME Books, NEW t \in Threads, Return(t) PROVE Moved(t, "run")
<1>1. "run" \in PCs /\ NoArg \in ArgValues
  BY DEF PCs, ArgValues
<1> QED BY <1>1, GotoMoves DEF Return

LEMMA BroadcastMoves ==
    ASSUME Books, NEW t \in Threads, NEW l \in PCs, Broadcast(t, l)
    PROVE  Moved(t, l)
<1>1. pc' \in [Threads -> PCs]
  BY DEF Books, TypeOK, Broadcast, PCs
<1>2. arg' \in [Threads -> ArgValues] /\ \A u \in Threads : u # t => arg'[u] = arg[u]
  BY DEF Books, Broadcast, ArgValues
<1> QED BY <1>1, <1>2 DEF Broadcast, Moved, Waiting

LEMMA SignalMoves ==
    ASSUME Books, NEW t \in Threads, pc[t] # "wait", NEW l \in PCs, Signal(t, l)
    PROVE  Moved(t, l)
<1>1. arg' \in [Threads -> ArgValues] /\ \A u \in Threads : u # t => arg'[u] = arg[u]
  BY DEF Books, Signal, ArgValues
<1>2. /\ pc' \in [Threads -> PCs] /\ pc'[t] = l
      /\ \A u \in Threads : u # t =>
            pc'[u] = pc[u] \/ (pc[u] = "wait" /\ pc'[u] = "acquire")
  BY DEF Books, TypeOK, Signal, Waiting, PCs
<1> QED BY <1>1, <1>2 DEF Moved

\* What a move does to the sets of releasing and uncounting threads.
LEMMA MovedSets ==
    ASSUME Books, NEW t \in Threads, NEW l \in PCs, Moved(t, l)
    PROVE  /\ Releasing' = (Releasing \ {t}) \cup
                            (IF l \in {"release", "discard"} THEN {t} ELSE {})
           /\ Uncounting' = (Uncounting \ {t}) \cup (IF l = "uncount" THEN {t} ELSE {})
<1>1. \A u \in Threads : u # t =>
          /\ pc'[u] \in {"release", "discard"} <=> pc[u] \in {"release", "discard"}
          /\ pc'[u] = "uncount" <=> pc[u] = "uncount"
  BY DEF Moved
<1>2. pc'[t] = l
  BY DEF Moved
<1> QED BY <1>1, <1>2 DEF Releasing, Uncounting

\* The types after a move.
LEMMA MovedTypes ==
    ASSUME Books, NEW t \in Threads, NEW l \in PCs, Moved(t, l),
           l \in {"release", "discard"} => arg'[t] \in Buffers,
           l = "size" => arg'[t] \in Config
    PROVE  \A u \in Threads :
              /\ u \in Releasing' => arg'[u] \in Buffers
              /\ pc'[u] = "size" => arg'[u] \in Config
<1>1. ASSUME NEW u \in Threads, u # t
      PROVE  /\ u \in Releasing' => u \in Releasing
             /\ pc'[u] = "size" => pc[u] = "size"
             /\ arg'[u] = arg[u]
  BY <1>1 DEF Moved, Releasing
<1>2. pc'[t] = l /\ (t \in Releasing' => l \in {"release", "discard"})
  BY DEF Moved, Releasing
<1>3. \A u \in Threads : /\ u \in Releasing => arg[u] \in Buffers
                         /\ pc[u] = "size" => arg[u] \in Config
  BY DEF Books, TypeOK
<1> QED BY <1>1, <1>2, <1>3

\* A step that leaves the pool and the buffers alone and moves one thread
\* between points where it carries no buffer, or the same one.
LEMMA QuietStep ==
    ASSUME Books, NEW t \in Threads, NEW l \in PCs, Moved(t, l),
           UNCHANGED <<pool, live, refs, owners>>, freed' \in Nat,
           pc[t] \in {"release", "discard"} <=> l \in {"release", "discard"},
           l \in {"release", "discard"} => arg'[t] = arg[t],
           pc[t] # "uncount" /\ l # "uncount",
           l = "size" => arg'[t] \in Config
    PROVE  Books'
<1>1. Releasing' = Releasing /\ Uncounting' = Uncounting /\ Held' = Held /\ Count' = Count
  BY MovedSets DEF Releasing, Uncounting, Held, Count, pool
<1>2. \A u \in Releasing : arg'[u] = arg[u]
  BY <1>1 DEF Moved, Releasing
<1>3. TypeOK'
  <2>1. \A u \in Threads : /\ u \in Releasing' => arg'[u] \in Buffers
                           /\ pc'[u] = "size" => arg'[u] \in Config
    BY <1>1, <1>2, MovedTypes DEF Books, TypeOK, Releasing
  <2> QED BY <2>1 DEF Books, TypeOK, Moved, pool
<1>4. StackFits'
  BY <1>1 DEF Books, StackFits, pool
<1>5. TotalCounts'
  BY <1>1 DEF Books, TotalCounts, pool
<1>6. OnePlace'
  BY <1>1, <1>2 DEF Books, OnePlace, pool
<1> QED BY <1>3, <1>4, <1>5, <1>6 DEF Books, Moved

\* A step aside of the releases, with the types of what it may change.
Aside ==
    /\ Releasing' = Releasing /\ Uncounting' = Uncounting
    /\ \A u \in Releasing : arg'[u] = arg[u]
    /\ pc' \in [Threads -> PCs] /\ arg' \in [Threads -> ArgValues]
    /\ \A u \in Threads : /\ u \in Releasing' => arg'[u] \in Buffers
                          /\ pc'[u] = "size" => arg'[u] \in Config

\* A step of a thread that is not releasing a buffer, before or after it.
LEMMA Bystander ==
    ASSUME Books, NEW t \in Threads, NEW l \in PCs, Moved(t, l),
           {pc[t], l} \cap {"release", "discard", "uncount"} = {},
           l = "size" => arg'[t] \in Config
    PROVE  Aside
<1>1. Releasing' = Releasing /\ Uncounting' = Uncounting
  BY MovedSets DEF Releasing, Uncounting
<1>2. t \notin Releasing
  BY DEF Releasing
<1>3. \A u \in Threads : /\ u \in Releasing' => arg'[u] \in Buffers
                         /\ pc'[u] = "size" => arg'[u] \in Config
  BY MovedTypes
<1>4. \A u \in Releasing : arg'[u] = arg[u]
  BY <1>2 DEF Moved, Releasing
<1> QED BY <1>1, <1>3, <1>4 DEF Moved, Aside

LEMMA AcquireNewKeeps ==
    ASSUME Books, NEW t \in Threads, AcquireNew(t) PROVE Books'
<1>1. PICK b \in Dead : /\ live' = live \cup {b}
                        /\ refs' = [refs EXCEPT ![b] = 1]
                        /\ owners' = [owners EXCEPT ![b] = 1]
  BY DEF AcquireNew
<1>2. UNCHANGED <<idle, config, gen, active, freed>> /\ total' = total + 1 /\ pc[t] = "acquire"
  BY DEF AcquireNew
<1>3. Moved(t, "run") /\ "run" \in PCs
  BY ReturnMoves DEF AcquireNew, PCs
<1>4. Aside
  BY <1>2, <1>3, Bystander
<1>5. b \in Buffers /\ b \notin live
  BY DEF Dead
<1>6. TypeOK'
  BY <1>1, <1>2, <1>4, <1>5 DEF Aside, Books, TypeOK
<1>7. Held' = Held \cup {b} /\ b \notin Held
  BY <1>1, <1>5 DEF Held, Books, OnePlace, TypeOK
<1>8. Cardinality(Held') = Cardinality(Held) + 1
  BY <1>7, Counted, FS_AddElement
<1>9. StackFits'
  BY <1>2 DEF Books, StackFits, Count
<1>10. TotalCounts'
  BY <1>2, <1>4, <1>8, Counted, CountType DEF Aside, Books, TotalCounts, Count
<1>11. OnePlace'
  <2>1. \A c \in Held' : refs'[c] = owners'[c]
    BY <1>1, <1>5, <1>7 DEF Books, OnePlace, Held, TypeOK
  <2>2. b \notin Range(idle) /\ \A u \in Releasing : arg[u] # b
    BY <1>5 DEF Books, OnePlace
  <2> QED BY <1>1, <1>2, <1>4, <1>7, <2>1, <2>2 DEF Aside, Books, OnePlace
<1> QED BY <1>4, <1>6, <1>9, <1>10, <1>11 DEF Aside, Books

LEMMA AcquireIdleKeeps ==
    ASSUME Books, NEW t \in Threads, AcquireIdle(t) PROVE Books'
<1> DEFINE b == idle[Count]
<1>1. /\ pc[t] = "acquire" /\ Count > 0
      /\ idle' = Shrink(idle, Count - 1)
      /\ refs' = [refs EXCEPT ![b] = 1] /\ owners' = [owners EXCEPT ![b] = 1]
      /\ UNCHANGED <<total, config, gen, active, freed, live>>
  BY DEF AcquireIdle, Shrink
<1>2. \E l \in {"run", "notify"} : Moved(t, l)
  <2>1. NoArg \in ArgValues /\ "notify" \in PCs
    BY DEF ArgValues, PCs
  <2> QED BY <2>1, ReturnMoves, GotoMoves DEF AcquireIdle
<1>3. PICK l \in {"run", "notify"} : Moved(t, l) /\ l \in PCs
  BY <1>2 DEF PCs
<1>4. Aside
  BY <1>1, <1>3, Bystander
<1>5. /\ idle \in Seq(Buffers) /\ Count \in Nat \ {0} /\ Count - 1 \in 0..Len(idle)
      /\ Count = Len(idle) /\ IsInjective(idle)
  BY <1>1, CountType DEF Books, TypeOK, Count, OnePlace
<1>6. /\ idle' \in Seq(Buffers) /\ Count' = Count - 1 /\ IsInjective(idle')
      /\ Range(idle') = Range(idle) \ Top(idle, Count - 1)
  BY <1>1, <1>5, ShrinkStack DEF Count
<1>7. Top(idle, Count - 1) = {b} /\ b \in Range(idle) /\ b \in Buffers
  BY <1>5 DEF Top, Range
<1> HIDE DEF b
<1>8. b \in live /\ b \notin Held /\ \A u \in Releasing : arg[u] # b
  BY <1>7 DEF Books, OnePlace
<1>9. TypeOK'
  BY <1>1, <1>4, <1>6, <1>7 DEF Aside, Books, TypeOK
<1>10. Held' = Held \cup {b}
  BY <1>1, <1>7 DEF Held, Books, TypeOK
<1>11. Cardinality(Held') = Cardinality(Held) + 1
  BY <1>8, <1>10, Counted, FS_AddElement
<1>12. StackFits'
  BY <1>1, <1>5, <1>6 DEF Books, StackFits, TypeOK, Config
<1>13. TotalCounts'
  <2>1. total' = total /\ Releasing' = Releasing /\ Uncounting' = Uncounting
    BY <1>1, <1>4 DEF Aside
  <2>2. Count \in Nat /\ Count' = Count - 1 /\ Cardinality(Held') = Cardinality(Held) + 1
    BY <1>5, <1>6, <1>11
  <2> QED BY <2>1, <2>2, Counted DEF Books, TotalCounts
<1>14. OnePlace'
  <2>1. \A c \in Held' : refs'[c] = owners'[c]
    BY <1>1, <1>7, <1>8, <1>10 DEF Books, OnePlace, Held, TypeOK
  <2> QED BY <1>1, <1>4, <1>6, <1>7, <1>8, <1>10, <2>1 DEF Aside, Books, OnePlace
<1> QED BY <1>4, <1>9, <1>12, <1>13, <1>14 DEF Aside, Books

LEMMA RefKeeps ==
    ASSUME Books, NEW t \in Threads, NEW b \in Buffers, Ref(t, b) PROVE Books'
<1>1. Held' = Held
  BY DEF Ref, Held, Books, TypeOK
<1>2. Releasing' = Releasing /\ Uncounting' = Uncounting /\ Count' = Count
  BY DEF Ref, Releasing, Uncounting, Count, pool
<1>3. TypeOK'
  BY <1>2 DEF Ref, Books, TypeOK, pool
<1>4. StackFits' /\ TotalCounts'
  BY <1>1, <1>2 DEF Ref, Books, StackFits, TotalCounts, pool
<1>5. \A c \in Held' : refs'[c] = owners'[c]
  BY <1>1 DEF Ref, Books, OnePlace, TypeOK, Held
<1>6. OnePlace'
  BY <1>1, <1>2, <1>5 DEF Ref, Books, OnePlace, pool
<1> QED BY <1>3, <1>4, <1>6 DEF Books, Ref

LEMMA UnrefKeeps ==
    ASSUME Books, NEW t \in Threads, NEW b \in Buffers, Unref(t, b) PROVE Books'
<1>1. /\ pc[t] = "run" /\ owners[b] > 0 /\ UNCHANGED <<pool, freed, live>>
      /\ refs' = [refs EXCEPT ![b] = @ - 1] /\ owners' = [owners EXCEPT ![b] = @ - 1]
      /\ Count' = Count
  BY DEF Unref, Count, pool
<1>2. b \in Held /\ refs[b] = owners[b] /\ owners[b] \in Nat
  BY <1>1 DEF Books, OnePlace, Held, TypeOK
<1>3. refs' \in [Buffers -> Nat] /\ owners' \in [Buffers -> Nat]
  BY <1>1, <1>2 DEF Books, TypeOK
<1>4. \A c \in Held' : refs'[c] = owners'[c]
  BY <1>1, <1>2 DEF Books, OnePlace, TypeOK, Held
<1>5. CASE refs[b] # 1
  <2>1. UNCHANGED <<pc, arg>>
    BY <1>5 DEF Unref
  <2>2. Held' = Held
    BY <1>1, <1>2, <1>5 DEF Held, Books, TypeOK
  <2>3. Releasing' = Releasing /\ Uncounting' = Uncounting
    BY <2>1 DEF Releasing, Uncounting
  <2>4. TypeOK'
    BY <1>1, <1>3, <2>1, <2>3 DEF Books, TypeOK, pool
  <2>5. StackFits' /\ TotalCounts'
    BY <1>1, <2>2, <2>3 DEF Books, StackFits, TotalCounts, pool
  <2>6. OnePlace'
    BY <1>1, <1>4, <2>1, <2>2, <2>3 DEF Books, OnePlace, pool
  <2> QED BY <2>1, <2>4, <2>5, <2>6 DEF Books
<1>6. CASE refs[b] = 1
  <2>1. Goto(t, "release", b)
    BY <1>6 DEF Unref
  <2>2. b \in ArgValues /\ "release" \in PCs
    BY DEF ArgValues, PCs
  <2>3. Moved(t, "release") /\ arg'[t] = b
    BY <2>1, <2>2, GotoMoves
  <2>4. Releasing' = Releasing \cup {t} /\ t \notin Releasing /\ Uncounting' = Uncounting
    BY <1>1, <2>2, <2>3, MovedSets DEF Releasing, Uncounting
  <2>5. Held' = Held \ {b}
    BY <1>1, <1>2, <1>6 DEF Held, Books, TypeOK
  <2>6. TypeOK'
    <3>1. \A u \in Threads : /\ u \in Releasing' => arg'[u] \in Buffers
                             /\ pc'[u] = "size" => arg'[u] \in Config
      BY <2>2, <2>3, MovedTypes
    <3> QED BY <1>1, <1>3, <2>3, <3>1 DEF Books, TypeOK, pool, Moved
  <2>7. /\ Cardinality(Releasing') = Cardinality(Releasing) + 1
        /\ Cardinality(Held') = Cardinality(Held) - 1
    BY <1>2, <2>4, <2>5, Counted, FS_AddElement, FS_RemoveElement
  <2>8. StackFits'
    BY <1>1 DEF Books, StackFits, pool
  <2>9. TotalCounts'
    BY <1>1, <2>4, <2>7, Counted, CountType DEF Books, TotalCounts, pool
  <2>10. OnePlace'
    <3>1. \A u \in Releasing : arg'[u] = arg[u] /\ arg[u] \notin Held
      BY <2>3, <2>4 DEF Moved, Releasing, Books, OnePlace
    <3>2. b \in live /\ b \notin Range(idle)
      BY <1>2 DEF Books, OnePlace
    <3> QED BY <1>1, <1>2, <1>4, <2>3, <2>4, <2>5, <3>1, <3>2 DEF Books, OnePlace, pool
  <2> QED BY <2>3, <2>6, <2>8, <2>9, <2>10 DEF Books, Moved
<1> QED BY <1>5, <1>6

LEMMA ReleaseStoreKeeps ==
    ASSUME Books, NEW t \in Threads, ReleaseStore(t) PROVE Books'
<1> DEFINE b == arg[t]
<1>1. /\ pc[t] = "release" /\ Count < config.max /\ idle' = Append(idle, b)
      /\ UNCHANGED <<total, config, gen, active, freed, live, refs, owners>>
  BY DEF ReleaseStore
<1>2. PICK l \in {"run", "notify"} : Moved(t, l) /\ l \in PCs
  <2>1. PICK l \in {"run", "notify"} : Signal(t, l)
    BY DEF ReleaseStore
  <2>2. l \in PCs
    BY DEF PCs
  <2> QED BY <1>1, <2>1, <2>2, SignalMoves
<1>3. t \in Releasing /\ t \notin Uncounting
  BY <1>1 DEF Releasing, Uncounting
<1>4. Releasing' = Releasing \ {t} /\ Uncounting' = Uncounting /\ Held' = Held
  <2>1. l \notin {"release", "discard"} /\ l # "uncount"
    BY <1>2
  <2>2. Releasing' = Releasing \ {t} /\ Uncounting' = Uncounting \ {t}
    BY <1>2, <2>1, MovedSets
  <2> QED BY <1>1, <1>3, <2>2 DEF Held
<1>5. \A u \in Releasing' : arg'[u] = arg[u]
  BY <1>2, <1>4 DEF Moved, Releasing
<1>6. b \in Buffers /\ b \in live /\ b \notin Held \cup Range(idle)
  BY <1>3 DEF Books, TypeOK, OnePlace
<1>7. idle \in Seq(Buffers) /\ IsInjective(idle)
  BY DEF Books, TypeOK, OnePlace
<1> HIDE DEF b
<1>8. /\ idle' \in Seq(Buffers) /\ Count' = Count + 1 /\ IsInjective(idle')
      /\ Range(idle') = Range(idle) \cup {b}
  BY <1>1, <1>6, <1>7, PushOne DEF Count
<1>9. TypeOK'
  <2>1. \A u \in Threads : /\ u \in Releasing' => arg'[u] \in Buffers
                           /\ pc'[u] = "size" => arg'[u] \in Config
    BY <1>2, MovedTypes
  <2> QED BY <1>1, <1>2, <1>8, <2>1 DEF Books, TypeOK, Moved
<1>10. StackFits'
  BY <1>1, <1>8, CountType DEF Books, StackFits, TypeOK, Config
<1>11. TotalCounts'
  <2>1. Cardinality(Releasing') = Cardinality(Releasing) - 1
    BY <1>3, <1>4, Counted, FS_RemoveElement
  <2>2. total' = total /\ Count' = Count + 1 /\ Count \in Nat
    BY <1>1, <1>8, CountType DEF Books
  <2> QED BY <1>4, <2>1, <2>2, Counted DEF Books, TotalCounts
<1>12. OnePlace'
  <2>1. \A u \in Releasing' : arg[u] # b
    BY <1>3, <1>4 DEF Books, OnePlace, b
  <2> QED BY <1>1, <1>4, <1>5, <1>6, <1>8, <2>1 DEF Books, OnePlace
<1> QED BY <1>2, <1>9, <1>10, <1>11, <1>12 DEF Books, Moved

LEMMA FreeBufferKeeps ==
    ASSUME Books, NEW t \in Threads, FreeBuffer(t) PROVE Books'
<1>1. /\ pc[t] = "discard" /\ live' = live \ {arg[t]}
      /\ UNCHANGED <<pool, freed, refs, owners>> /\ Count' = Count
  BY DEF FreeBuffer, Count, pool
<1>2. Moved(t, "uncount") /\ "uncount" \in PCs
  <2>1. "uncount" \in PCs /\ NoArg \in ArgValues
    BY DEF PCs, ArgValues
  <2> QED BY <2>1, GotoMoves DEF FreeBuffer
<1>3. t \in Releasing /\ t \notin Uncounting
  BY <1>1 DEF Releasing, Uncounting
<1>4. Releasing' = Releasing \ {t} /\ Uncounting' = Uncounting \cup {t} /\ Held' = Held
  BY <1>1, <1>2, <1>3, MovedSets DEF Held
<1>5. \A u \in Releasing' : arg'[u] = arg[u] /\ arg[u] # arg[t]
  BY <1>2, <1>3, <1>4 DEF Moved, Releasing, Books, OnePlace
<1>6. TypeOK'
  <2>1. \A u \in Threads : /\ u \in Releasing' => arg'[u] \in Buffers
                           /\ pc'[u] = "size" => arg'[u] \in Config
    BY <1>2, MovedTypes
  <2> QED BY <1>1, <1>2, <2>1 DEF Books, TypeOK, Moved, pool
<1>7. StackFits'
  BY <1>1 DEF Books, StackFits, pool
<1>8. TotalCounts'
  <2>1. /\ Cardinality(Releasing') = Cardinality(Releasing) - 1
        /\ Cardinality(Uncounting') = Cardinality(Uncounting) + 1
    BY <1>3, <1>4, Counted, FS_RemoveElement, FS_AddElement
  <2>2. total' = total /\ Count \in Nat
    BY <1>1, CountType DEF Books, pool
  <2> QED BY <1>1, <1>4, <2>1, <2>2, Counted DEF Books, TotalCounts
<1>9. OnePlace'
  <2>1. arg[t] \notin Held \cup Range(idle)
    BY <1>3 DEF Books, OnePlace
  <2> QED BY <1>1, <1>4, <1>5, <2>1 DEF Books, OnePlace, pool
<1> QED BY <1>2, <1>6, <1>7, <1>8, <1>9 DEF Books, Moved

LEMMA ReleaseUncountKeeps ==
    ASSUME Books, NEW t \in Threads, ReleaseUncount(t) PROVE Books'
<1>1. /\ pc[t] = "uncount" /\ total' = total - 1
      /\ UNCHANGED <<idle, config, gen, active, freed, live, refs, owners>> /\ Count' = Count
  BY DEF ReleaseUncount, Count
<1>2. PICK l \in {"run", "free"} : Moved(t, l) /\ l \in PCs
  <2>1. {"run", "free"} \subseteq PCs /\ NoArg \in ArgValues
    BY DEF PCs, ArgValues
  <2> QED BY <2>1, GotoMoves, ReturnMoves DEF ReleaseUncount
<1>3. t \notin Releasing /\ t \in Uncounting
  BY <1>1 DEF Releasing, Uncounting
<1>4. Releasing' = Releasing /\ Uncounting' = Uncounting \ {t} /\ Held' = Held
  BY <1>1, <1>2, <1>3, MovedSets DEF Held
<1>5. \A u \in Releasing' : arg'[u] = arg[u]
  BY <1>2, <1>3, <1>4 DEF Moved, Releasing
<1>6. TotalCounts' /\ total' \in Nat
  <2>1. /\ Cardinality(Uncounting') = Cardinality(Uncounting) - 1
        /\ Cardinality(Uncounting') \in Nat
    BY <1>3, <1>4, Counted, ThreadSets, FS_RemoveElement DEF Uncounting
  <2>2. Count \in Nat /\ total \in Nat
    BY CountType DEF Books, TypeOK
  <2> QED BY <1>1, <1>4, <2>1, <2>2, Counted DEF Books, TotalCounts
<1>7. TypeOK'
  <2>1. \A u \in Threads : /\ u \in Releasing' => arg'[u] \in Buffers
                           /\ pc'[u] = "size" => arg'[u] \in Config
    BY <1>2, MovedTypes
  <2> QED BY <1>1, <1>2, <1>6, <2>1 DEF Books, TypeOK, Moved
<1>8. StackFits'
  BY <1>1 DEF Books, StackFits
<1>9. OnePlace'
  BY <1>1, <1>4, <1>5 DEF Books, OnePlace
<1> QED BY <1>2, <1>6, <1>7, <1>8, <1>9 DEF Books, Moved

LEMMA DestroyKeeps ==
    ASSUME Books, NEW t \in Threads, Destroy(t) PROVE Books'
<1>1. /\ pc[t] = "run" /\ active' = FALSE /\ live' = live \ Range(idle)
      /\ total' = total - Count /\ idle' = <<>>
      /\ UNCHANGED <<config, gen, freed, refs, owners>>
  BY DEF Destroy, MayDestroy
<1>2. PICK l \in {"run", "free"} : Moved(t, l) /\ l \in PCs
  <2>1. {"run", "free"} \subseteq PCs
    BY DEF PCs
  <2> QED BY <2>1, BroadcastMoves DEF Destroy
<1>3. Aside
  BY <1>1, <1>2, Bystander
<1>4. Held' = Held /\ Count' = 0 /\ Range(idle') = {} /\ IsInjective(idle')
  BY <1>1 DEF Held, Count, Range, IsInjective
<1>5. TotalCounts' /\ total' \in Nat
  <2>1. Count \in Nat /\ total \in Nat /\ total' = total - Count
    BY <1>1, CountType DEF Books, TypeOK
  <2>2. Releasing' = Releasing /\ Uncounting' = Uncounting
    BY <1>3 DEF Aside
  <2> QED BY <1>4, <2>1, <2>2, Counted DEF Books, TotalCounts
<1>6. TypeOK'
  BY <1>1, <1>3, <1>5, EmptySeq DEF Aside, Books, TypeOK
<1>7. StackFits'
  BY <1>1, <1>4 DEF Books, StackFits, TypeOK, Config
<1>8. OnePlace'
  BY <1>1, <1>3, <1>4 DEF Aside, Books, OnePlace
<1> QED BY <1>3, <1>5, <1>6, <1>7, <1>8 DEF Aside, Books

-----------------------------------------------------------------------------
(* set_config, prefill and drain: the stack is cut down to its first k       *)
(* buffers, the others are freed, and the buffers of the set new are pushed. *)

LEMMA Balance ==
    ASSUME NEW c \in Nat, NEW k \in 0..c, NEW n \in Nat, NEW out \in Nat
    PROVE  (c + out) - (c - k) + n = (k + n) + out /\ (k + n) + out \in Nat
OBVIOUS

LEMMA Outside ==
    ASSUME Books
    PROVE  \E out \in Nat :
              /\ out = Cardinality(Held) + Cardinality(Releasing) + Cardinality(Uncounting)
              /\ total = Count + out
<1>1. Count \in Nat
  BY CountType DEF Books
<1>2. total = Count + Cardinality(Held) + Cardinality(Releasing) + Cardinality(Uncounting)
  BY DEF Books, TotalCounts
<1> QED BY <1>1, <1>2, Counted

LEMMA Resized ==
    ASSUME Books, Aside, NEW k \in 0..Count, NEW n \in Nat,
           NEW new \in SUBSET (Dead \cup Top(idle, k)),
           idle' \in Seq(Buffers), Len(idle') = k + n, IsInjective(idle'),
           Range(idle') = (Range(idle) \ Top(idle, k)) \cup new,
           total' = total - (Count - k) + n, k + n <= config'.max,
           live' = (live \ Top(idle, k)) \cup new,
           refs' \in [Buffers -> Nat], \A b \in Buffers \ new : refs'[b] = refs[b],
           config' \in Config, gen' \in Nat \ {0}, UNCHANGED <<active, freed, owners>>
    PROVE  Books'
<1>1. Count \in Nat /\ Count = Len(idle) /\ idle \in Seq(Buffers)
  BY CountType DEF Books, TypeOK, Count
<1>2. Top(idle, k) \subseteq Range(idle) /\ Range(idle) \subseteq live /\ live \subseteq Buffers
  BY <1>1, ShrinkStack DEF Books, OnePlace, TypeOK
<1>3. new \subseteq Buffers /\ new \cap Held = {} /\ \A u \in Releasing : arg[u] \notin new
  BY <1>2 DEF Books, OnePlace, Dead
<1>4. Held' = Held /\ Count' = k + n
  BY DEF Held, Count
<1>5. TotalCounts' /\ total' \in Nat
  <2>1. Releasing' = Releasing /\ Uncounting' = Uncounting
    BY DEF Aside
  <2>2. total \in Nat /\ k \in Nat
    BY DEF Books, TypeOK
  <2>3. PICK out \in Nat :
            /\ out = Cardinality(Held) + Cardinality(Releasing) + Cardinality(Uncounting)
            /\ total = Count + out
    BY Outside
  <2>5. total' = Count' + out /\ total' \in Nat
    <3>1. total' = (Count + out) - (Count - k) + n
      BY <2>3
    <3>2. (Count + out) - (Count - k) + n = (k + n) + out /\ (k + n) + out \in Nat
      BY <1>1, Balance
    <3> QED BY <1>4, <3>1, <3>2
  <2>6. TotalCounts'
    BY <1>4, <2>1, <2>2, <2>3, <2>5, Counted DEF TotalCounts
  <2> QED BY <2>5, <2>6
<1>6. TypeOK'
  <2>1. live' \subseteq Buffers
    BY <1>2, <1>3
  <2> QED BY <1>5, <2>1 DEF Books, TypeOK, Aside
<1>7. StackFits'
  BY <1>4 DEF StackFits
<1>8. OnePlace'
  <2>1. Range(idle') \subseteq live' /\ Held \subseteq live' /\ Range(idle') \cap Held = {}
    BY <1>2, <1>3 DEF Books, OnePlace
  <2>2. \A b \in Held : refs'[b] = owners'[b]
    BY <1>3 DEF Books, OnePlace, Held
  <2>3. \A u \in Releasing : arg[u] \in live' /\ arg[u] \notin Held \cup Range(idle')
    BY <1>2, <1>3 DEF Books, OnePlace
  <2> QED BY <1>4, <2>1, <2>2, <2>3 DEF Books, OnePlace, Aside
<1> QED BY <1>5, <1>6, <1>7, <1>8 DEF Books, Aside

\* Nothing is pushed.
LEMMA CutKeeps ==
    ASSUME Books, Aside, NEW k \in 0..Count, idle' = Shrink(idle, k),
           live' = live \ Top(idle, k), total' = total - (Count - k),
           UNCHANGED <<config, gen, active, freed, refs, owners>>
    PROVE  Books'
<1>1. Count \in Nat /\ Count = Len(idle) /\ idle \in Seq(Buffers) /\ IsInjective(idle)
  BY CountType DEF Books, TypeOK, Count, OnePlace
<1>2. /\ idle' \in Seq(Buffers) /\ Len(idle') = k /\ IsInjective(idle')
      /\ Range(idle') = Range(idle) \ Top(idle, k)
  BY <1>1, ShrinkStack
<1>3. k + 0 <= config'.max
  BY <1>1 DEF Books, StackFits, TypeOK, Config
<1>4. total' = total - (Count - k) + 0 /\ Len(idle') = k + 0
  BY <1>1, <1>2 DEF Books, TypeOK
<1>5. {} \in SUBSET (Dead \cup Top(idle, k)) /\ live' = (live \ Top(idle, k)) \cup {}
      /\ Range(idle') = (Range(idle) \ Top(idle, k)) \cup {}
  BY <1>2
<1>6. /\ refs' \in [Buffers -> Nat] /\ \A b \in Buffers \ {} : refs'[b] = refs[b]
      /\ config' \in Config /\ gen' \in Nat \ {0}
  BY DEF Books, TypeOK
<1> QED BY <1>2, <1>3, <1>4, <1>5, <1>6, Resized

\* n buffers are pushed behind the k that stay.
LEMMA PushNewKeeps ==
    ASSUME Books, Aside, NEW k \in 0..Count, NEW n \in Nat,
           PushNew(Shrink(idle, k), n, Dead \cup Top(idle, k)),
           total' = total - (Count - k) + n, k + n <= config'.max,
           config' \in Config, gen' \in Nat \ {0}, UNCHANGED <<active, freed, owners>>
    PROVE  Books'
<1> DEFINE F == Dead \cup Top(idle, k)
<1>1. Count \in Nat /\ Count = Len(idle) /\ idle \in Seq(Buffers) /\ IsInjective(idle)
  BY CountType DEF Books, TypeOK, Count, OnePlace
<1>2. /\ Shrink(idle, k) \in Seq(Buffers) /\ Len(Shrink(idle, k)) = k
      /\ IsInjective(Shrink(idle, k))
      /\ Range(Shrink(idle, k)) = Range(idle) \ Top(idle, k)
      /\ Top(idle, k) \subseteq Range(idle)
  BY <1>1, ShrinkStack
<1>3. Range(idle) \subseteq live /\ live \subseteq Buffers
  BY DEF Books, OnePlace, TypeOK
<1>4. F \subseteq Buffers /\ \A x \in F : x \notin Range(Shrink(idle, k))
  BY <1>2, <1>3 DEF Dead
<1>5. PICK u \in Injection(1..n, F) :
          /\ idle' = Shrink(idle, k) \o u
          /\ live' = (Buffers \ F) \cup Range(u)
          /\ refs' = [b \in Buffers |-> IF b \in Range(u) THEN 1 ELSE refs[b]]
  BY DEF PushNew
<1> HIDE DEF F
<1>6. /\ Range(u) \subseteq F /\ idle' \in Seq(Buffers) /\ Len(idle') = k + n
      /\ IsInjective(idle') /\ Range(idle') = Range(Shrink(idle, k)) \cup Range(u)
  <2>1. PICK s : s = Shrink(idle, k)
    OBVIOUS
  <2>2. s \in Seq(Buffers) /\ IsInjective(s) /\ (\A x \in F : x \notin Range(s)) /\ Len(s) = k
    BY <1>2, <1>4, <2>1
  <2>3. /\ Range(u) \subseteq F /\ s \o u \in Seq(Buffers) /\ Len(s \o u) = Len(s) + n
        /\ IsInjective(s \o u) /\ Range(s \o u) = Range(s) \cup Range(u)
    <3>1. u \in Injection(1..n, F) /\ n \in Nat /\ F \subseteq Buffers
      BY <1>4, <1>5
    <3>2. s \in Seq(Buffers) /\ IsInjective(s) /\ \A x \in F : x \notin Range(s)
      BY <2>2
    <3> QED BY ONLY <3>1, <3>2, PushMany
  <2> QED BY <1>5, <2>1, <2>2, <2>3
<1>7. live' = (live \ Top(idle, k)) \cup Range(u)
  BY <1>3, <1>5 DEF F, Dead
<1>8. refs' \in [Buffers -> Nat] /\ \A b \in Buffers \ Range(u) : refs'[b] = refs[b]
  BY <1>5 DEF Books, TypeOK
<1>9. Range(u) \in SUBSET (Dead \cup Top(idle, k))
  BY <1>6 DEF F
<1> QED BY <1>2, <1>6, <1>7, <1>8, <1>9, Resized

LEMMA SetConfigKeeps ==
    ASSUME Books, NEW t \in Threads, pc[t] \in {"run", "size"}, NEW c0 \in Config,
           SetConfigTo(t, Norm(c0))
    PROVE  Books'
<1> DEFINE c == Norm(c0)
<1>1. c \in Config /\ c.min \in Nat /\ c.max \in Nat /\ c.min <= c.max
  BY NormType DEF Config
<1>2. Count \in Nat /\ total \in Nat /\ Count <= total
  BY CountType, Counted DEF Books, TypeOK, TotalCounts
<1> HIDE DEF c
<1>3. Keep(c) \in 0..Count /\ Keep(c) <= c.max /\ Keep(c) \in Nat
  BY <1>1, <1>2 DEF Keep
<1>4. ASSUME Moved(t, "run") PROVE Aside
  BY <1>4, Bystander DEF PCs
<1>5. CASE ApplyConfig(t, c)
  <2>1. PICK n \in 0..Missing(c) :
            /\ PushNew(Shrink(idle, Keep(c)), n, Dead \cup Top(idle, Keep(c)))
            /\ total' = total - (Count - Keep(c)) + n
            /\ Broadcast(t, "run") \/ Return(t)
    BY <1>5 DEF ApplyConfig
  <2>2. config' = c /\ gen' = gen + 1
    BY <1>5 DEF ApplyConfig
  <2>3. Moved(t, "run")
    BY <2>1, BroadcastMoves, ReturnMoves DEF PCs
  <2>4. Missing(c) \in Nat /\ Keep(c) + Missing(c) <= c.max
    BY <1>1, <1>2, <1>3 DEF Missing
  <2>5. n \in Nat /\ Keep(c) + n <= config'.max
    BY <1>1, <1>3, <2>1, <2>2, <2>4
  <2>6. config' \in Config /\ gen' \in Nat \ {0}
    BY <1>1, <2>2 DEF Books, TypeOK
  <2>7. UNCHANGED <<active, freed, owners>>
    BY DEF SetConfigTo
  <2> QED BY <1>3, <1>4, <2>1, <2>3, <2>5, <2>6, <2>7, PushNewKeeps
<1>6. CASE ReallocFails(t, c)
  <2>1. Moved(t, "run")
    BY <1>6, ReturnMoves DEF ReallocFails
  <2> QED BY <1>3, <1>4, <1>6, <2>1, CutKeeps DEF ReallocFails, SetConfigTo
<1> QED BY <1>5, <1>6 DEF SetConfigTo, c

LEMMA PrefillKeeps ==
    ASSUME Books, NEW t \in Threads, Prefill(t) PROVE Books'
<1> DEFINE room == IF total < config.max THEN config.max - total ELSE 0
<1>1. PICK n \in 0..room : PushNew(idle, n, Dead) /\ total' = total + n
  BY DEF Prefill
<1>2. /\ pc[t] = "run" /\ Broadcast(t, "run")
      /\ UNCHANGED <<config, gen, active, freed, owners>>
  BY DEF Prefill
<1>3. /\ Count \in Nat /\ total \in Nat /\ Count <= total /\ Count = Len(idle)
      /\ idle \in Seq(Buffers) /\ config \in Config /\ config.max \in Nat
      /\ gen \in Nat \ {0} /\ Count <= config.max
  BY CountType, Counted DEF Books, TypeOK, TotalCounts, Count, Config, StackFits
<1>4. Shrink(idle, Count) = idle
  BY <1>3, SubSeqFull DEF Shrink
<1>5. Top(idle, Count) = {}
  BY <1>3 DEF Top
<1>6. Dead \cup Top(idle, Count) = Dead
  BY <1>5
<1>7. n \in Nat /\ Count + n <= config'.max /\ total' = total - (Count - Count) + n
  BY <1>1, <1>2, <1>3
<1>8. Aside
  BY <1>2, BroadcastMoves, Bystander DEF PCs
<1>9. PushNew(Shrink(idle, Count), n, Dead \cup Top(idle, Count))
  BY <1>1, <1>4, <1>6
<1>10. Count \in 0..Count
  BY <1>3
<1> QED BY <1>2, <1>3, <1>7, <1>8, <1>9, <1>10, PushNewKeeps

LEMMA DrainKeeps ==
    ASSUME Books, NEW t \in Threads, Drain(t) PROVE Books'
<1>1. /\ Count \in Nat /\ total \in Nat /\ config.min \in Nat
  BY CountType DEF Books, TypeOK, Config
<1>2. PICK n \in 0..Count : /\ idle' = Shrink(idle, n) /\ live' = live \ Top(idle, n)
                            /\ total' = total - (Count - n)
  BY <1>1 DEF Drain
<1>3. UNCHANGED <<config, gen, active, freed, refs, owners, pc, arg>>
  BY DEF Drain
<1>4. Aside
  BY <1>3 DEF Aside, Releasing, Uncounting, Books, TypeOK
<1> QED BY <1>2, <1>3, <1>4, CutKeeps

-----------------------------------------------------------------------------
(* The books stay right.                                                    *)

LEMMA BooksInit == Init => Books
<1> SUFFICES ASSUME Init PROVE Books
  OBVIOUS
<1>1. PICK n \in 0..config.min : \E s \in Injection(1..n, Buffers) :
          idle = s /\ total = n /\ live = Range(s)
  BY DEF Init
<1>2. PICK s \in Injection(1..n, Buffers) : idle = s /\ total = n /\ live = Range(s)
  BY <1>1
<1>3. config \in Config /\ config.min <= config.max /\ config.min \in Nat /\ config.max \in Nat
  BY PoolConstants, NormType DEF Init, Config
<1>4. n \in Nat /\ n <= config.max
  BY <1>3
<1>5. s \in [1..n -> Buffers] /\ IsInjective(s)
  BY DEF Injection
<1>6. idle \in Seq(Buffers) /\ Count = n /\ Range(idle) \subseteq Buffers /\ IsInjective(idle)
  BY <1>2, <1>4, <1>5 DEF Count, Range
<1>7. Held = {} /\ Releasing = {} /\ Uncounting = {}
  BY DEF Init, Held, Releasing, Uncounting
<1>8. arg \in [Threads -> ArgValues]
  BY DEF Init, ArgValues
<1>9. TypeOK
  <2>1. refs \in [Buffers -> Nat] /\ owners \in [Buffers -> Nat]
    BY DEF Init
  <2>2. pc \in [Threads -> PCs] /\ \A t \in Threads : pc[t] # "size"
    BY DEF Init, PCs
  <2> QED BY <1>2, <1>3, <1>4, <1>6, <1>7, <2>1, <2>2 DEF Init, TypeOK
<1>10. StackFits
  BY <1>4, <1>6 DEF StackFits
<1>11. TotalCounts
  BY <1>2, <1>4, <1>6, <1>7, FS_EmptySet DEF TotalCounts
<1>12. OnePlace
  BY <1>2, <1>6, <1>7 DEF OnePlace
<1> QED BY <1>8, <1>9, <1>10, <1>11, <1>12 DEF Books

\* The steps that neither the pool nor a buffer takes part in.
Quiet(t) ==
    \/ \E w \in Waits : Acquire(t, w)
    \/ AcquireBlocks(t) \/ AcquireError(t) \/ SpuriousWakeup(t) \/ Deadline(t)
    \/ GiveUp(t) \/ Notify(t) \/ ReleaseDiscard(t) \/ FreePool(t)
    \/ \E q \in QueueCounts : ReadConfig(t, q)

LEMMA QuietMoves ==
    ASSUME Books, NEW t \in Threads, Quiet(t)
    PROVE  \E l \in PCs :
              /\ Moved(t, l) /\ UNCHANGED <<pool, live, refs, owners>> /\ freed' \in Nat
              /\ pc[t] \in {"release", "discard"} <=> l \in {"release", "discard"}
              /\ l \in {"release", "discard"} => arg'[t] = arg[t]
              /\ pc[t] # "uncount" /\ l # "uncount" /\ l # "free"
              /\ l = "size" => arg'[t] \in Config
              /\ FreePool(t) \/ (freed' = freed /\ pc[t] # "free")
<1> USE DEF PCs
<1>0. freed \in Nat /\ arg[t] \in ArgValues /\ NoArg \in ArgValues /\ Waits \subseteq ArgValues
  BY DEF Books, TypeOK, ArgValues
<1> DEFINE Goal(l) ==
              /\ Moved(t, l) /\ UNCHANGED <<pool, live, refs, owners>> /\ freed' \in Nat
              /\ pc[t] \in {"release", "discard"} <=> l \in {"release", "discard"}
              /\ l \in {"release", "discard"} => arg'[t] = arg[t]
              /\ pc[t] # "uncount" /\ l # "uncount" /\ l # "free"
              /\ l = "size" => arg'[t] \in Config
              /\ FreePool(t) \/ (freed' = freed /\ pc[t] # "free")
<1>1. CASE \E w \in Waits : Acquire(t, w)
  <2>1. Goal("acquire")
    BY <1>0, <1>1, GotoMoves DEF Acquire
  <2> QED BY <2>1
<1>2. CASE AcquireBlocks(t)
  <2>1. Goal("run") \/ Goal("wait")
    BY <1>0, <1>2, GotoMoves, ReturnMoves DEF AcquireBlocks
  <2> QED BY <2>1
<1>3. CASE AcquireError(t) \/ GiveUp(t) \/ Notify(t)
  <2>1. Goal("run")
    BY <1>0, <1>3, ReturnMoves DEF AcquireError, GiveUp, Notify
  <2> QED BY <2>1
<1>4. CASE SpuriousWakeup(t) \/ Deadline(t)
  <2>1. Goal("acquire") \/ Goal("late")
    BY <1>0, <1>4, GotoMoves DEF SpuriousWakeup, Deadline
  <2> QED BY <2>1
<1>5. CASE ReleaseDiscard(t)
  <2>1. Goal("discard")
    BY <1>0, <1>5, GotoMoves DEF ReleaseDiscard
  <2> QED BY <2>1
<1>6. CASE FreePool(t)
  <2>1. Goal("run")
    BY <1>0, <1>6, ReturnMoves DEF FreePool
  <2> QED BY <2>1
<1>7. ASSUME NEW q \in QueueCounts, ReadConfig(t, q)
      PROVE  \E l \in PCs : Goal(l)
  <2>1. SizedFor(config, q) \in Config /\ SizedFor(config, q) \in ArgValues
    BY PoolConstants, SizedType DEF Books, TypeOK, ArgValues
  <2>2. Goal("size")
    BY <1>0, <1>7, <2>1, GotoMoves DEF ReadConfig
  <2> QED BY <2>2
<1> QED BY <1>1, <1>2, <1>3, <1>4, <1>5, <1>6, <1>7 DEF Quiet

LEMMA BooksStep ==
    ASSUME Books, [Next]_vars PROVE Books'
<1>1. ASSUME NEW t \in Threads, Quiet(t) PROVE Books'
  BY <1>1, QuietMoves, QuietStep
<1>2. ASSUME NEW t \in Threads, Proceed(t) PROVE Books'
  BY <1>1, <1>2, AcquireNewKeeps, AcquireIdleKeeps, ReleaseStoreKeeps, FreeBufferKeeps,
     ReleaseUncountKeeps
  DEF Proceed, Quiet
<1>3. ASSUME NEW t \in Threads, NEW b \in Buffers, Ref(t, b) \/ Unref(t, b) PROVE Books'
  BY <1>3, RefKeeps, UnrefKeeps
<1>4. ASSUME NEW t \in Threads, Control(t) PROVE Books'
  <2>1. ASSUME NEW c \in Configs, SetConfig(t, c) PROVE Books'
    BY <2>1, PoolConstants, SetConfigKeeps DEF SetConfig
  <2>2. CASE WriteConfig(t)
    <3>1. arg[t] \in Config
      BY <2>2 DEF WriteConfig, Books, TypeOK
    <3> QED BY <2>2, <3>1, SetConfigKeeps DEF WriteConfig
  <2>3. CASE Prefill(t) \/ Drain(t) \/ Destroy(t)
    BY <2>3, PrefillKeeps, DrainKeeps, DestroyKeeps
  <2>4. ASSUME NEW q \in QueueCounts, ReadConfig(t, q) PROVE Books'
    BY <1>1, <2>4 DEF Quiet
  <2> QED BY <1>4, <2>1, <2>2, <2>3, <2>4 DEF Control
<1>5. CASE UNCHANGED vars
  <2>1. Releasing' = Releasing /\ Uncounting' = Uncounting /\ Held' = Held /\ Count' = Count
    BY <1>5 DEF vars, pool, Releasing, Uncounting, Held, Count
  <2>2. TypeOK'
    BY <1>5, <2>1 DEF vars, pool, Books, TypeOK
  <2>3. StackFits' /\ TotalCounts' /\ OnePlace'
    BY <1>5, <2>1 DEF vars, pool, Books, StackFits, TotalCounts, OnePlace
  <2> QED BY <1>5, <2>2, <2>3 DEF vars, Books
<1>6. ASSUME NEW t \in Acquirers, NEW w \in Waits, Acquire(t, w) PROVE Books'
  BY <1>1, <1>6, PoolConstants DEF Quiet
<1>7. ASSUME NEW t \in Threads, SpuriousWakeup(t) \/ Deadline(t) PROVE Books'
  BY <1>1, <1>7 DEF Quiet
<1> QED BY <1>2, <1>3, <1>4, <1>5, <1>6, <1>7, PoolConstants DEF Next

\* total_allocated is the number of buffers that point to the pool, the idle
\* stack fits its array, and a buffer is in one place with the right reference
\* count, for every number of threads and buffers and every sequence of
\* configurations (zst_buffer_pool.c:99-125, 160-163, 190-231, 301-345).
THEOREM PoolBooksRight == Spec => []PoolAccounted
<1>1. Init => Books
  BY BooksInit
<1>2. Books /\ [Next]_vars => Books'
  BY BooksStep
<1>3. Books => PoolAccounted
  BY DEF Books, PoolAccounted
<1> QED BY <1>1, <1>2, <1>3, PTL DEF Spec

-----------------------------------------------------------------------------
(* The end of the pool.  Only the step that brings total_allocated of a      *)
(* destroyed pool to zero sends a thread to free it, and nothing raises the  *)
(* count of a destroyed pool again.                                          *)

Freeing == {t \in Threads : pc[t] = "free"}

Last ==
    /\ Freeing # {} \/ freed > 0 => ~active /\ total = 0
    /\ freed \in {0, 1}
    /\ freed = 1 => Freeing = {}
    /\ \A t, u \in Freeing : t = u

LEMMA MovedFreeing ==
    ASSUME NEW t \in Threads, NEW l, Moved(t, l)
    PROVE  Freeing' = (Freeing \ {t}) \cup (IF l = "free" THEN {t} ELSE {})
BY DEF Moved, Freeing

\* A step that sends nobody to free the pool.
LEMMA LastKept ==
    ASSUME Last, Freeing' = Freeing, freed' = freed,
           ~active /\ total = 0 => ~active' /\ total' = 0
    PROVE  Last'
BY DEF Last

LEMMA LastMoved ==
    ASSUME Last, NEW t \in Threads, NEW l, Moved(t, l), l # "free", pc[t] # "free",
           freed' = freed, ~active /\ total = 0 => ~active' /\ total' = 0
    PROVE  Last'
<1>1. Freeing' = Freeing
  BY MovedFreeing DEF Freeing
<1> QED BY <1>1, LastKept

LEMMA SetConfigTotal ==
    ASSUME Books, NEW t \in Threads, pc[t] \in {"run", "size"}, NEW c0 \in Config,
           SetConfigTo(t, Norm(c0))
    PROVE  Moved(t, "run") /\ UNCHANGED <<active, freed>>
           /\ (~active /\ total = 0 => total' = 0)
<1> DEFINE c == Norm(c0)
<1>1. c \in Config /\ c.max \in Nat
  BY NormType DEF Config
<1> HIDE DEF c
<1>2. Count \in Nat /\ Count <= total /\ total \in Nat
  BY CountType, Counted DEF Books, TypeOK, TotalCounts
<1>3. total = 0 => Keep(c) = 0 /\ Count = 0
  BY <1>1, <1>2 DEF Keep
<1>4. CASE ApplyConfig(t, c)
  <2>1. PICK n \in 0..Missing(c) : /\ total' = total - (Count - Keep(c)) + n
                                   /\ Broadcast(t, "run") \/ Return(t)
    BY <1>4 DEF ApplyConfig
  <2>2. ~active => n = 0
    BY <2>1 DEF Missing
  <2>3. Moved(t, "run")
    BY <2>1, BroadcastMoves, ReturnMoves DEF PCs
  <2> QED BY <1>3, <2>1, <2>2, <2>3 DEF SetConfigTo
<1>5. CASE ReallocFails(t, c)
  BY <1>3, <1>5, ReturnMoves DEF ReallocFails, SetConfigTo
<1> QED BY <1>4, <1>5 DEF SetConfigTo, c

LEMMA LastStep ==
    ASSUME Books, Last, [Next]_vars PROVE Last'
<1> USE DEF PCs
<1>0. total \in Nat /\ freed \in Nat /\ active \in BOOLEAN
  BY DEF Books, TypeOK
<1>1. ASSUME NEW t \in Threads, Quiet(t), ~FreePool(t) PROVE Last'
  <2>1. PICK l \in PCs : /\ Moved(t, l) /\ UNCHANGED pool /\ l # "free"
                         /\ freed' = freed /\ pc[t] # "free"
    BY <1>1, QuietMoves
  <2> QED BY <2>1, LastMoved DEF pool
<1>2. ASSUME NEW t \in Threads, FreePool(t) PROVE Last'
  <2>1. Moved(t, "run") /\ UNCHANGED pool /\ freed' = freed + 1 /\ pc[t] = "free"
    BY <1>2, ReturnMoves DEF FreePool
  <2>2. t \in Freeing
    BY <2>1 DEF Freeing
  <2>3. Freeing' = {}
    BY <2>1, <2>2, MovedFreeing DEF Last
  <2>4. freed = 0
    BY <2>2 DEF Last
  <2> QED BY <2>1, <2>2, <2>3, <2>4 DEF Last, pool
<1>3. ASSUME NEW t \in Threads, AcquireNew(t) \/ AcquireIdle(t) PROVE Last'
  <2>1. PICK l \in {"run", "notify"} : Moved(t, l)
    BY <1>3, ReturnMoves, GotoMoves DEF AcquireNew, AcquireIdle, ArgValues
  <2>2. active /\ active' = active /\ freed' = freed /\ pc[t] # "free"
    BY <1>3 DEF AcquireNew, AcquireIdle, Empty
  <2> QED BY <2>1, <2>2, LastMoved
<1>4. ASSUME NEW t \in Threads, ReleaseStore(t) \/ FreeBuffer(t) PROVE Last'
  <2>1. PICK l \in {"run", "notify", "uncount"} : Moved(t, l)
    BY <1>4, SignalMoves, GotoMoves DEF ReleaseStore, FreeBuffer, ArgValues
  <2>2. UNCHANGED <<active, total, freed>> /\ pc[t] # "free"
    BY <1>4 DEF ReleaseStore, FreeBuffer, pool
  <2> QED BY <2>1, <2>2, LastMoved
<1>5. ASSUME NEW t \in Threads, ReleaseUncount(t) PROVE Last'
  <2>1. /\ pc[t] = "uncount" /\ total' = total - 1 /\ UNCHANGED <<active, freed>>
    BY <1>5 DEF ReleaseUncount
  <2>2. total > 0
    <3>1. t \in Uncounting
      BY <2>1 DEF Uncounting
    <3>2. Cardinality(Uncounting) # 0
      BY <3>1, Counted, FS_EmptySet
    <3>3. PICK m \in Nat : m = Cardinality(Uncounting)
      BY Counted
    <3>4. Count \in Nat
      BY CountType DEF Books
    <3> QED BY <3>2, <3>3, <3>4, Counted DEF Books, TotalCounts
  <2>3. Freeing = {} /\ freed = 0
    BY <1>0, <2>2 DEF Last
  <2>4. CASE ~active /\ total = 1
    <3>1. Moved(t, "free")
      BY <1>5, <2>4, GotoMoves DEF ReleaseUncount, ArgValues
    <3>2. Freeing' = {t}
      BY <2>3, <3>1, MovedFreeing
    <3> QED BY <2>1, <2>3, <2>4, <3>2 DEF Last
  <2>5. CASE ~(~active /\ total = 1)
    <3>1. Moved(t, "run")
      BY <1>5, <2>5, ReturnMoves DEF ReleaseUncount
    <3> QED BY <2>1, <2>2, <3>1, LastMoved
  <2> QED BY <2>4, <2>5
<1>6. ASSUME NEW t \in Threads, NEW b \in Buffers, Ref(t, b) \/ Unref(t, b) PROVE Last'
  <2>1. UNCHANGED pool /\ freed' = freed /\ pc[t] = "run"
    BY <1>6 DEF Ref, Unref
  <2>2. Freeing' = Freeing
    BY <1>6, <2>1 DEF Ref, Unref, Goto, Freeing, Books, TypeOK
  <2> QED BY <2>1, <2>2, LastKept DEF pool
<1>7. ASSUME NEW t \in Threads, Destroy(t) PROVE Last'
  <2>1. active /\ active' = FALSE /\ freed' = freed
    BY <1>7 DEF Destroy, MayDestroy
  <2>2. Freeing = {} /\ freed = 0
    BY <1>0, <2>1 DEF Last
  <2>3. PICK l \in {"run", "free"} : Moved(t, l) /\ (l = "free" => total' = 0)
    BY <1>7, BroadcastMoves DEF Destroy
  <2>4. Freeing' \subseteq {t} /\ (Freeing' # {} => total' = 0)
    BY <2>2, <2>3, MovedFreeing
  <2> QED BY <2>1, <2>2, <2>4 DEF Last
<1>8. ASSUME NEW t \in Threads, NEW c0 \in Config, pc[t] \in {"run", "size"},
             SetConfigTo(t, Norm(c0))
      PROVE  Last'
  <2>1. Moved(t, "run") /\ UNCHANGED <<active, freed>> /\ (~active /\ total = 0 => total' = 0)
    BY <1>8, SetConfigTotal
  <2> QED BY <1>8, <2>1, LastMoved
<1>9. ASSUME NEW t \in Threads, Prefill(t) PROVE Last'
  <2>1. /\ active /\ active' = active /\ freed' = freed /\ pc[t] = "run"
        /\ Broadcast(t, "run")
    BY <1>9 DEF Prefill
  <2> QED BY <2>1, BroadcastMoves, LastMoved
<1>10. ASSUME NEW t \in Threads, Drain(t) PROVE Last'
  <2>1. active /\ UNCHANGED <<active, freed, pc>>
    BY <1>10 DEF Drain
  <2> QED BY <2>1, LastKept DEF Freeing
<1>11. CASE UNCHANGED vars
  BY <1>11 DEF vars, pool, Last, Freeing
<1>12. ASSUME NEW t \in Threads, Control(t) PROVE Last'
  <2>1. ASSUME NEW c \in Configs, SetConfig(t, c) PROVE Last'
    BY <2>1, <1>8, PoolConstants DEF SetConfig
  <2>2. CASE WriteConfig(t)
    <3>1. arg[t] \in Config
      BY <2>2 DEF WriteConfig, Books, TypeOK
    <3> QED BY <2>2, <3>1, <1>8 DEF WriteConfig
  <2>3. ASSUME NEW q \in QueueCounts, ReadConfig(t, q) PROVE Last'
    <3>1. ~FreePool(t)
      BY <2>3 DEF ReadConfig, FreePool
    <3> QED BY <1>1, <2>3, <3>1 DEF Quiet
  <2> QED BY <1>7, <1>9, <1>10, <1>12, <2>1, <2>2, <2>3 DEF Control
<1>13. ASSUME NEW t \in Threads, Quiet(t) PROVE Last'
  BY <1>1, <1>2, <1>13
<1>14. ASSUME NEW t \in Threads, Proceed(t) PROVE Last'
  BY <1>3, <1>4, <1>5, <1>13, <1>14 DEF Proceed, Quiet
<1>15. ASSUME NEW t \in Acquirers, NEW w \in Waits, Acquire(t, w) PROVE Last'
  BY <1>13, <1>15, PoolConstants DEF Quiet
<1>16. ASSUME NEW t \in Threads, SpuriousWakeup(t) \/ Deadline(t) PROVE Last'
  BY <1>13, <1>16 DEF Quiet
<1> QED BY <1>6, <1>11, <1>12, <1>14, <1>15, <1>16, PoolConstants DEF Next

\* A destroyed pool is freed once, by the last of destroy and the releases
\* that race with it, and no buffer can reach it any more
\* (zst_buffer_pool.c:219-231, 246-265).
THEOREM PoolFreedLast == Spec => []PoolOutlivesBuffers
<1>1. Init => Books /\ Last
  <2>1. Init => Freeing = {}
    BY DEF Init, Freeing
  <2> QED BY <2>1, BooksInit DEF Init, Last
<1>2. Books /\ Last /\ [Next]_vars => Books' /\ Last'
  BY BooksStep, LastStep
<1>3. Books /\ Last => PoolOutlivesBuffers
  <2> SUFFICES ASSUME Books, Last, freed > 0 PROVE PoolOutlivesBuffers
    BY DEF PoolOutlivesBuffers
  <2>1. freed = 1 /\ Freeing = {} /\ total = 0
    BY DEF Last
  <2>2. PICK out \in Nat :
            /\ out = Cardinality(Held) + Cardinality(Releasing) + Cardinality(Uncounting)
            /\ total = Count + out
    BY Outside
  <2>3. out = 0
    BY <2>1, <2>2, CountType DEF Books
  <2>4. /\ Cardinality(Held) = 0 /\ Cardinality(Releasing) = 0
        /\ Cardinality(Uncounting) = 0
    BY <2>2, <2>3, Counted
  <2>5. Held = {} /\ Releasing = {} /\ Uncounting = {}
    BY <2>4, Counted, FS_EmptySet
  <2> QED BY <2>1, <2>5 DEF PoolOutlivesBuffers, Freeing
<1> QED BY <1>1, <1>2, <1>3, PTL DEF Spec

=============================================================================
