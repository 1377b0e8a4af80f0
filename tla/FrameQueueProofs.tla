-------------------------- MODULE FrameQueueProofs --------------------------
(***************************************************************************)
(* Proofs about FrameQueue: for every number of frames, every finite set   *)
(* of references and every content, an entry is in one place only, the     *)
(* reader counts are exact, a frame does not change while it is read, the  *)
(* pool is large enough, and the queue implements FrameExchange.           *)
(***************************************************************************)
EXTENDS FrameQueue, SequenceTheorems, FiniteSetTheorems, TLAPS

-----------------------------------------------------------------------------
(* The vectors.                                                            *)

\* What appending an element does to a sequence and to its set of elements.
LEMMA AppendElement ==
  ASSUME NEW S, NEW s \in Seq(S), NEW e \in S
  PROVE  /\ Append(s, e) \in Seq(S)
         /\ Len(Append(s, e)) = Len(s) + 1
         /\ \A i \in 1..Len(s) : Append(s, e)[i] = s[i]
         /\ Append(s, e)[Len(s) + 1] = e
         /\ ToSet(Append(s, e)) = ToSet(s) \cup {e}
         /\ NoRepeats(s) /\ e \notin ToSet(s) => NoRepeats(Append(s, e))
<1>1. /\ Append(s, e) \in Seq(S)
      /\ Len(Append(s, e)) = Len(s) + 1
      /\ \A i \in 1..Len(s) : Append(s, e)[i] = s[i]
      /\ Append(s, e)[Len(s) + 1] = e
  BY AppendProperties
<1>2. DOMAIN Append(s, e) = 1..(Len(s) + 1) /\ DOMAIN s = 1..Len(s) /\ Len(s) \in Nat
  BY <1>1, LenProperties
<1>3. ToSet(Append(s, e)) = ToSet(s) \cup {e}
  BY <1>1, <1>2 DEF ToSet
<1>4. NoRepeats(s) /\ e \notin ToSet(s) => NoRepeats(Append(s, e))
  BY <1>1, <1>2 DEF ToSet, NoRepeats
<1>. QED
  BY <1>1, <1>3, <1>4

\* What taking the last element away does.
LEMMA DropLast ==
  ASSUME NEW S, NEW s \in Seq(S), s # << >>
  PROVE  /\ Front(s) \in Seq(S)
         /\ Len(Front(s)) = Len(s) - 1
         /\ \A i \in 1..(Len(s) - 1) : Front(s)[i] = s[i]
         /\ Last(s) \in ToSet(s) /\ Last(s) = s[Len(s)]
         /\ NoRepeats(s) => /\ NoRepeats(Front(s))
                            /\ ToSet(Front(s)) = ToSet(s) \ {Last(s)}
<1>1. Len(s) \in Nat \ {0} /\ DOMAIN s = 1..Len(s) /\ s \in [1..Len(s) -> S]
  BY LenProperties, EmptySeq
<1>2. /\ Front(s) \in Seq(S)
      /\ Len(Front(s)) = Len(s) - 1
      /\ \A i \in 1..(Len(s) - 1) : Front(s)[i] = s[i]
  BY <1>1, SubSeqProperties DEF Front
<1>3. DOMAIN Front(s) = 1..(Len(s) - 1)
  BY <1>2, LenProperties
<1>4. Last(s) \in ToSet(s) /\ Last(s) = s[Len(s)]
  BY <1>1 DEF Last, ToSet
<1>5. ASSUME NoRepeats(s) PROVE NoRepeats(Front(s))
  BY <1>1, <1>2, <1>3, <1>5 DEF NoRepeats
<1>6. ASSUME NoRepeats(s) PROVE ToSet(Front(s)) = ToSet(s) \ {Last(s)}
  BY <1>1, <1>2, <1>3, <1>4, <1>6 DEF NoRepeats, ToSet
<1>. QED
  BY <1>2, <1>4, <1>5, <1>6

\* What erasing position k does.
LEMMA Erase ==
  ASSUME NEW S, NEW s \in Seq(S), NEW k \in 1..Len(s)
  PROVE  /\ RemoveAt(s, k) \in Seq(S)
         /\ Len(RemoveAt(s, k)) = Len(s) - 1
         /\ \A i \in 1..(Len(s) - 1) :
              RemoveAt(s, k)[i] = IF i < k THEN s[i] ELSE s[i + 1]
         /\ NoRepeats(s) => /\ NoRepeats(RemoveAt(s, k))
                            /\ ToSet(RemoveAt(s, k)) = ToSet(s) \ {s[k]}
<1>. DEFINE a == SubSeq(s, 1, k - 1)
            b == SubSeq(s, k + 1, Len(s))
<1>1. Len(s) \in Nat /\ DOMAIN s = 1..Len(s) /\ s \in [1..Len(s) -> S]
  BY LenProperties
<1>2. /\ a \in Seq(S) /\ Len(a) = k - 1
      /\ \A i \in 1..(k - 1) : a[i] = s[i]
  BY <1>1, SubSeqProperties
<1>3. /\ b \in Seq(S) /\ Len(b) = Len(s) - k
      /\ \A i \in 1..(Len(s) - k) : b[i] = s[i + k]
  BY SMT
<1>4. RemoveAt(s, k) = a \o b
  BY DEF RemoveAt
<1>. HIDE DEF a, b
<1>5. /\ a \o b \in Seq(S)
      /\ Len(a \o b) = Len(s) - 1
      /\ \A i \in 1..(Len(s) - 1) :
           (a \o b)[i] = IF i < k THEN s[i] ELSE s[i + 1]
  <2>1. /\ a \o b \in Seq(S)
        /\ Len(a \o b) = Len(a) + Len(b)
        /\ \A i \in 1..(Len(a) + Len(b)) :
             (a \o b)[i] = IF i <= Len(a) THEN a[i] ELSE b[i - Len(a)]
    BY <1>2, <1>3, ConcatProperties, Zenon
  <2>2. Len(a) + Len(b) = Len(s) - 1
    BY <1>1, <1>2, <1>3
  <2>3. ASSUME NEW i \in 1..(Len(s) - 1)
        PROVE  (a \o b)[i] = IF i < k THEN s[i] ELSE s[i + 1]
    <3>1. CASE i < k
      <4>1. i <= Len(a) /\ i \in 1..(k - 1) BY <3>1, <1>1, <1>2
      <4>. QED BY <4>1, <3>1, <2>1, <2>2, <1>2
    <3>2. CASE ~(i < k)
      <4>1. /\ ~(i <= Len(a))
            /\ i - Len(a) \in 1..(Len(s) - k)
            /\ (i - Len(a)) + k = i + 1
        BY <3>2, <1>1, <1>2
      <4>. QED BY <4>1, <3>2, <2>1, <2>2, <1>3
    <3>. QED BY <3>1, <3>2
  <2>. QED BY <2>1, <2>2, <2>3
<1>. DEFINE r == RemoveAt(s, k)
<1>6. /\ r \in Seq(S) /\ Len(r) = Len(s) - 1 /\ DOMAIN r = 1..(Len(s) - 1)
      /\ \A i \in 1..(Len(s) - 1) : r[i] = IF i < k THEN s[i] ELSE s[i + 1]
  BY <1>4, <1>5, LenProperties
<1>. HIDE DEF r
<1>7. ASSUME NoRepeats(s) PROVE NoRepeats(r)
  <2>. DEFINE old(i) == IF i < k THEN i ELSE i + 1
  <2>1. \A i \in DOMAIN r : old(i) \in DOMAIN s /\ r[i] = s[old(i)]
    BY <1>1, <1>6
  <2>2. ASSUME NEW i \in DOMAIN r, NEW j \in DOMAIN r, r[i] = r[j] PROVE i = j
    <3>1. old(i) = old(j)
      BY <2>1, <2>2, <1>7 DEF NoRepeats
    <3>. QED BY <3>1, <1>1, <1>6
  <2>. QED BY <2>2 DEF NoRepeats
<1>8. ASSUME NoRepeats(s) PROVE ToSet(r) = ToSet(s) \ {s[k]}
  <2>1. ASSUME NEW i \in DOMAIN r PROVE r[i] \in ToSet(s) /\ r[i] # s[k]
    BY <1>1, <1>6, <1>8 DEF NoRepeats, ToSet
  <2>2. ASSUME NEW i \in DOMAIN s, s[i] # s[k] PROVE s[i] \in ToSet(r)
    <3>1. CASE i < k
      BY <3>1, <1>1, <1>6 DEF ToSet
    <3>2. CASE i > k
      <4>1. i - 1 \in DOMAIN r /\ r[i - 1] = s[i]
        BY <3>2, <1>1, <1>6
      <4>. QED BY <4>1 DEF ToSet
    <3>. QED BY <3>1, <3>2, <2>2, <1>1
  <2>. QED BY <2>1, <2>2 DEF ToSet
<1>. QED
  BY <1>6, <1>7, <1>8 DEF r

\* Selecting all positions of a prefix yields the prefix.
LEMMA AtPrefix ==
  ASSUME NEW S, NEW s \in Seq(S), NEW n \in 0..Len(s)
  PROVE  At(s, 1..n) = [j \in 1..n |-> s[j]]
<1>1. n \in Nat
  BY LenProperties
<1>2. IsFiniteSet(1..n) /\ Cardinality(1..n) = n
  BY <1>1, FS_Interval
<1>3. ASSUME NEW i \in 1..n PROVE Rank(1..n, i) = i
  <2>1. {k \in 1..n : k <= i} = 1..i
    BY <1>1
  <2>2. Cardinality(1..i) = i
    BY <1>1, FS_Interval
  <2>. QED BY <2>1, <2>2, Zenon DEF Rank
<1>4. ASSUME NEW j \in 1..n PROVE Nth(1..n, j) = j
  BY <1>3, Zenon DEF Nth
<1>. QED
  BY <1>2, <1>4 DEF At

\* Selecting one position yields the element there, selecting none nothing.
LEMMA AtFew ==
  ASSUME NEW S, NEW s \in Seq(S)
  PROVE  /\ At(s, {}) = << >>
         /\ \A n \in 1..Len(s) : At(s, {n}) = <<s[n]>>
<1>1. At(s, {}) = << >>
  BY FS_EmptySet DEF At
<1>2. ASSUME NEW n \in 1..Len(s) PROVE At(s, {n}) = <<s[n]>>
  <2>1. Cardinality({n}) = 1
    BY FS_Singleton
  <2>2. Rank({n}, n) = 1
    <3>1. {k \in {n} : k <= n} = {n}
      BY LenProperties
    <3>. QED BY <2>1, <3>1, Zenon DEF Rank
  <2>3. Nth({n}, 1) = n
    BY <2>2, Zenon DEF Nth
  <2>4. At(s, {n}) = [j \in 1..1 |-> s[Nth({n}, j)]]
    BY <2>1 DEF At
  <2>5. \A j \in 1..1 : j = 1
    OBVIOUS
  <2>6. At(s, {n}) = [j \in 1..1 |-> s[n]]
    BY <2>3, <2>4, <2>5
  <2>. QED BY <2>6
<1>. QED
  BY <1>1, <1>2

-----------------------------------------------------------------------------
(* The inductive invariant.                                                *)

IInv == TypeOK /\ OnePlace /\ ReadersCounted /\ OnlyNewestUnread

\* What a commit takes out of m_readEntries: since only the newest published
\* frame can be without readers, at most that one.
LEMMA Eviction ==
  ASSUME TypeOK, OnlyNewestUnread
  PROVE  \/ /\ Evicted = << >>
            /\ Kept = readEntries
            /\ \A i \in DOMAIN readEntries : numReaders[readEntries[i]] > 0
         \/ /\ readEntries # << >>
            /\ numReaders[Last(readEntries)] <= 0
            /\ Evicted = <<Last(readEntries)>>
            /\ Kept = Front(readEntries)
<1>. DEFINE n == Len(readEntries)
<1>1. /\ n \in Nat
      /\ DOMAIN readEntries = 1..n
      /\ readEntries \in [1..n -> Frame]
      /\ \A i \in 1..n : numReaders[readEntries[i]] \in Int
  BY LenProperties DEF TypeOK
<1>2. CASE n = 0 \/ numReaders[readEntries[n]] > 0
  <2>1. \A i \in 1..n : numReaders[readEntries[i]] > 0
    BY <1>1, <1>2 DEF OnlyNewestUnread
  <2>2. StalePositions = {} /\ KeptPositions = 1..n
    BY <2>1, <1>1 DEF StalePositions, KeptPositions
  <2>3. Evicted = << >>
    BY <2>2, AtFew DEF Evicted, Reverse, TypeOK
  <2>4. Kept = [j \in 1..n |-> readEntries[j]]
    BY <2>2, <1>1, AtPrefix DEF Kept, TypeOK
  <2>. QED BY <2>1, <2>3, <2>4, <1>1
<1>3. CASE n > 0 /\ numReaders[readEntries[n]] <= 0
  <2>1. \A i \in 1..(n - 1) : numReaders[readEntries[i]] > 0
    BY <1>1 DEF OnlyNewestUnread
  <2>2. StalePositions = {n} /\ KeptPositions = 1..(n - 1)
    BY <2>1, <1>1, <1>3 DEF StalePositions, KeptPositions
  <2>3. Evicted = <<readEntries[n]>>
    <3>1. At(readEntries, StalePositions) = <<readEntries[n]>>
      <4>1. n \in 1..Len(readEntries) /\ readEntries \in Seq(Frame)
        BY <1>1, <1>3 DEF TypeOK
      <4>2. At(readEntries, {n}) = <<readEntries[n]>>
        BY <4>1, AtFew, Zenon
      <4>. QED BY <4>2, <2>2, Zenon
    <3>2. Reverse(<<readEntries[n]>>) = <<readEntries[n]>>
      BY DEF Reverse
    <3>. QED BY <3>1, <3>2, Zenon DEF Evicted
  <2>4. Kept = Front(readEntries)
    <3>1. Kept = [j \in 1..(n - 1) |-> readEntries[j]]
      <4>1. n - 1 \in 0..Len(readEntries) /\ readEntries \in Seq(Frame)
        BY <1>1, <1>3 DEF TypeOK
      <4>2. At(readEntries, 1..(n - 1)) = [j \in 1..(n - 1) |-> readEntries[j]]
        BY <4>1, AtPrefix, Zenon
      <4>. QED BY <4>2, <2>2, Zenon DEF Kept
    <3>2. Front(readEntries) = [j \in 1..(n - 1) |-> readEntries[j]]
      BY <1>1, <1>3 DEF Front, TypeOK
    <3>. QED BY <3>1, <3>2
  <2>5. readEntries # << >>
    BY <1>3, EmptySeq
  <2>. QED BY <2>3, <2>4, <2>5, <1>3 DEF Last
<1>. QED
  BY <1>1, <1>2, <1>3

\* What both commits do to the vectors.
LEMMA CommitVectors ==
  ASSUME IInv, NEW p \in Ptr, entry[p] # NoFrame, isWrite[p],
         idleEntries' = idleEntries \o Evicted,
         readEntries' = Append(Kept, entry[p])
  PROVE  /\ idleEntries' \in Seq(Frame) /\ readEntries' \in Seq(Frame)
         /\ NoRepeats(idleEntries') /\ NoRepeats(readEntries')
         /\ ToSet(idleEntries') \cap ToSet(readEntries') = {}
         /\ ToSet(idleEntries') \cup ToSet(readEntries')
              = ToSet(idleEntries) \cup ToSet(readEntries) \cup {entry[p]}
         /\ ToSet(readEntries') =
              {f \in ToSet(readEntries) : numReaders[f] > 0} \cup {entry[p]}
         /\ \A i \in 1..(Len(readEntries') - 1) : numReaders[readEntries'[i]] > 0
         /\ Len(readEntries') \in Nat \ {0}
         /\ readEntries'[Len(readEntries')] = entry[p]
<1>. DEFINE e == entry[p]
            last == Last(readEntries)
<1>1. /\ TypeOK
      /\ idleEntries \in Seq(Frame) /\ readEntries \in Seq(Frame)
      /\ numReaders \in [Frame -> Int]
      /\ e \in Frame
      /\ e \notin ToSet(idleEntries) /\ e \notin ToSet(readEntries)
      /\ NoRepeats(idleEntries) /\ NoRepeats(readEntries)
      /\ ToSet(idleEntries) \cap ToSet(readEntries) = {}
  BY DEF IInv, TypeOK, OnePlace
<1>2. CASE /\ Evicted = << >>
           /\ Kept = readEntries
           /\ \A i \in DOMAIN readEntries : numReaders[readEntries[i]] > 0
  <2>1. idleEntries' = idleEntries /\ readEntries' = Append(readEntries, e)
    BY <1>1, <1>2, ConcatEmptySeq
  <2>2. /\ readEntries' \in Seq(Frame)
        /\ Len(readEntries') = Len(readEntries) + 1
        /\ \A i \in 1..Len(readEntries) : readEntries'[i] = readEntries[i]
        /\ readEntries'[Len(readEntries) + 1] = e
        /\ ToSet(readEntries') = ToSet(readEntries) \cup {e}
        /\ NoRepeats(readEntries')
    BY <1>1, <2>1, AppendElement
  <2>3. Len(readEntries) \in Nat /\ DOMAIN readEntries = 1..Len(readEntries)
    BY <1>1, LenProperties
  <2>4. \A f \in ToSet(readEntries) : numReaders[f] > 0
    BY <1>2 DEF ToSet
  <2>5. \A i \in 1..(Len(readEntries') - 1) : numReaders[readEntries'[i]] > 0
    BY <1>2, <2>2, <2>3
  <2>. QED BY <1>1, <2>1, <2>2, <2>3, <2>4, <2>5
<1>3. CASE /\ readEntries # << >>
           /\ numReaders[last] <= 0
           /\ Evicted = <<last>>
           /\ Kept = Front(readEntries)
  <2>1. /\ Front(readEntries) \in Seq(Frame)
        /\ Len(Front(readEntries)) = Len(readEntries) - 1
        /\ \A i \in 1..(Len(readEntries) - 1) :
             Front(readEntries)[i] = readEntries[i]
        /\ last \in ToSet(readEntries) /\ last = readEntries[Len(readEntries)]
        /\ NoRepeats(Front(readEntries))
        /\ ToSet(Front(readEntries)) = ToSet(readEntries) \ {last}
    BY <1>1, <1>3, DropLast
  <2>2. /\ Len(readEntries) \in Nat \ {0}
        /\ DOMAIN readEntries = 1..Len(readEntries)
    BY <1>1, <1>3, LenProperties, EmptySeq
  <2>3. last \in Frame
    BY <1>1, <2>1, <2>2
  <2>4. idleEntries' = Append(idleEntries, last)
    BY <1>1, <1>3, <2>3, AppendIsConcat
  <2>5. /\ idleEntries' \in Seq(Frame)
        /\ ToSet(idleEntries') = ToSet(idleEntries) \cup {last}
        /\ NoRepeats(idleEntries')
    BY <1>1, <2>1, <2>3, <2>4, AppendElement
  <2>6. readEntries' = Append(Front(readEntries), e)
    BY <1>3
  <2>7. /\ readEntries' \in Seq(Frame)
        /\ Len(readEntries') = Len(readEntries)
        /\ \A i \in 1..(Len(readEntries) - 1) : readEntries'[i] = readEntries[i]
        /\ readEntries'[Len(readEntries)] = e
        /\ ToSet(readEntries') = (ToSet(readEntries) \ {last}) \cup {e}
        /\ NoRepeats(readEntries')
    BY <1>1, <2>1, <2>2, <2>6, AppendElement
  <2>8. \A i \in 1..(Len(readEntries) - 1) : numReaders[readEntries[i]] > 0
    BY <2>2 DEF IInv, OnlyNewestUnread
  <2>9. \A f \in ToSet(readEntries) : numReaders[f] > 0 <=> f # last
    <3>1. ~(numReaders[last] > 0)
      BY <1>1, <1>3, <2>3
    <3>2. ASSUME NEW f \in ToSet(readEntries), f # last PROVE numReaders[f] > 0
      <4>1. PICK i \in 1..Len(readEntries) : f = readEntries[i]
        BY <2>2 DEF ToSet
      <4>2. i \in 1..(Len(readEntries) - 1)
        BY <2>1, <2>2, <3>2, <4>1
      <4>. QED BY <2>8, <4>1, <4>2
    <3>. QED BY <3>1, <3>2
  <2>10. {f \in ToSet(readEntries) : numReaders[f] > 0} = ToSet(readEntries) \ {last}
    BY <2>9
  <2>11. /\ ToSet(idleEntries') \cap ToSet(readEntries') = {}
         /\ ToSet(idleEntries') \cup ToSet(readEntries')
              = ToSet(idleEntries) \cup ToSet(readEntries) \cup {e}
    BY <1>1, <2>1, <2>5, <2>7
  <2>12. \A i \in 1..(Len(readEntries') - 1) : numReaders[readEntries'[i]] > 0
    BY <2>2, <2>7, <2>8
  <2>. QED BY <2>2, <2>5, <2>7, <2>10, <2>11, <2>12
<1>. QED
  BY <1>1, <1>2, <1>3, Eviction DEF IInv

\* The references to a frame form a finite set.
LEMMA ReadersFinite ==
  \A f \in Frame : /\ IsFiniteSet(Readers(f))
                   /\ Cardinality(Readers(f)) \in Nat
                   /\ Cardinality(Readers(f)) = 0 <=> Readers(f) = {}
<1>. TAKE f \in Frame
<1>1. Readers(f) \in SUBSET Ptr
  BY DEF Readers
<1>2. IsFiniteSet(Readers(f))
  BY <1>1, PtrAssumption, FS_Subset
<1>. QED
  BY <1>2, FS_CardinalityType, FS_EmptySet

-----------------------------------------------------------------------------
(* Each operation preserves the invariant.                                 *)

LEMMA InitIInv == Init => IInv
<1>. SUFFICES ASSUME Init PROVE IInv
  OBVIOUS
<1>1. NumFrames \in Nat
  BY NumFramesAssumption
<1>2. /\ idleEntries \in Seq(Frame)
      /\ Len(idleEntries) = NumFrames
      /\ DOMAIN idleEntries = Frame
      /\ \A i \in Frame : idleEntries[i] = i
  BY <1>1 DEF Init, Frame
<1>3. readEntries \in Seq(Frame) /\ DOMAIN readEntries = {} /\ Len(readEntries) = 0
  BY DEF Init
<1>4. TypeOK
  BY <1>2, <1>3 DEF Init, TypeOK
<1>5. ToSet(idleEntries) = Frame /\ ToSet(readEntries) = {}
  BY <1>2, <1>3 DEF ToSet
<1>6. OnePlace
  BY <1>2, <1>3, <1>5 DEF Init, OnePlace, NoRepeats, NoFrame
<1>7. ReadersCounted
  <2>1. \A f \in Frame : Readers(f) = {}
    BY DEF Init, Readers, Frame, NoFrame
  <2>. QED BY <2>1, FS_EmptySet DEF Init, ReadersCounted
<1>8. OnlyNewestUnread
  BY <1>3 DEF OnlyNewestUnread
<1>. QED
  BY <1>4, <1>6, <1>7, <1>8 DEF IInv

LEMMA AcquireReadIInv ==
  ASSUME IInv, NEW p \in Ptr, AcquireRead(p)
  PROVE  IInv'
<1>. DEFINE last == Last(readEntries)
<1>1. /\ TypeOK /\ OnePlace /\ ReadersCounted /\ OnlyNewestUnread
      /\ readEntries # << >> /\ readEntries \in Seq(Frame)
  BY DEF IInv, AcquireRead, TypeOK
<1>2. last \in ToSet(readEntries) /\ last \in Frame
  <2>1. last \in ToSet(readEntries)
    BY <1>1, DropLast
  <2>. QED BY <2>1, <1>1, LenProperties DEF ToSet
<1>3. ~isWrite[p] /\ entry[p] = NoFrame /\ NoFrame \notin Frame
  BY <1>1 DEF OnePlace, AcquireRead, NoFrame, Frame
<1>4. TypeOK'
  BY <1>1, <1>2 DEF TypeOK, AcquireRead
<1>5. OnePlace'
  BY <1>1, <1>3 DEF OnePlace, AcquireRead, TypeOK
<1>6. ReadersCounted'
  <2>1. ASSUME NEW f \in Frame PROVE numReaders'[f] = Cardinality(Readers(f)')
    <3>1. CASE f = last
      <4>1. Readers(f)' = Readers(f) \cup {p} /\ p \notin Readers(f)
        BY <1>1, <1>2, <1>3, <3>1 DEF Readers, AcquireRead, TypeOK
      <4>2. Cardinality(Readers(f)') = Cardinality(Readers(f)) + 1
        BY <4>1, ReadersFinite, FS_AddElement
      <4>. QED BY <1>1, <1>2, <3>1, <4>2 DEF ReadersCounted, AcquireRead, TypeOK
    <3>2. CASE f # last
      <4>1. Readers(f)' = Readers(f)
        BY <1>1, <1>2, <1>3, <3>2 DEF Readers, AcquireRead, TypeOK
      <4>. QED BY <1>1, <1>2, <3>2, <4>1 DEF ReadersCounted, AcquireRead, TypeOK
    <3>. QED BY <3>1, <3>2
  <2>2. ASSUME NEW q \in Ptr, entry'[q] # NoFrame, ~isWrite'[q]
        PROVE  entry'[q] \in ToSet(readEntries')
    BY <1>1, <1>2, <2>2 DEF ReadersCounted, AcquireRead, TypeOK
  <2>. QED BY <2>1, <2>2 DEF ReadersCounted
<1>7. OnlyNewestUnread'
  <2>1. \A i \in DOMAIN readEntries : readEntries[i] \in Frame
    BY <1>1, LenProperties
  <2>. QED BY <1>1, <1>2, <2>1 DEF OnlyNewestUnread, AcquireRead, TypeOK
<1>. QED
  BY <1>4, <1>5, <1>6, <1>7 DEF IInv

LEMMA AcquireWriteIInv ==
  ASSUME IInv, NEW p \in Ptr, AcquireWrite(p)
  PROVE  IInv'
<1>. DEFINE last == Last(idleEntries)
<1>1. /\ TypeOK /\ OnePlace /\ ReadersCounted /\ OnlyNewestUnread
      /\ idleEntries # << >> /\ idleEntries \in Seq(Frame)
      /\ NoRepeats(idleEntries)
  BY DEF IInv, AcquireWrite, TypeOK, OnePlace
<1>2. /\ Front(idleEntries) \in Seq(Frame)
      /\ last \in ToSet(idleEntries)
      /\ NoRepeats(Front(idleEntries))
      /\ ToSet(Front(idleEntries)) = ToSet(idleEntries) \ {last}
  BY <1>1, DropLast
<1>3. last \in Frame
  BY <1>1, <1>2, LenProperties DEF ToSet
<1>4. ~isWrite[p] /\ entry[p] = NoFrame /\ NoFrame \notin Frame
  BY <1>1 DEF OnePlace, AcquireWrite, NoFrame, Frame
<1>5. TypeOK'
  BY <1>1, <1>2, <1>3 DEF TypeOK, AcquireWrite
<1>6. OnePlace'
  BY <1>1, <1>2, <1>3, <1>4 DEF OnePlace, AcquireWrite, TypeOK
<1>7. ReadersCounted'
  <2>1. \A f \in Frame : Readers(f)' = Readers(f)
    BY <1>1, <1>4 DEF Readers, AcquireWrite, TypeOK
  <2>2. ASSUME NEW q \in Ptr, entry'[q] # NoFrame, ~isWrite'[q]
        PROVE  entry'[q] \in ToSet(readEntries')
    BY <1>1, <2>2 DEF ReadersCounted, AcquireWrite, TypeOK
  <2>. QED BY <1>1, <2>1, <2>2 DEF ReadersCounted, AcquireWrite
<1>8. OnlyNewestUnread'
  BY <1>1 DEF OnlyNewestUnread, AcquireWrite
<1>. QED
  BY <1>5, <1>6, <1>7, <1>8 DEF IInv

LEMMA WriteFrameIInv ==
  ASSUME IInv, NEW p \in Ptr, WriteFrame(p)
  PROVE  IInv'
<1>1. TypeOK'
  BY DEF IInv, TypeOK, WriteFrame
<1>2. OnePlace' /\ ReadersCounted' /\ OnlyNewestUnread'
  BY DEF IInv, OnePlace, ReadersCounted, OnlyNewestUnread, Readers, WriteFrame
<1>. QED
  BY <1>1, <1>2 DEF IInv

LEMMA CommitWriteIInv ==
  ASSUME IInv, NEW p \in Ptr, CommitWrite(p)
  PROVE  IInv'
<1>1. /\ TypeOK /\ OnePlace /\ ReadersCounted /\ OnlyNewestUnread
      /\ entry[p] # NoFrame /\ isWrite[p] /\ entry[p] \in Frame
      /\ numReaders \in [Frame -> Int]
  BY DEF IInv, CommitWrite, TypeOK
<1>2. /\ idleEntries' \in Seq(Frame) /\ readEntries' \in Seq(Frame)
      /\ NoRepeats(idleEntries') /\ NoRepeats(readEntries')
      /\ ToSet(idleEntries') \cap ToSet(readEntries') = {}
      /\ ToSet(idleEntries') \cup ToSet(readEntries')
           = ToSet(idleEntries) \cup ToSet(readEntries) \cup {entry[p]}
      /\ ToSet(readEntries') =
           {f \in ToSet(readEntries) : numReaders[f] > 0} \cup {entry[p]}
      /\ \A i \in 1..(Len(readEntries') - 1) : numReaders[readEntries'[i]] > 0
      /\ Len(readEntries') \in Nat \ {0}
  BY CommitVectors, <1>1 DEF CommitWrite
<1>3. TypeOK'
  BY <1>1, <1>2 DEF TypeOK, CommitWrite, Drop
<1>4. /\ isWrite' = [isWrite EXCEPT ![p] = FALSE]
      /\ entry' = [entry EXCEPT ![p] = NoFrame]
      /\ numReaders' = numReaders
  BY DEF CommitWrite, Drop
<1>5. OnePlace'
  BY <1>1, <1>2, <1>4 DEF OnePlace, TypeOK
<1>6. ReadersCounted'
  <2>1. ASSUME NEW f \in Frame PROVE Readers(f)' = Readers(f)
    BY <1>1, <1>4, NoFrame \notin Frame DEF Readers, TypeOK, NoFrame, Frame
  <2>2. ASSUME NEW q \in Ptr, entry'[q] # NoFrame, ~isWrite'[q]
        PROVE  entry'[q] \in ToSet(readEntries')
    <3>1. /\ q # p /\ entry'[q] = entry[q] /\ ~isWrite[q] /\ entry[q] \in Frame
          /\ entry[q] \in ToSet(readEntries)
      BY <1>1, <1>4, <2>2 DEF TypeOK, ReadersCounted
    <3>2. q \in Readers(entry[q])
      BY <3>1 DEF Readers
    <3>3. numReaders[entry[q]] > 0
      BY <1>1, <3>1, <3>2, ReadersFinite DEF ReadersCounted
    <3>. QED BY <1>2, <3>1, <3>3
  <2>. QED BY <1>1, <1>4, <2>1, <2>2 DEF ReadersCounted
<1>7. OnlyNewestUnread'
  BY <1>2, <1>4, LenProperties DEF OnlyNewestUnread
<1>. QED
  BY <1>3, <1>5, <1>6, <1>7 DEF IInv

LEMMA CommitWriteAndAcquireReadIInv ==
  ASSUME IInv, NEW p \in Ptr, CommitWriteAndAcquireRead(p)
  PROVE  IInv'
<1>. DEFINE e == entry[p]
<1>1. /\ TypeOK /\ OnePlace /\ ReadersCounted /\ OnlyNewestUnread
      /\ e # NoFrame /\ isWrite[p] /\ e \in Frame
      /\ numReaders \in [Frame -> Int]
  BY DEF IInv, CommitWriteAndAcquireRead, TypeOK
<1>2. /\ idleEntries' \in Seq(Frame) /\ readEntries' \in Seq(Frame)
      /\ NoRepeats(idleEntries') /\ NoRepeats(readEntries')
      /\ ToSet(idleEntries') \cap ToSet(readEntries') = {}
      /\ ToSet(idleEntries') \cup ToSet(readEntries')
           = ToSet(idleEntries) \cup ToSet(readEntries) \cup {e}
      /\ ToSet(readEntries') =
           {f \in ToSet(readEntries) : numReaders[f] > 0} \cup {e}
      /\ \A i \in 1..(Len(readEntries') - 1) : numReaders[readEntries'[i]] > 0
      /\ Len(readEntries') \in Nat \ {0}
  BY CommitVectors, <1>1 DEF CommitWriteAndAcquireRead
<1>3. /\ isWrite' = [isWrite EXCEPT ![p] = FALSE]
      /\ entry' = entry
      /\ numReaders' = [numReaders EXCEPT ![e] = @ + 1]
  BY DEF CommitWriteAndAcquireRead
<1>4. TypeOK'
  BY <1>1, <1>2, <1>3 DEF TypeOK, CommitWriteAndAcquireRead
<1>5. OnePlace'
  BY <1>1, <1>2, <1>3 DEF OnePlace, TypeOK
<1>6. ReadersCounted'
  <2>1. ASSUME NEW f \in Frame PROVE numReaders'[f] = Cardinality(Readers(f)')
    <3>1. CASE f = e
      <4>1. Readers(f)' = Readers(f) \cup {p} /\ p \notin Readers(f)
        BY <1>1, <1>3, <3>1 DEF Readers, TypeOK
      <4>2. Cardinality(Readers(f)') = Cardinality(Readers(f)) + 1
        BY <4>1, ReadersFinite, FS_AddElement
      <4>. QED BY <1>1, <1>3, <3>1, <4>2 DEF ReadersCounted
    <3>2. CASE f # e
      <4>1. Readers(f)' = Readers(f)
        BY <1>1, <1>3, <3>2 DEF Readers, TypeOK
      <4>. QED BY <1>1, <1>3, <3>2, <4>1 DEF ReadersCounted
    <3>. QED BY <3>1, <3>2
  <2>2. ASSUME NEW q \in Ptr, entry'[q] # NoFrame, ~isWrite'[q]
        PROVE  entry'[q] \in ToSet(readEntries')
    <3>1. CASE q = p
      BY <1>2, <1>3, <3>1
    <3>2. CASE q # p
      <4>1. /\ entry'[q] = entry[q] /\ ~isWrite[q] /\ entry[q] \in Frame
            /\ entry[q] \in ToSet(readEntries)
        BY <1>1, <1>3, <2>2, <3>2 DEF TypeOK, ReadersCounted
      <4>2. q \in Readers(entry[q])
        BY <4>1 DEF Readers
      <4>3. numReaders[entry[q]] > 0
        BY <1>1, <4>1, <4>2, ReadersFinite DEF ReadersCounted
      <4>. QED BY <1>2, <4>1, <4>3
    <3>. QED BY <3>1, <3>2
  <2>. QED BY <2>1, <2>2 DEF ReadersCounted
<1>7. OnlyNewestUnread'
  <2>1. \A i \in 1..Len(readEntries') : readEntries'[i] \in Frame
    BY <1>2, LenProperties
  <2>. QED BY <1>1, <1>2, <1>3, <2>1, LenProperties DEF OnlyNewestUnread
<1>. QED
  BY <1>4, <1>5, <1>6, <1>7 DEF IInv

LEMMA RescindIInv ==
  ASSUME IInv, NEW p \in Ptr, Destroy(p), isWrite[p]
  PROVE  IInv'
<1>. DEFINE e == entry[p]
<1>1. /\ TypeOK /\ OnePlace /\ ReadersCounted /\ OnlyNewestUnread
      /\ e # NoFrame /\ e \in Frame /\ e \notin ToSet(idleEntries)
      /\ idleEntries \in Seq(Frame) /\ NoRepeats(idleEntries)
  BY DEF IInv, Destroy, TypeOK, OnePlace
<1>2. /\ idleEntries' = Append(idleEntries, e)
      /\ readEntries' = readEntries /\ numReaders' = numReaders
      /\ entry' = [entry EXCEPT ![p] = NoFrame]
      /\ isWrite' = [isWrite EXCEPT ![p] = FALSE]
      /\ content' = content
  BY DEF Destroy, RescindWrite, Drop
<1>3. /\ idleEntries' \in Seq(Frame)
      /\ NoRepeats(idleEntries')
      /\ ToSet(idleEntries') = ToSet(idleEntries) \cup {e}
  BY <1>1, <1>2, AppendElement
<1>4. TypeOK'
  BY <1>1, <1>2, <1>3 DEF TypeOK
<1>5. OnePlace'
  BY <1>1, <1>2, <1>3 DEF OnePlace, TypeOK
<1>6. ReadersCounted'
  <2>1. \A f \in Frame : Readers(f)' = Readers(f)
    BY <1>1, <1>2, NoFrame \notin Frame DEF Readers, TypeOK, NoFrame, Frame
  <2>. QED BY <1>1, <1>2, <2>1 DEF ReadersCounted, TypeOK
<1>7. OnlyNewestUnread'
  BY <1>1, <1>2 DEF OnlyNewestUnread
<1>. QED
  BY <1>4, <1>5, <1>6, <1>7 DEF IInv

\* How the release of a read changes the vectors and the count.
LEMMA ReleaseEffect ==
  ASSUME IInv, NEW p \in Ptr, Destroy(p), ~isWrite[p]
  PROVE  LET e == entry[p] IN
         /\ e \in Frame /\ e \in ToSet(readEntries) /\ numReaders[e] >= 1
         /\ numReaders' = [numReaders EXCEPT ![e] = @ - 1]
         /\ entry' = [entry EXCEPT ![p] = NoFrame]
         /\ isWrite' = isWrite
         /\ content' = content
         /\ \/ /\ Len(readEntries) = 1 \/ numReaders[e] > 1
               /\ UNCHANGED <<idleEntries, readEntries>>
            \/ /\ Len(readEntries) > 1 /\ numReaders[e] = 1
               /\ idleEntries' = Append(idleEntries, e)
               /\ \E i \in 1..Len(readEntries) :
                    readEntries[i] = e /\ readEntries' = RemoveAt(readEntries, i)
<1>. DEFINE e == entry[p]
<1>1. /\ TypeOK /\ OnePlace /\ ReadersCounted
      /\ e # NoFrame /\ e \in Frame /\ e \in ToSet(readEntries)
      /\ numReaders \in [Frame -> Int] /\ readEntries \in Seq(Frame)
  BY DEF IInv, Destroy, TypeOK, ReadersCounted
<1>2. numReaders[e] >= 1
  <2>1. p \in Readers(e)
    BY DEF Readers
  <2>. QED BY <1>1, <2>1, ReadersFinite DEF ReadersCounted
<1>3. Len(readEntries) \in Nat \ {0} /\ DOMAIN readEntries = 1..Len(readEntries)
  BY <1>1, LenProperties DEF ToSet
<1>4. PICK i \in DOMAIN readEntries :
        /\ readEntries[i] = e
        /\ numReaders' = [numReaders EXCEPT ![e] = @ - 1]
        /\ IF Len(readEntries) > 1 /\ numReaders[e] - 1 <= 0
           THEN /\ idleEntries' = Append(idleEntries, e)
                /\ readEntries' = RemoveAt(readEntries, i)
           ELSE UNCHANGED <<idleEntries, readEntries>>
  BY <1>1 DEF Destroy, ReleaseRead
<1>5. /\ entry' = [entry EXCEPT ![p] = NoFrame]
      /\ isWrite' = isWrite
      /\ content' = content
  BY <1>1 DEF Destroy, Drop, TypeOK
<1>6. CASE Len(readEntries) > 1 /\ numReaders[e] - 1 <= 0
  <2>1. numReaders[e] = 1
    BY <1>1, <1>2, <1>6
  <2>. QED BY <1>1, <1>2, <1>3, <1>4, <1>5, <1>6, <2>1
<1>7. CASE ~(Len(readEntries) > 1 /\ numReaders[e] - 1 <= 0)
  <2>1. Len(readEntries) = 1 \/ numReaders[e] > 1
    BY <1>1, <1>2, <1>3, <1>7
  <2>. QED BY <1>1, <1>2, <1>4, <1>5, <1>7, <2>1
<1>. QED
  BY <1>6, <1>7

LEMMA ReleaseIInv ==
  ASSUME IInv, NEW p \in Ptr, Destroy(p), ~isWrite[p]
  PROVE  IInv'
<1>. PICK e \in Frame : e = entry[p]
  BY ReleaseEffect
<1>1. /\ TypeOK /\ OnePlace /\ ReadersCounted /\ OnlyNewestUnread
      /\ numReaders \in [Frame -> Int]
      /\ idleEntries \in Seq(Frame) /\ readEntries \in Seq(Frame)
      /\ NoRepeats(idleEntries) /\ NoRepeats(readEntries)
      /\ ToSet(idleEntries) \cap ToSet(readEntries) = {}
      /\ NoFrame \notin Frame
  BY DEF IInv, TypeOK, OnePlace, NoFrame, Frame
<1>2. /\ e \in Frame /\ e \in ToSet(readEntries) /\ numReaders[e] >= 1
      /\ numReaders' = [numReaders EXCEPT ![e] = @ - 1]
      /\ entry' = [entry EXCEPT ![p] = NoFrame]
      /\ isWrite' = isWrite /\ content' = content
  BY ReleaseEffect
<1>3. Len(readEntries) \in Nat /\ DOMAIN readEntries = 1..Len(readEntries)
  BY <1>1, LenProperties
<1>4. \A f \in Frame : numReaders'[f] = Cardinality(Readers(f)')
  <2>. TAKE f \in Frame
  <2>1. CASE f = e
    <3>1. Readers(f)' = Readers(f) \ {p} /\ p \in Readers(f)
      BY <1>1, <1>2, <2>1 DEF Readers, TypeOK
    <3>2. Cardinality(Readers(f)') = Cardinality(Readers(f)) - 1
      BY <3>1, ReadersFinite, FS_RemoveElement
    <3>. QED BY <1>1, <1>2, <2>1, <3>2 DEF ReadersCounted
  <2>2. CASE f # e
    <3>1. Readers(f)' = Readers(f)
      BY <1>1, <1>2, <2>2 DEF Readers, TypeOK
    <3>. QED BY <1>1, <1>2, <2>2, <3>1 DEF ReadersCounted
  <2>. QED BY <2>1, <2>2
<1>5. CASE /\ Len(readEntries) = 1 \/ numReaders[e] > 1
           /\ UNCHANGED <<idleEntries, readEntries>>
  <2>1. TypeOK'
    BY <1>1, <1>2, <1>5 DEF TypeOK
  <2>2. OnePlace'
    BY <1>1, <1>2, <1>5 DEF OnePlace, TypeOK
  <2>3. ReadersCounted'
    BY <1>1, <1>2, <1>4, <1>5 DEF ReadersCounted, TypeOK
  <2>4. OnlyNewestUnread'
    <3>1. \A i \in 1..Len(readEntries) : readEntries[i] \in Frame
      BY <1>1, <1>3
    <3>2. CASE Len(readEntries) = 1
      BY <1>3, <1>5, <3>2 DEF OnlyNewestUnread
    <3>3. CASE numReaders[e] > 1
      <4>1. \A f \in Frame : numReaders[f] > 0 => numReaders'[f] > 0
        BY <1>1, <1>2, <3>3
      <4>. QED BY <1>1, <1>3, <1>5, <3>1, <4>1 DEF OnlyNewestUnread
    <3>. QED BY <1>5, <3>2, <3>3
  <2>. QED BY <2>1, <2>2, <2>3, <2>4 DEF IInv
<1>6. CASE /\ Len(readEntries) > 1 /\ numReaders[e] = 1
           /\ idleEntries' = Append(idleEntries, e)
           /\ \E i \in 1..Len(readEntries) :
                readEntries[i] = e /\ readEntries' = RemoveAt(readEntries, i)
  <2>1. PICK k \in 1..Len(readEntries) :
          readEntries[k] = e /\ readEntries' = RemoveAt(readEntries, k)
    BY <1>6
  <2>2. /\ readEntries' \in Seq(Frame)
        /\ Len(readEntries') = Len(readEntries) - 1
        /\ \A i \in 1..(Len(readEntries) - 1) :
             readEntries'[i] = IF i < k THEN readEntries[i] ELSE readEntries[i + 1]
        /\ NoRepeats(readEntries')
        /\ ToSet(readEntries') = ToSet(readEntries) \ {e}
    <3>1. NoRepeats(RemoveAt(readEntries, k))
          /\ ToSet(RemoveAt(readEntries, k)) = ToSet(readEntries) \ {readEntries[k]}
      BY <1>1, Erase
    <3>. QED BY <1>1, <2>1, <3>1, Erase
  <2>3. /\ idleEntries' \in Seq(Frame)
        /\ NoRepeats(idleEntries')
        /\ ToSet(idleEntries') = ToSet(idleEntries) \cup {e}
    BY <1>1, <1>2, <1>6, AppendElement
  <2>4. TypeOK'
    BY <1>1, <1>2, <2>2, <2>3 DEF TypeOK
  <2>5. OnePlace'
    BY <1>1, <1>2, <2>2, <2>3 DEF OnePlace, TypeOK
  <2>6. ReadersCounted'
    <3>1. ASSUME NEW q \in Ptr, entry'[q] # NoFrame, ~isWrite'[q]
          PROVE  entry'[q] \in ToSet(readEntries')
      <4>1. /\ q # p /\ entry'[q] = entry[q] /\ ~isWrite[q] /\ entry[q] \in Frame
            /\ entry[q] \in ToSet(readEntries)
        BY <1>1, <1>2, <3>1 DEF TypeOK, ReadersCounted
      <4>2. entry[q] # e
        <5>1. SUFFICES ASSUME entry[q] = e PROVE FALSE
          OBVIOUS
        <5>2. q \in Readers(e)' /\ e \in Frame
          BY <1>1, <1>2, <3>1, <4>1, <5>1 DEF Readers
        <5>3. numReaders'[e] = 0
          BY <1>1, <1>2, <1>6
        <5>4. IsFiniteSet(Readers(e)')
          <6>1. Readers(e)' \in SUBSET Ptr
            BY DEF Readers
          <6>. QED BY <6>1, PtrAssumption, FS_Subset
        <5>. QED BY <1>4, <5>2, <5>3, <5>4, FS_EmptySet
      <4>. QED BY <2>2, <4>1, <4>2
    <3>. QED BY <1>4, <3>1 DEF ReadersCounted
  <2>7. OnlyNewestUnread'
    <3>1. DOMAIN readEntries' = 1..(Len(readEntries) - 1)
      BY <2>2, LenProperties
    <3>2. ASSUME NEW i \in 1..(Len(readEntries) - 2)
          PROVE  numReaders'[readEntries'[i]] > 0
      <4>1. PICK j \in 1..(Len(readEntries) - 1) :
              readEntries'[i] = readEntries[j] /\ j # k
        <5>1. CASE i < k
          BY <1>3, <2>2, <5>1, SMTT(30)
        <5>2. CASE ~(i < k)
          <6>1. i + 1 \in 1..(Len(readEntries) - 1) /\ i + 1 # k
            BY <1>3, <5>2
          <6>. QED BY <1>3, <2>2, <5>2, <6>1, SMTT(30)
        <5>. QED BY <5>1, <5>2
      <4>2. j \in DOMAIN readEntries /\ k \in DOMAIN readEntries /\ j < Len(readEntries)
        BY <1>3
      <4>3. readEntries[j] # e /\ readEntries[j] \in Frame
        BY <1>1, <1>3, <2>1, <4>1, <4>2 DEF NoRepeats
      <4>4. numReaders[readEntries[j]] > 0
        BY <1>1, <4>2 DEF OnlyNewestUnread
      <4>. QED BY <1>1, <1>2, <4>1, <4>3, <4>4
    <3>. QED BY <1>3, <2>2, <3>1, <3>2 DEF OnlyNewestUnread
  <2>. QED BY <2>4, <2>5, <2>6, <2>7 DEF IInv
<1>. QED
  BY <1>5, <1>6, ReleaseEffect

LEMMA DestroyIInv ==
  ASSUME IInv, NEW p \in Ptr, Destroy(p)
  PROVE  IInv'
BY RescindIInv, ReleaseIInv

LEMMA NextIInv == IInv /\ [Next]_vars => IInv'
<1>. SUFFICES ASSUME IInv, [Next]_vars PROVE IInv'
  OBVIOUS
<1>1. CASE UNCHANGED vars
  BY <1>1 DEF IInv, TypeOK, OnePlace, ReadersCounted, OnlyNewestUnread, Readers, vars
<1>2. CASE Next
  BY <1>2, AcquireReadIInv, AcquireWriteIInv, WriteFrameIInv, CommitWriteIInv,
     CommitWriteAndAcquireReadIInv, DestroyIInv DEF Next
<1>. QED
  BY <1>1, <1>2

-----------------------------------------------------------------------------
(* The invariants.                                                         *)

\* The invariant holds in every reachable state.
THEOREM Invariance == Spec => []IInv
BY InitIInv, NextIInv, PTL DEF Spec

\* The variables of the queue keep their types.
THEOREM TypeCorrect == Spec => []TypeOK
<1>1. IInv => TypeOK
  BY DEF IInv
<1>. QED
  BY <1>1, Invariance, PTL

\* FrameQueue never loses a frame, never has it in two places, and never
\* gives it to two writers.
THEOREM FramesInOnePlace == Spec => []OnePlace
<1>1. IInv => OnePlace
  BY DEF IInv
<1>. QED
  BY <1>1, Invariance, PTL

\* NumReaders counts the references that read a frame, and a frame that is
\* read is published.
THEOREM CountsAreExact == Spec => []ReadersCounted
<1>1. IInv => ReadersCounted
  BY DEF IInv
<1>. QED
  BY <1>1, Invariance, PTL

\* Only the newest published frame can be without readers.
THEOREM NothingStaleKept == Spec => []OnlyNewestUnread
<1>1. IInv => OnlyNewestUnread
  BY DEF IInv
<1>. QED
  BY <1>1, Invariance, PTL

\* A pool with two frames more than are referenced always has one to write.
LEMMA IdleWhileSpare == IInv => WriterFindsFrame
<1>. SUFFICES ASSUME IInv, idleEntries = << >>
              PROVE  ~(Cardinality(Referenced) + 1 < NumFrames)
  BY DEF WriterFindsFrame
<1>1. /\ TypeOK /\ OnePlace /\ ReadersCounted /\ OnlyNewestUnread
      /\ readEntries \in Seq(Frame) /\ ToSet(idleEntries) = {}
  BY DEF IInv, TypeOK, ToSet
<1>2. IsFiniteSet(Frame) /\ Cardinality(Frame) = NumFrames /\ NumFrames \in Nat
  BY NumFramesAssumption, FS_Interval DEF Frame
<1>3. Referenced \in SUBSET Frame
  BY <1>1 DEF Referenced, TypeOK
<1>4. IsFiniteSet(Referenced) /\ Cardinality(Referenced) \in Nat
  BY <1>2, <1>3, FS_Subset, FS_CardinalityType
<1>. DEFINE last == Last(readEntries)
            R == Referenced \cup {last}
<1>5. Frame \subseteq R
  <2>. SUFFICES ASSUME NEW f \in Frame, f # last PROVE f \in Referenced
    OBVIOUS
  <2>1. CASE f \in ToSet(readEntries)
    <3>1. PICK i \in 1..Len(readEntries) : f = readEntries[i]
      BY <1>1, <2>1, LenProperties DEF ToSet
    <3>2. i < Len(readEntries) /\ i \in DOMAIN readEntries
      BY <1>1, <3>1, LenProperties DEF Last
    <3>3. numReaders[f] > 0
      BY <1>1, <3>1, <3>2 DEF OnlyNewestUnread
    <3>4. Readers(f) # {}
      BY <1>1, <3>3, ReadersFinite DEF ReadersCounted
    <3>. QED BY <3>4 DEF Readers, Referenced, NoFrame, Frame
  <2>2. CASE f \notin ToSet(readEntries)
    BY <1>1, <2>2 DEF OnePlace, Referenced, NoFrame, Frame
  <2>. QED BY <2>1, <2>2
<1>6. IsFiniteSet(R) /\ Cardinality(R) <= Cardinality(Referenced) + 1
  BY <1>4, FS_AddElement, SMTT(30)
<1>7. Cardinality(Frame) <= Cardinality(R)
  BY <1>5, <1>6, FS_Subset
<1>8. Cardinality(R) \in Nat
  BY <1>6, FS_CardinalityType
<1>. QED
  BY <1>2, <1>4, <1>6, <1>7, <1>8

\* AcquireWrite does not underrun while references leave two frames over.
THEOREM PoolLargeEnough == Spec => []WriterFindsFrame
BY IdleWhileSpare, Invariance, PTL

-----------------------------------------------------------------------------
(* What a step may not do.                                                 *)

\* A frame does not change while a reference reads it.
THEOREM StableWhileRead == Spec => ReaderSeesStableFrame
<1>. DEFINE Stable ==
       \A p \in Ptr :
         entry[p] # NoFrame /\ ~isWrite[p] /\ entry'[p] = entry[p]
           => content'[entry[p]] = content[entry[p]]
<1>1. ASSUME IInv, Next PROVE Stable
  <2>. SUFFICES ASSUME NEW p \in Ptr, entry[p] # NoFrame, ~isWrite[p]
                PROVE  content'[entry[p]] = content[entry[p]]
    OBVIOUS
  <2>1. /\ entry[p] \in Frame /\ entry[p] \in ToSet(readEntries)
        /\ content \in [Frame -> Content]
    BY <1>1 DEF IInv, TypeOK, ReadersCounted
  <2>2. ASSUME NEW q \in Ptr, WriteFrame(q)
        PROVE  content'[entry[p]] = content[entry[p]]
    <3>1. entry[q] # entry[p]
      BY <1>1, <2>1, <2>2 DEF IInv, OnePlace, WriteFrame
    <3>. QED BY <2>1, <2>2, <3>1 DEF WriteFrame
  <2>3. ASSUME NEW q \in Ptr,
               \/ AcquireRead(q) \/ AcquireWrite(q) \/ CommitWrite(q)
               \/ CommitWriteAndAcquireRead(q) \/ Destroy(q)
        PROVE  content' = content
    BY <2>3 DEF AcquireRead, AcquireWrite, CommitWrite, CommitWriteAndAcquireRead, Destroy
  <2>. QED BY <1>1, <2>2, <2>3 DEF Next
<1>2. ASSUME UNCHANGED vars PROVE Stable
  BY <1>2 DEF vars
<1>3. IInv /\ [Next]_vars => [Stable]_vars
  BY <1>1
<1>. QED
  BY <1>3, Invariance, PTL DEF Spec, ReaderSeesStableFrame

\* Once there is a published frame there always is one.
THEOREM NeverEmptied == Spec => AlwaysAFrame
<1>. DEFINE Stays == readEntries # << >> => readEntries' # << >>
<1>1. ASSUME IInv, Next PROVE Stays
  <2>. SUFFICES ASSUME readEntries # << >> PROVE readEntries' # << >>
    OBVIOUS
  <2>1. readEntries \in Seq(Frame)
    BY <1>1 DEF IInv, TypeOK
  <2>2. ASSUME NEW p \in Ptr, CommitWrite(p) \/ CommitWriteAndAcquireRead(p)
        PROVE  readEntries' # << >>
    <3>1. Len(readEntries') # 0
      BY <1>1, <2>2, CommitVectors DEF CommitWrite, CommitWriteAndAcquireRead
    <3>. QED BY <3>1
  <2>3. ASSUME NEW p \in Ptr, Destroy(p) PROVE readEntries' # << >>
    <3>1. CASE isWrite[p]
      BY <2>3, <3>1 DEF Destroy, RescindWrite
    <3>2. CASE ~isWrite[p]
      <4>1. CASE UNCHANGED readEntries
        BY <4>1
      <4>2. ASSUME Len(readEntries) > 1,
                   NEW i \in 1..Len(readEntries), readEntries' = RemoveAt(readEntries, i)
            PROVE  readEntries' # << >>
        <5>1. Len(readEntries') = Len(readEntries) - 1
          BY <2>1, <4>2, Erase
        <5>. QED BY <2>1, <4>2, <5>1, LenProperties
      <4>. QED BY <1>1, <2>3, <3>2, <4>1, <4>2, ReleaseEffect
    <3>. QED BY <3>1, <3>2
  <2>4. ASSUME NEW p \in Ptr, AcquireRead(p) \/ AcquireWrite(p) \/ WriteFrame(p)
        PROVE  readEntries' = readEntries
    BY <2>4 DEF AcquireRead, AcquireWrite, WriteFrame
  <2>. QED BY <1>1, <2>2, <2>3, <2>4 DEF Next
<1>2. IInv /\ [Next]_vars => [Stays]_vars
  BY <1>1
<1>. QED
  BY <1>2, Invariance, PTL DEF Spec, AlwaysAFrame

-----------------------------------------------------------------------------
(* The queue implements the exchange of frames.                            *)

newestFrame == IF readEntries = << >> THEN NoFrame ELSE Last(readEntries)

LEMMA InitExchange == Init => Exchange!Init
<1>. SUFFICES ASSUME Init PROVE Exchange!Init
  OBVIOUS
<1>1. readEntries = << >> /\ ToSet(readEntries) = {}
  BY DEF Init, ToSet
<1>. QED
  BY <1>1 DEF Init, Exchange!Init, NoFrame, Exchange!NoFrame

\* The newest published frame, while there is one.
LEMMA NewestPublished ==
  ASSUME IInv
  PROVE  /\ readEntries # << >> => /\ newestFrame = Last(readEntries)
                                   /\ newestFrame \in ToSet(readEntries)
                                   /\ newestFrame \in Frame
         /\ ToSet(readEntries) \subseteq Frame
<1>1. readEntries \in Seq(Frame)
  BY DEF IInv, TypeOK
<1>2. ToSet(readEntries) \subseteq Frame
  BY <1>1, LenProperties DEF ToSet
<1>3. readEntries # << >> => Last(readEntries) \in ToSet(readEntries)
  BY <1>1, DropLast
<1>. QED
  BY <1>2, <1>3 DEF newestFrame

\* A frame is held in the exchange exactly when NumReaders is positive.
LEMMA HeldIffCounted ==
  ASSUME IInv, NEW f \in Frame
  PROVE  Exchange!Held(f) <=> numReaders[f] > 0
<1>1. Exchange!Held(f) <=> Readers(f) # {}
  BY DEF Exchange!Held, Readers
<1>. QED
  BY <1>1, ReadersFinite DEF IInv, ReadersCounted

LEMMA CommitExchange ==
  ASSUME IInv, NEW p \in Ptr, CommitWrite(p) \/ CommitWriteAndAcquireRead(p)
  PROVE  Exchange!Publish(p)
<1>1. /\ entry[p] # NoFrame /\ isWrite[p]
      /\ ToSet(readEntries') =
           {f \in ToSet(readEntries) : numReaders[f] > 0} \cup {entry[p]}
      /\ readEntries' \in Seq(Frame)
      /\ Len(readEntries') \in Nat \ {0}
      /\ readEntries'[Len(readEntries')] = entry[p]
  BY CommitVectors DEF CommitWrite, CommitWriteAndAcquireRead
<1>2. readEntries' # << >> /\ Last(readEntries') = entry[p]
  BY <1>1 DEF Last
<1>3. newestFrame' = entry[p]
  BY <1>2 DEF newestFrame
<1>4. {f \in ToSet(readEntries) : numReaders[f] > 0}
        = {f \in ToSet(readEntries) : Exchange!Held(f)}
  BY NewestPublished, HeldIffCounted
<1>5. /\ isWrite' = [isWrite EXCEPT ![p] = FALSE]
      /\ entry' \in {entry, [entry EXCEPT ![p] = NoFrame]}
  BY DEF CommitWrite, CommitWriteAndAcquireRead, Drop
<1>. QED
  BY <1>1, <1>3, <1>4, <1>5
  DEF Exchange!Publish, newestFrame, NoFrame, Exchange!NoFrame

LEMMA ReleaseExchange ==
  ASSUME IInv, NEW p \in Ptr, Destroy(p), ~isWrite[p]
  PROVE  Exchange!Release(p)
<1>. PICK e \in Frame : e = entry[p]
  BY ReleaseEffect
<1>1. /\ e \in ToSet(readEntries) /\ numReaders[e] >= 1
      /\ entry' = [entry EXCEPT ![p] = NoFrame] /\ isWrite' = isWrite
  BY ReleaseEffect
<1>2. /\ entry[p] # NoFrame /\ entry \in [Ptr -> Frame \cup {NoFrame}]
      /\ isWrite \in [Ptr -> BOOLEAN] /\ numReaders \in [Frame -> Int]
      /\ readEntries \in Seq(Frame) /\ NoRepeats(readEntries)
      /\ NoFrame \notin Frame
  BY DEF Destroy, IInv, TypeOK, OnePlace, NoFrame, Frame
<1>3. Len(readEntries) \in Nat /\ DOMAIN readEntries = 1..Len(readEntries)
  BY <1>2, LenProperties
<1>4. readEntries # << >> /\ newestFrame = readEntries[Len(readEntries)]
  <2>1. readEntries # << >>
    BY <1>1, <1>3 DEF ToSet
  <2>. QED BY <2>1 DEF newestFrame, Last
<1>. DEFINE Others == \E q \in Ptr \ {p} : entry[q] = e
<1>5. Others <=> numReaders[e] > 1
  <2>1. \A q \in Ptr : entry[q] = e => q \in Readers(e)
    BY <1>1 DEF IInv, OnePlace, Readers
  <2>2. p \in Readers(e) /\ Readers(e) \subseteq Ptr
    BY DEF Readers
  <2>3. IsFiniteSet(Readers(e)) /\ numReaders[e] = Cardinality(Readers(e))
    BY ReadersFinite DEF IInv, ReadersCounted
  <2>4. numReaders[e] = 1 <=> \E x : Readers(e) = {x}
    BY <2>3, FS_Singleton
  <2>5. numReaders[e] = 1 <=> Readers(e) = {p}
    BY <2>2, <2>4
  <2>6. Others <=> Readers(e) # {p}
    BY <2>1, <2>2 DEF Readers
  <2>. QED BY <1>1, <1>2, <2>5, <2>6
<1>6. CASE /\ Len(readEntries) = 1 \/ numReaders[e] > 1
           /\ UNCHANGED <<idleEntries, readEntries>>
  <2>1. Others \/ ToSet(readEntries) = {e}
    BY <1>1, <1>3, <1>5, <1>6 DEF ToSet
  <2>2. UNCHANGED <<readEntries, ToSet(readEntries), newestFrame>>
    BY <1>6 DEF newestFrame
  <2>. QED BY <1>1, <1>2, <2>1, <2>2
       DEF Exchange!Release, newestFrame, NoFrame, Exchange!NoFrame
<1>7. CASE /\ Len(readEntries) > 1 /\ numReaders[e] = 1
           /\ \E i \in 1..Len(readEntries) :
                readEntries[i] = e /\ readEntries' = RemoveAt(readEntries, i)
  <2>. DEFINE n == Len(readEntries)
  <2>1. PICK k \in 1..n : readEntries[k] = e /\ readEntries' = RemoveAt(readEntries, k)
    BY <1>7
  <2>2. /\ readEntries' \in Seq(Frame)
        /\ Len(readEntries') = n - 1
        /\ \A i \in 1..(n - 1) :
             readEntries'[i] = IF i < k THEN readEntries[i] ELSE readEntries[i + 1]
        /\ ToSet(readEntries') = ToSet(readEntries) \ {e}
    <3>1. ToSet(RemoveAt(readEntries, k)) = ToSet(readEntries) \ {readEntries[k]}
      BY <1>2, Erase
    <3>. QED BY <1>2, <2>1, <3>1, Erase
  <2>3. readEntries' # << >> /\ newestFrame' = readEntries'[n - 1]
    <3>1. readEntries' # << >>
      BY <1>3, <1>7, <2>2
    <3>. QED BY <2>2, <3>1 DEF newestFrame, Last
  <2>4. newestFrame' \in ToSet(readEntries')
    <3>1. n - 1 \in DOMAIN readEntries'
      BY <1>3, <1>7, <2>2, LenProperties
    <3>. QED BY <2>3, <3>1 DEF ToSet
  <2>5. e # newestFrame => newestFrame' = newestFrame
    <3>. SUFFICES ASSUME e # newestFrame PROVE newestFrame' = newestFrame
      OBVIOUS
    <3>1. k # n
      BY <1>4, <2>1
    <3>2. n - 1 \in 1..(n - 1) /\ ~(n - 1 < k) /\ (n - 1) + 1 = n
      <4>1. n \in Nat /\ n > 1 /\ k \in 1..n
        BY <1>3, <1>7, <2>1
      <4>. HIDE DEF n
      <4>. QED BY <3>1, <4>1
    <3>. QED BY <1>4, <2>2, <2>3, <3>2
  <2>6. ~Others
    BY <1>5, <1>7
  <2>7. ToSet(readEntries) # {e}
    <3>1. 1 \in DOMAIN readEntries /\ 2 \in DOMAIN readEntries
      BY <1>3, <1>7
    <3>2. readEntries[1] # readEntries[2]
      BY <1>2, <3>1 DEF NoRepeats
    <3>3. readEntries[1] \in ToSet(readEntries) /\ readEntries[2] \in ToSet(readEntries)
      BY <3>1 DEF ToSet
    <3>. QED BY <3>2, <3>3
  <2>8. Exchange!Withdraw(e)
    BY <2>2, <2>4, <2>5 DEF Exchange!Withdraw, newestFrame
  <2>. QED BY <1>1, <1>2, <2>6, <2>7, <2>8
       DEF Exchange!Release, NoFrame, Exchange!NoFrame
<1>. QED
  BY <1>6, <1>7, ReleaseEffect

LEMMA NextExchange == IInv /\ [Next]_vars => [Exchange!Next]_(Exchange!vars)
<1>. SUFFICES ASSUME IInv, [Next]_vars PROVE [Exchange!Next]_(Exchange!vars)
  OBVIOUS
<1>1. ASSUME NEW p \in Ptr, AcquireRead(p) PROVE Exchange!Read(p)
  <2>1. newestFrame = Last(readEntries) /\ newestFrame \in ToSet(readEntries)
    BY <1>1, NewestPublished DEF AcquireRead
  <2>. QED BY <1>1, <2>1
       DEF AcquireRead, Exchange!Read, newestFrame, NoFrame, Exchange!NoFrame
<1>2. ASSUME NEW p \in Ptr, AcquireWrite(p) PROVE Exchange!Claim(p)
  <2>1. Last(idleEntries) \in ToSet(idleEntries) /\ Last(idleEntries) \in Frame
    <3>1. idleEntries \in Seq(Frame) /\ idleEntries # << >>
      BY <1>2 DEF AcquireWrite, IInv, TypeOK
    <3>2. Last(idleEntries) \in ToSet(idleEntries)
      BY <3>1, DropLast
    <3>3. ToSet(idleEntries) \subseteq Frame
      BY <3>1, LenProperties DEF ToSet
    <3>. QED BY <3>2, <3>3
  <2>2. Last(idleEntries) \in Exchange!Free
    BY <2>1 DEF IInv, OnePlace, Exchange!Free, Exchange!Written, Exchange!Frame, Frame
  <2>. QED BY <1>2, <2>2
       DEF AcquireWrite, Exchange!Claim, newestFrame, NoFrame, Exchange!NoFrame
<1>3. ASSUME NEW p \in Ptr, Destroy(p), isWrite[p] PROVE Exchange!Rescind(p)
  BY <1>3 DEF Destroy, RescindWrite, Drop, Exchange!Rescind, NoFrame, Exchange!NoFrame
<1>4. ASSUME NEW p \in Ptr, WriteFrame(p) PROVE UNCHANGED Exchange!vars
  BY <1>4 DEF WriteFrame, Exchange!vars
<1>5. ASSUME UNCHANGED vars PROVE UNCHANGED Exchange!vars
  BY <1>5 DEF vars, Exchange!vars
<1>. QED
  BY <1>1, <1>2, <1>3, <1>4, <1>5, CommitExchange, ReleaseExchange
  DEF Next, Exchange!Next

\* Every behaviour of FrameQueue is one of FrameExchange: vectors, reader
\* counts and the sweep of stale entries are an implementation of it.
THEOREM ImplementsFrameExchange == Spec => ImplementsExchange
BY InitExchange, NextExchange, Invariance, PTL
DEF Spec, ImplementsExchange, Exchange!Spec
=============================================================================
