------------------------- MODULE FramePipelineProofs ------------------------
(***************************************************************************)
(* Proofs about FramePipeline.                                             *)
(*                                                                         *)
(* The first part is about what the operations of FrameQueue do to a       *)
(* queue, stated of values instead of variables, so that it can be cited   *)
(* for each of the three queues: N is how many entries the queue has, P    *)
(* the set of references to it, and idle, read, readers, entry and write   *)
(* are its idleEntries, readEntries, numReaders, entry and isWrite before  *)
(* an operation; idle2 is idleEntries afterwards, and so on.  The second   *)
(* is about the threads around them, and at the end each of the queues is  *)
(* an implementation of FrameQueue.                                        *)
(***************************************************************************)
EXTENDS FramePipeline, SequenceTheorems, FiniteSetTheorems, TLAPS

-----------------------------------------------------------------------------
(* The operators of FrameQueue, of values.                                 *)

Entries(N) == 1..N

Rank(K, i) == Cardinality({k \in K : k <= i})
Nth(K, j) == CHOOSE i \in K : Rank(K, i) = j
At(s, K) == [j \in 1..Cardinality(K) |-> s[Nth(K, j)]]

Stale(read, readers) == {i \in DOMAIN read : readers[read[i]] <= 0}
EvictedOf(read, readers) == Reverse(At(read, Stale(read, readers)))
KeptOf(read, readers) == At(read, DOMAIN read \ Stale(read, readers))

\* Frame f is published: both commits.
PublishesEntry(f, idle, read, readers, idle2, read2) ==
  /\ idle2 = idle \o EvictedOf(read, readers)
  /\ read2 = Append(KeptOf(read, readers), f)

\* ReleaseRead of frame f.
ReleasesRead(f, idle, read, readers, idle2, read2, readers2) ==
  IF f \notin ToSet(read)
  THEN idle2 = idle /\ read2 = read /\ readers2 = readers
  ELSE \E i \in DOMAIN read :
         /\ read[i] = f
         /\ readers2 = [readers EXCEPT ![f] = @ - 1]
         /\ IF Len(read) > 1 /\ readers[f] - 1 <= 0
            THEN /\ idle2 = Append(idle, f)
                 /\ read2 = RemoveAt(read, i)
            ELSE idle2 = idle /\ read2 = read

-----------------------------------------------------------------------------
(* The invariant of FrameQueue, of values.                                 *)

NoRepeats(s) == \A i, j \in DOMAIN s : s[i] = s[j] => i = j
ReadersOf(P, entry, write, f) == {p \in P : entry[p] = f /\ ~write[p]}

Typed(N, P, idle, read, readers, entry, write) ==
  /\ idle \in Seq(Entries(N))
  /\ read \in Seq(Entries(N))
  /\ readers \in [Entries(N) -> Nat]
  /\ entry \in [P -> Entries(N) \cup {0}]
  /\ write \in [P -> BOOLEAN]

OnePlace(N, P, idle, read, entry, write) ==
  /\ NoRepeats(idle)
  /\ NoRepeats(read)
  /\ ToSet(idle) \cap ToSet(read) = {}
  /\ \A p, q \in P : write[p] /\ write[q] /\ entry[p] = entry[q] => p = q
  /\ \A p \in P : write[p] =>
       /\ entry[p] # 0
       /\ entry[p] \notin ToSet(idle) \cup ToSet(read)
  /\ \A f \in Entries(N) : f \in ToSet(idle) \cup ToSet(read)
                             \/ \E p \in P : write[p] /\ entry[p] = f

Counted(N, P, read, readers, entry, write) ==
  /\ \A f \in Entries(N) :
       readers[f] = Cardinality(ReadersOf(P, entry, write, f))
  /\ \A p \in P : entry[p] # 0 /\ ~write[p] => entry[p] \in ToSet(read)

NewestUnread(read, readers) ==
  \A i \in DOMAIN read : i < Len(read) => readers[read[i]] > 0

QueueInv(N, P, idle, read, readers, entry, write) ==
  /\ Typed(N, P, idle, read, readers, entry, write)
  /\ OnePlace(N, P, idle, read, entry, write)
  /\ Counted(N, P, read, readers, entry, write)
  /\ NewestUnread(read, readers)

-----------------------------------------------------------------------------
(* The vectors.                                                            *)

\* What appending an element does to a sequence and to its set of elements.
LEMMA AppendElement ==
  ASSUME NEW S, NEW s \in Seq(S), NEW e \in S
  PROVE  /\ Append(s, e) \in Seq(S)
         /\ Len(Append(s, e)) = Len(s) + 1
         /\ \A i \in 1..Len(s) : Append(s, e)[i] = s[i]
         /\ Append(s, e)[Len(s) + 1] = e
         /\ ToSet(Append(s, e)) = ToSet(s) \cup {e}
         /\ NoRepeats(s) /\ e \notin ToSet(s) => NoRepeats(Append(s, e))
<1>1. /\ Append(s, e) \in Seq(S)
      /\ Len(Append(s, e)) = Len(s) + 1
      /\ \A i \in 1..Len(s) : Append(s, e)[i] = s[i]
      /\ Append(s, e)[Len(s) + 1] = e
  BY AppendProperties
<1>2. DOMAIN Append(s, e) = 1..(Len(s) + 1) /\ DOMAIN s = 1..Len(s) /\ Len(s) \in Nat
  BY <1>1, LenProperties
<1>3. ToSet(Append(s, e)) = ToSet(s) \cup {e}
  BY <1>1, <1>2 DEF ToSet
<1>4. NoRepeats(s) /\ e \notin ToSet(s) => NoRepeats(Append(s, e))
  BY <1>1, <1>2 DEF ToSet, NoRepeats
<1>. QED
  BY <1>1, <1>3, <1>4

\* What taking the last element away does.
LEMMA DropLast ==
  ASSUME NEW S, NEW s \in Seq(S), s # << >>
  PROVE  /\ Front(s) \in Seq(S)
         /\ Len(Front(s)) = Len(s) - 1
         /\ \A i \in 1..(Len(s) - 1) : Front(s)[i] = s[i]
         /\ Last(s) \in ToSet(s) /\ Last(s) = s[Len(s)]
         /\ NoRepeats(s) => /\ NoRepeats(Front(s))
                            /\ ToSet(Front(s)) = ToSet(s) \ {Last(s)}
<1>1. Len(s) \in Nat \ {0} /\ DOMAIN s = 1..Len(s) /\ s \in [1..Len(s) -> S]
  BY LenProperties, EmptySeq
<1>2. /\ Front(s) \in Seq(S)
      /\ Len(Front(s)) = Len(s) - 1
      /\ \A i \in 1..(Len(s) - 1) : Front(s)[i] = s[i]
  BY <1>1, SubSeqProperties DEF Front
<1>3. DOMAIN Front(s) = 1..(Len(s) - 1)
  BY <1>2, LenProperties
<1>4. Last(s) \in ToSet(s) /\ Last(s) = s[Len(s)]
  BY <1>1 DEF Last, ToSet
<1>5. ASSUME NoRepeats(s) PROVE NoRepeats(Front(s))
  BY <1>1, <1>2, <1>3, <1>5 DEF NoRepeats
<1>6. ASSUME NoRepeats(s) PROVE ToSet(Front(s)) = ToSet(s) \ {Last(s)}
  BY <1>1, <1>2, <1>3, <1>4, <1>6 DEF NoRepeats, ToSet
<1>. QED
  BY <1>2, <1>4, <1>5, <1>6

\* What erasing position k does.
LEMMA Erase ==
  ASSUME NEW S, NEW s \in Seq(S), NEW k \in 1..Len(s)
  PROVE  /\ RemoveAt(s, k) \in Seq(S)
         /\ Len(RemoveAt(s, k)) = Len(s) - 1
         /\ \A i \in 1..(Len(s) - 1) :
              RemoveAt(s, k)[i] = IF i < k THEN s[i] ELSE s[i + 1]
         /\ NoRepeats(s) => /\ NoRepeats(RemoveAt(s, k))
                            /\ ToSet(RemoveAt(s, k)) = ToSet(s) \ {s[k]}
<1>. DEFINE a == SubSeq(s, 1, k - 1)
            b == SubSeq(s, k + 1, Len(s))
<1>1. Len(s) \in Nat /\ DOMAIN s = 1..Len(s) /\ s \in [1..Len(s) -> S]
  BY LenProperties
<1>2. /\ a \in Seq(S) /\ Len(a) = k - 1
      /\ \A i \in 1..(k - 1) : a[i] = s[i]
  BY <1>1, SubSeqProperties
<1>3. /\ b \in Seq(S) /\ Len(b) = Len(s) - k
      /\ \A i \in 1..(Len(s) - k) : b[i] = s[i + k]
  BY SMT
<1>4. RemoveAt(s, k) = a \o b
  BY DEF RemoveAt
<1>. HIDE DEF a, b
<1>5. /\ a \o b \in Seq(S)
      /\ Len(a \o b) = Len(s) - 1
      /\ \A i \in 1..(Len(s) - 1) :
           (a \o b)[i] = IF i < k THEN s[i] ELSE s[i + 1]
  <2>1. /\ a \o b \in Seq(S)
        /\ Len(a \o b) = Len(a) + Len(b)
        /\ \A i \in 1..(Len(a) + Len(b)) :
             (a \o b)[i] = IF i <= Len(a) THEN a[i] ELSE b[i - Len(a)]
    BY <1>2, <1>3, ConcatProperties, Zenon
  <2>2. Len(a) + Len(b) = Len(s) - 1
    BY <1>1, <1>2, <1>3
  <2>3. ASSUME NEW i \in 1..(Len(s) - 1)
        PROVE  (a \o b)[i] = IF i < k THEN s[i] ELSE s[i + 1]
    <3>1. CASE i < k
      <4>1. i <= Len(a) /\ i \in 1..(k - 1) BY <3>1, <1>1, <1>2
      <4>. QED BY <4>1, <3>1, <2>1, <2>2, <1>2
    <3>2. CASE ~(i < k)
      <4>1. /\ ~(i <= Len(a))
            /\ i - Len(a) \in 1..(Len(s) - k)
            /\ (i - Len(a)) + k = i + 1
        BY <3>2, <1>1, <1>2
      <4>. QED BY <4>1, <3>2, <2>1, <2>2, <1>3
    <3>. QED BY <3>1, <3>2
  <2>. QED BY <2>1, <2>2, <2>3
<1>. DEFINE r == RemoveAt(s, k)
<1>6. /\ r \in Seq(S) /\ Len(r) = Len(s) - 1 /\ DOMAIN r = 1..(Len(s) - 1)
      /\ \A i \in 1..(Len(s) - 1) : r[i] = IF i < k THEN s[i] ELSE s[i + 1]
  BY <1>4, <1>5, LenProperties
<1>. HIDE DEF r
<1>7. ASSUME NoRepeats(s) PROVE NoRepeats(r)
  <2>. DEFINE old(i) == IF i < k THEN i ELSE i + 1
  <2>1. \A i \in DOMAIN r : old(i) \in DOMAIN s /\ r[i] = s[old(i)]
    BY <1>1, <1>6
  <2>2. ASSUME NEW i \in DOMAIN r, NEW j \in DOMAIN r, r[i] = r[j] PROVE i = j
    <3>1. old(i) = old(j)
      BY <2>1, <2>2, <1>7 DEF NoRepeats
    <3>. QED BY <3>1, <1>1, <1>6
  <2>. QED BY <2>2 DEF NoRepeats
<1>8. ASSUME NoRepeats(s) PROVE ToSet(r) = ToSet(s) \ {s[k]}
  <2>1. ASSUME NEW i \in DOMAIN r PROVE r[i] \in ToSet(s) /\ r[i] # s[k]
    BY <1>1, <1>6, <1>8 DEF NoRepeats, ToSet
  <2>2. ASSUME NEW i \in DOMAIN s, s[i] # s[k] PROVE s[i] \in ToSet(r)
    <3>1. CASE i < k
      BY <3>1, <1>1, <1>6 DEF ToSet
    <3>2. CASE i > k
      <4>1. i - 1 \in DOMAIN r /\ r[i - 1] = s[i]
        BY <3>2, <1>1, <1>6
      <4>. QED BY <4>1 DEF ToSet
    <3>. QED BY <3>1, <3>2, <2>2, <1>1
  <2>. QED BY <2>1, <2>2 DEF ToSet
<1>. QED
  BY <1>6, <1>7, <1>8 DEF r

\* Selecting all positions of a prefix yields the prefix.
LEMMA AtPrefix ==
  ASSUME NEW S, NEW s \in Seq(S), NEW n \in 0..Len(s)
  PROVE  At(s, 1..n) = [j \in 1..n |-> s[j]]
<1>1. n \in Nat
  BY LenProperties
<1>2. IsFiniteSet(1..n) /\ Cardinality(1..n) = n
  BY <1>1, FS_Interval
<1>3. ASSUME NEW i \in 1..n PROVE Rank(1..n, i) = i
  <2>1. {k \in 1..n : k <= i} = 1..i
    BY <1>1
  <2>2. Cardinality(1..i) = i
    BY <1>1, FS_Interval
  <2>. QED BY <2>1, <2>2, Zenon DEF Rank
<1>4. ASSUME NEW j \in 1..n PROVE Nth(1..n, j) = j
  BY <1>3, Zenon DEF Nth
<1>. QED
  BY <1>2, <1>4 DEF At

\* Selecting one position yields the element there, selecting none nothing.
LEMMA AtFew ==
  ASSUME NEW S, NEW s \in Seq(S)
  PROVE  /\ At(s, {}) = << >>
         /\ \A n \in 1..Len(s) : At(s, {n}) = <<s[n]>>
<1>1. At(s, {}) = << >>
  BY FS_EmptySet DEF At
<1>2. ASSUME NEW n \in 1..Len(s) PROVE At(s, {n}) = <<s[n]>>
  <2>1. Cardinality({n}) = 1
    BY FS_Singleton
  <2>2. Rank({n}, n) = 1
    <3>1. {k \in {n} : k <= n} = {n}
      BY LenProperties
    <3>. QED BY <2>1, <3>1, Zenon DEF Rank
  <2>3. Nth({n}, 1) = n
    BY <2>2, Zenon DEF Nth
  <2>4. At(s, {n}) = [j \in 1..1 |-> s[Nth({n}, j)]]
    BY <2>1 DEF At
  <2>5. \A j \in 1..1 : j = 1
    OBVIOUS
  <2>6. At(s, {n}) = [j \in 1..1 |-> s[n]]
    BY <2>3, <2>4, <2>5
  <2>. QED BY <2>6
<1>. QED
  BY <1>1, <1>2


\* What a commit takes out of m_readEntries: since only the newest published
\* frame can be without readers, at most that one.
LEMMA Eviction ==
  ASSUME NEW N, NEW P, NEW idle, NEW read, NEW readers, NEW entry, NEW write,
         Typed(N, P, idle, read, readers, entry, write), NewestUnread(read, readers)
  PROVE  \/ /\ EvictedOf(read, readers) = << >>
            /\ KeptOf(read, readers) = read
            /\ \A i \in DOMAIN read : readers[read[i]] > 0
         \/ /\ read # << >>
            /\ readers[Last(read)] <= 0
            /\ EvictedOf(read, readers) = <<Last(read)>>
            /\ KeptOf(read, readers) = Front(read)
<1>. DEFINE n == Len(read)
<1>1. /\ n \in Nat
      /\ DOMAIN read = 1..n
      /\ read \in [1..n -> Entries(N)]
      /\ \A i \in 1..n : readers[read[i]] \in Int
  BY LenProperties DEF Typed
<1>2. CASE n = 0 \/ readers[read[n]] > 0
  <2>1. \A i \in 1..n : readers[read[i]] > 0
    BY <1>1, <1>2 DEF NewestUnread
  <2>2. Stale(read, readers) = {} /\ DOMAIN read \ Stale(read, readers) = 1..n
    BY <2>1, <1>1 DEF Stale
  <2>3. EvictedOf(read, readers) = << >>
    BY <2>2, AtFew DEF EvictedOf, Reverse, Typed
  <2>4. KeptOf(read, readers) = [j \in 1..n |-> read[j]]
    BY <2>2, <1>1, AtPrefix DEF KeptOf, Typed
  <2>. QED BY <2>1, <2>3, <2>4, <1>1
<1>3. CASE n > 0 /\ readers[read[n]] <= 0
  <2>1. \A i \in 1..(n - 1) : readers[read[i]] > 0
    BY <1>1 DEF NewestUnread
  <2>2. Stale(read, readers) = {n} /\ DOMAIN read \ Stale(read, readers) = 1..(n - 1)
    BY <2>1, <1>1, <1>3 DEF Stale
  <2>3. EvictedOf(read, readers) = <<read[n]>>
    <3>1. At(read, Stale(read, readers)) = <<read[n]>>
      <4>1. n \in 1..Len(read) /\ read \in Seq(Entries(N))
        BY <1>1, <1>3 DEF Typed
      <4>2. At(read, {n}) = <<read[n]>>
        BY <4>1, AtFew, Zenon
      <4>. QED BY <4>2, <2>2, Zenon
    <3>2. Reverse(<<read[n]>>) = <<read[n]>>
      BY DEF Reverse
    <3>. QED BY <3>1, <3>2, Zenon DEF EvictedOf
  <2>4. KeptOf(read, readers) = Front(read)
    <3>1. KeptOf(read, readers) = [j \in 1..(n - 1) |-> read[j]]
      <4>1. n - 1 \in 0..Len(read) /\ read \in Seq(Entries(N))
        BY <1>1, <1>3 DEF Typed
      <4>2. At(read, 1..(n - 1)) = [j \in 1..(n - 1) |-> read[j]]
        BY <4>1, AtPrefix, Zenon
      <4>. QED BY <4>2, <2>2, Zenon DEF KeptOf
    <3>2. Front(read) = [j \in 1..(n - 1) |-> read[j]]
      BY <1>1, <1>3 DEF Front, Typed
    <3>. QED BY <3>1, <3>2
  <2>5. read # << >>
    BY <1>3, EmptySeq
  <2>. QED BY <2>3, <2>4, <2>5, <1>3 DEF Last
<1>. QED
  BY <1>1, <1>2, <1>3

\* What publishing entry f comes to: at most the newest entry without readers
\* goes, and f is the newest.
EntryPublished(N, f, idle, read, readers, idle2, read2) ==
  /\ idle2 \in Seq(Entries(N)) /\ read2 \in Seq(Entries(N))
  /\ NoRepeats(idle2) /\ NoRepeats(read2)
  /\ ToSet(idle2) \cap ToSet(read2) = {}
  /\ ToSet(idle2) \cup ToSet(read2) = ToSet(idle) \cup ToSet(read) \cup {f}
  /\ \A g : g \in ToSet(read2) <=> (g \in ToSet(read) /\ readers[g] > 0) \/ g = f
  /\ \A i \in 1..(Len(read2) - 1) : readers[read2[i]] > 0
  /\ Len(read2) \in Nat \ {0}
  /\ read2[Len(read2)] = f

\* What releasing a read of entry f comes to.
EntryReleased(N, f, idle, read, readers, idle2, read2, readers2) ==
  /\ f \in Entries(N) /\ f \in ToSet(read) /\ readers[f] >= 1
  /\ readers2 = [readers EXCEPT ![f] = @ - 1]
  /\ \/ /\ Len(read) = 1 \/ readers[f] > 1
        /\ idle2 = idle /\ read2 = read
     \/ /\ Len(read) > 1 /\ readers[f] = 1
        /\ idle2 = Append(idle, f)
        /\ \E i \in 1..Len(read) : read[i] = f /\ read2 = RemoveAt(read, i)

\* What both commits do to the vectors.
LEMMA CommitVectors ==
  ASSUME NEW N, NEW P, NEW idle, NEW read, NEW readers, NEW entry, NEW write,
         QueueInv(N, P, idle, read, readers, entry, write),
         NEW p \in P, entry[p] # 0, write[p], NEW idle2, NEW read2,
         PublishesEntry(entry[p], idle, read, readers, idle2, read2)
  PROVE  EntryPublished(N, entry[p], idle, read, readers, idle2, read2)
<1>. DEFINE e == entry[p]
            last == Last(read)
<1>1. /\ Typed(N, P, idle, read, readers, entry, write)
      /\ idle \in Seq(Entries(N)) /\ read \in Seq(Entries(N))
      /\ readers \in [Entries(N) -> Int]
      /\ e \in Entries(N)
      /\ e \notin ToSet(idle) /\ e \notin ToSet(read)
      /\ NoRepeats(idle) /\ NoRepeats(read)
      /\ ToSet(idle) \cap ToSet(read) = {}
  BY DEF QueueInv, Typed, OnePlace
<1>2. CASE /\ EvictedOf(read, readers) = << >>
           /\ KeptOf(read, readers) = read
           /\ \A i \in DOMAIN read : readers[read[i]] > 0
  <2>1. idle2 = idle /\ read2 = Append(read, e)
    BY <1>1, <1>2, ConcatEmptySeq DEF PublishesEntry
  <2>2. /\ read2 \in Seq(Entries(N))
        /\ Len(read2) = Len(read) + 1
        /\ \A i \in 1..Len(read) : read2[i] = read[i]
        /\ read2[Len(read) + 1] = e
        /\ ToSet(read2) = ToSet(read) \cup {e}
        /\ NoRepeats(read2)
    BY <1>1, <2>1, AppendElement
  <2>3. Len(read) \in Nat /\ DOMAIN read = 1..Len(read)
    BY <1>1, LenProperties
  <2>4. \A f \in ToSet(read) : readers[f] > 0
    BY <1>2 DEF ToSet
  <2>5. \A i \in 1..(Len(read2) - 1) : readers[read2[i]] > 0
    BY <1>2, <2>2, <2>3
  <2>. QED BY <1>1, <2>1, <2>2, <2>3, <2>4, <2>5 DEF EntryPublished
<1>3. CASE /\ read # << >>
           /\ readers[last] <= 0
           /\ EvictedOf(read, readers) = <<last>>
           /\ KeptOf(read, readers) = Front(read)
  <2>1. /\ Front(read) \in Seq(Entries(N))
        /\ Len(Front(read)) = Len(read) - 1
        /\ \A i \in 1..(Len(read) - 1) :
             Front(read)[i] = read[i]
        /\ last \in ToSet(read) /\ last = read[Len(read)]
        /\ NoRepeats(Front(read))
        /\ ToSet(Front(read)) = ToSet(read) \ {last}
    BY <1>1, <1>3, DropLast
  <2>2. /\ Len(read) \in Nat \ {0}
        /\ DOMAIN read = 1..Len(read)
    BY <1>1, <1>3, LenProperties, EmptySeq
  <2>3. last \in Entries(N)
    BY <1>1, <2>1, <2>2
  <2>4. idle2 = Append(idle, last)
    BY <1>1, <1>3, <2>3, AppendIsConcat DEF PublishesEntry
  <2>5. /\ idle2 \in Seq(Entries(N))
        /\ ToSet(idle2) = ToSet(idle) \cup {last}
        /\ NoRepeats(idle2)
    BY <1>1, <2>1, <2>3, <2>4, AppendElement
  <2>6. read2 = Append(Front(read), e)
    BY <1>3 DEF PublishesEntry
  <2>7. /\ read2 \in Seq(Entries(N))
        /\ Len(read2) = Len(read)
        /\ \A i \in 1..(Len(read) - 1) : read2[i] = read[i]
        /\ read2[Len(read)] = e
        /\ ToSet(read2) = (ToSet(read) \ {last}) \cup {e}
        /\ NoRepeats(read2)
    BY <1>1, <2>1, <2>2, <2>6, AppendElement
  <2>8. \A i \in 1..(Len(read) - 1) : readers[read[i]] > 0
    <3>1. NewestUnread(read, readers)
      BY DEF QueueInv
    <3>. QED BY <2>2, <3>1 DEF NewestUnread
  <2>9. \A f \in ToSet(read) : readers[f] > 0 <=> f # last
    <3>1. ~(readers[last] > 0)
      BY <1>1, <1>3, <2>3
    <3>2. ASSUME NEW f \in ToSet(read), f # last PROVE readers[f] > 0
      <4>1. PICK i \in 1..Len(read) : f = read[i]
        BY <2>2 DEF ToSet
      <4>2. i \in 1..(Len(read) - 1)
        BY <2>1, <2>2, <3>2, <4>1
      <4>. QED BY <2>8, <4>1, <4>2
    <3>. QED BY <3>1, <3>2
  <2>10. /\ ToSet(idle2) \cap ToSet(read2) = {}
         /\ ToSet(idle2) \cup ToSet(read2)
              = ToSet(idle) \cup ToSet(read) \cup {e}
    BY <1>1, <2>1, <2>5, <2>7
  <2>11. \A i \in 1..(Len(read2) - 1) : readers[read2[i]] > 0
    BY <2>2, <2>7, <2>8
  <2>. QED BY <2>2, <2>5, <2>7, <2>9, <2>10, <2>11 DEF EntryPublished
<1>. QED
  BY <1>1, <1>2, <1>3, Eviction DEF QueueInv

\* The references to a frame form a finite set.
LEMMA ReadersFinite ==
  ASSUME NEW P, IsFiniteSet(P), NEW entry, NEW write, NEW f
  PROVE  /\ IsFiniteSet(ReadersOf(P, entry, write, f))
         /\ Cardinality(ReadersOf(P, entry, write, f)) \in Nat
         /\ Cardinality(ReadersOf(P, entry, write, f)) = 0
              <=> ReadersOf(P, entry, write, f) = {}
<1>1. ReadersOf(P, entry, write, f) \in SUBSET P
  BY DEF ReadersOf
<1>2. IsFiniteSet(ReadersOf(P, entry, write, f))
  BY <1>1, FS_Subset
<1>. QED
  BY <1>2, FS_CardinalityType, FS_EmptySet

-----------------------------------------------------------------------------
(* Each operation preserves the invariant.                                 *)

\* The queue as it is constructed.
LEMMA FreshInv ==
  ASSUME NEW N \in Nat \ {0}, NEW P, NEW idle, NEW read, NEW readers, NEW entry,
         NEW write,
         idle = [i \in 1..N |-> i], read = << >>,
         readers = [f \in Entries(N) |-> 0],
         entry = [p \in P |-> 0], write = [p \in P |-> FALSE]
  PROVE  QueueInv(N, P, idle, read, readers, entry, write)
<1>1. /\ idle \in Seq(Entries(N))
      /\ Len(idle) = N
      /\ DOMAIN idle = Entries(N)
      /\ \A i \in Entries(N) : idle[i] = i
  BY DEF Entries
<1>2. read \in Seq(Entries(N)) /\ DOMAIN read = {} /\ Len(read) = 0
  OBVIOUS
<1>3. Typed(N, P, idle, read, readers, entry, write)
  BY <1>1, <1>2 DEF Typed
<1>4. ToSet(idle) = Entries(N) /\ ToSet(read) = {}
  BY <1>1, <1>2 DEF ToSet
<1>5. OnePlace(N, P, idle, read, entry, write)
  BY <1>1, <1>2, <1>4 DEF OnePlace, NoRepeats
<1>6. Counted(N, P, read, readers, entry, write)
  <2>1. \A f \in Entries(N) : ReadersOf(P, entry, write, f) = {}
    BY DEF ReadersOf, Entries
  <2>. QED BY <2>1, FS_EmptySet DEF Counted
<1>7. NewestUnread(read, readers)
  BY <1>2 DEF NewestUnread
<1>. QED
  BY <1>3, <1>5, <1>6, <1>7 DEF QueueInv

\* AcquireRead keeps the invariant, and so do
LEMMA ReadsInv ==
  ASSUME NEW N \in Nat \ {0}, NEW P, IsFiniteSet(P),
         NEW idle, NEW read, NEW readers, NEW entry, NEW write,
         QueueInv(N, P, idle, read, readers, entry, write), NEW p \in P,
         NEW readers2, NEW entry2,
         entry[p] = 0, read # << >>,
         readers2 = [readers EXCEPT ![Last(read)] = @ + 1],
         entry2 = [entry EXCEPT ![p] = Last(read)]
  PROVE  QueueInv(N, P, idle, read, readers2, entry2, write)
<1>. DEFINE last == Last(read)
<1>1. /\ Typed(N, P, idle, read, readers, entry, write)
      /\ OnePlace(N, P, idle, read, entry, write)
      /\ Counted(N, P, read, readers, entry, write) /\ NewestUnread(read, readers)
      /\ read # << >> /\ read \in Seq(Entries(N))
  BY DEF QueueInv, Typed
<1>2. last \in ToSet(read) /\ last \in Entries(N)
  <2>1. last \in ToSet(read)
    BY <1>1, DropLast
  <2>. QED BY <2>1, <1>1, LenProperties DEF ToSet
<1>3. ~write[p] /\ entry[p] = 0 /\ 0 \notin Entries(N)
  BY <1>1 DEF OnePlace, Entries
<1>4. Typed(N, P, idle, read, readers2, entry2, write)
  BY <1>1, <1>2 DEF Typed
<1>5. OnePlace(N, P, idle, read, entry2, write)
  BY <1>1, <1>3 DEF OnePlace, Typed
<1>6. Counted(N, P, read, readers2, entry2, write)
  <2>1. ASSUME NEW f \in Entries(N)
        PROVE  readers2[f] = Cardinality(ReadersOf(P, entry2, write, f))
    <3>1. CASE f = last
      <4>1. /\ ReadersOf(P, entry2, write, f) = ReadersOf(P, entry, write, f) \cup {p}
            /\ p \notin ReadersOf(P, entry, write, f)
        BY <1>1, <1>2, <1>3, <3>1 DEF ReadersOf, Typed
      <4>2. IsFiniteSet(ReadersOf(P, entry, write, f))
        BY ReadersFinite
      <4>3. Cardinality(ReadersOf(P, entry2, write, f))
              = Cardinality(ReadersOf(P, entry, write, f)) + 1
        BY <4>1, <4>2, FS_AddElement, ZenonT(60)
      <4>. QED BY <1>1, <1>2, <3>1, <4>3 DEF Counted, Typed
    <3>2. CASE f # last
      <4>1. ReadersOf(P, entry2, write, f) = ReadersOf(P, entry, write, f)
        BY <1>1, <1>2, <1>3, <3>2 DEF ReadersOf, Typed
      <4>. QED BY <1>1, <1>2, <3>2, <4>1 DEF Counted, Typed
    <3>. QED BY <3>1, <3>2
  <2>2. ASSUME NEW q \in P, entry2[q] # 0, ~write[q]
        PROVE  entry2[q] \in ToSet(read)
    BY <1>1, <1>2, <2>2 DEF Counted, Typed
  <2>. QED BY <2>1, <2>2 DEF Counted
<1>7. NewestUnread(read, readers2)
  <2>1. \A i \in DOMAIN read : read[i] \in Entries(N)
    BY <1>1, LenProperties
  <2>. QED BY <1>1, <1>2, <2>1 DEF NewestUnread, Typed
<1>. QED
  BY <1>4, <1>5, <1>6, <1>7 DEF QueueInv

\* AcquireWrite,
LEMMA TakesInv ==
  ASSUME NEW N \in Nat \ {0}, NEW P, IsFiniteSet(P),
         NEW idle, NEW read, NEW readers, NEW entry, NEW write,
         QueueInv(N, P, idle, read, readers, entry, write), NEW p \in P,
         NEW idle2, NEW entry2, NEW write2,
         entry[p] = 0, idle # << >>,
         entry2 = [entry EXCEPT ![p] = Last(idle)],
         write2 = [write EXCEPT ![p] = TRUE],
         idle2 = Front(idle)
  PROVE  QueueInv(N, P, idle2, read, readers, entry2, write2)
<1>. DEFINE last == Last(idle)
<1>1. /\ Typed(N, P, idle, read, readers, entry, write)
      /\ OnePlace(N, P, idle, read, entry, write)
      /\ Counted(N, P, read, readers, entry, write) /\ NewestUnread(read, readers)
      /\ idle # << >> /\ idle \in Seq(Entries(N))
      /\ NoRepeats(idle)
  BY DEF QueueInv, Typed, OnePlace
<1>2. /\ Front(idle) \in Seq(Entries(N))
      /\ last \in ToSet(idle)
      /\ NoRepeats(Front(idle))
      /\ ToSet(Front(idle)) = ToSet(idle) \ {last}
  BY <1>1, DropLast
<1>3. last \in Entries(N)
  BY <1>1, <1>2, LenProperties DEF ToSet
<1>4. ~write[p] /\ entry[p] = 0 /\ 0 \notin Entries(N)
  BY <1>1 DEF OnePlace, Entries
<1>5. Typed(N, P, idle2, read, readers, entry2, write2)
  BY <1>1, <1>2, <1>3 DEF Typed
<1>6. OnePlace(N, P, idle2, read, entry2, write2)
  BY <1>1, <1>2, <1>3, <1>4 DEF OnePlace, Typed
<1>7. Counted(N, P, read, readers, entry2, write2)
  <2>1. \A f \in Entries(N) : ReadersOf(P, entry2, write2, f) = ReadersOf(P, entry, write, f)
    BY <1>1, <1>4 DEF ReadersOf, Typed
  <2>2. ASSUME NEW q \in P, entry2[q] # 0, ~write2[q]
        PROVE  entry2[q] \in ToSet(read)
    BY <1>1, <2>2 DEF Counted, Typed
  <2>. QED BY <1>1, <2>1, <2>2 DEF Counted
<1>8. NewestUnread(read, readers)
  BY <1>1 DEF NewestUnread
<1>. QED
  BY <1>5, <1>6, <1>7, <1>8 DEF QueueInv

\* CommitWrite,
LEMMA CommitsInv ==
  ASSUME NEW N \in Nat \ {0}, NEW P, IsFiniteSet(P),
         NEW idle, NEW read, NEW readers, NEW entry, NEW write,
         QueueInv(N, P, idle, read, readers, entry, write), NEW p \in P,
         NEW idle2, NEW read2, NEW entry2, NEW write2,
         entry[p] # 0, write[p],
         PublishesEntry(entry[p], idle, read, readers, idle2, read2),
         write2 = [write EXCEPT ![p] = FALSE],
         entry2 = [entry EXCEPT ![p] = 0]
  PROVE  QueueInv(N, P, idle2, read2, readers, entry2, write2)
<1>1. /\ Typed(N, P, idle, read, readers, entry, write)
      /\ OnePlace(N, P, idle, read, entry, write)
      /\ Counted(N, P, read, readers, entry, write) /\ NewestUnread(read, readers)
      /\ entry[p] # 0 /\ write[p] /\ entry[p] \in Entries(N)
      /\ readers \in [Entries(N) -> Int]
  BY DEF QueueInv, Typed
<1>2. /\ idle2 \in Seq(Entries(N)) /\ read2 \in Seq(Entries(N))
      /\ NoRepeats(idle2) /\ NoRepeats(read2)
      /\ ToSet(idle2) \cap ToSet(read2) = {}
      /\ ToSet(idle2) \cup ToSet(read2)
           = ToSet(idle) \cup ToSet(read) \cup {entry[p]}
      /\ \A f : f \in ToSet(read2) <=>
                 (f \in ToSet(read) /\ readers[f] > 0) \/ f = entry[p]
      /\ \A i \in 1..(Len(read2) - 1) : readers[read2[i]] > 0
      /\ Len(read2) \in Nat \ {0}
  <2>1. EntryPublished(N, entry[p], idle, read, readers, idle2, read2)
    BY CommitVectors
  <2>. QED BY <2>1 DEF EntryPublished
<1>3. Typed(N, P, idle2, read2, readers, entry2, write2)
  BY <1>1, <1>2 DEF Typed
<1>4. /\ write2 = [write EXCEPT ![p] = FALSE]
      /\ entry2 = [entry EXCEPT ![p] = 0]
  OBVIOUS
<1>5. OnePlace(N, P, idle2, read2, entry2, write2)
  BY <1>1, <1>2, <1>4 DEF OnePlace, Typed
<1>6. Counted(N, P, read2, readers, entry2, write2)
  <2>1. ASSUME NEW f \in Entries(N)
        PROVE  ReadersOf(P, entry2, write2, f) = ReadersOf(P, entry, write, f)
    BY <1>1, <1>4, 0 \notin Entries(N) DEF ReadersOf, Typed, Entries
  <2>2. ASSUME NEW q \in P, entry2[q] # 0, ~write2[q]
        PROVE  entry2[q] \in ToSet(read2)
    <3>1. /\ q # p /\ entry2[q] = entry[q] /\ ~write[q] /\ entry[q] \in Entries(N)
          /\ entry[q] \in ToSet(read)
      BY <1>1, <1>4, <2>2 DEF Typed, Counted
    <3>2. q \in ReadersOf(P, entry, write, entry[q])
      BY <3>1 DEF ReadersOf
    <3>3. readers[entry[q]] > 0
      BY <1>1, <3>1, <3>2, ReadersFinite DEF Counted
    <3>. QED BY <1>2, <3>1, <3>3
  <2>. QED BY <1>1, <1>4, <2>1, <2>2 DEF Counted
<1>7. NewestUnread(read2, readers)
  BY <1>2, <1>4, LenProperties DEF NewestUnread
<1>. QED
  BY <1>3, <1>5, <1>6, <1>7 DEF QueueInv

\* CommitWriteAndAcquireRead,
LEMMA CommitsAndReadsInv ==
  ASSUME NEW N \in Nat \ {0}, NEW P, IsFiniteSet(P),
         NEW idle, NEW read, NEW readers, NEW entry, NEW write,
         QueueInv(N, P, idle, read, readers, entry, write), NEW p \in P,
         NEW idle2, NEW read2, NEW readers2, NEW write2,
         entry[p] # 0, write[p],
         PublishesEntry(entry[p], idle, read, readers, idle2, read2),
         write2 = [write EXCEPT ![p] = FALSE],
         readers2 = [readers EXCEPT ![entry[p]] = @ + 1]
  PROVE  QueueInv(N, P, idle2, read2, readers2, entry, write2)
<1>. DEFINE e == entry[p]
<1>1. /\ Typed(N, P, idle, read, readers, entry, write)
      /\ OnePlace(N, P, idle, read, entry, write)
      /\ Counted(N, P, read, readers, entry, write) /\ NewestUnread(read, readers)
      /\ e # 0 /\ write[p] /\ e \in Entries(N)
      /\ readers \in [Entries(N) -> Int]
  BY DEF QueueInv, Typed
<1>2. /\ idle2 \in Seq(Entries(N)) /\ read2 \in Seq(Entries(N))
      /\ NoRepeats(idle2) /\ NoRepeats(read2)
      /\ ToSet(idle2) \cap ToSet(read2) = {}
      /\ ToSet(idle2) \cup ToSet(read2)
           = ToSet(idle) \cup ToSet(read) \cup {e}
      /\ ToSet(read2) =
           {f \in ToSet(read) : readers[f] > 0} \cup {e}
      /\ \A i \in 1..(Len(read2) - 1) : readers[read2[i]] > 0
      /\ Len(read2) \in Nat \ {0}
  <2>1. EntryPublished(N, entry[p], idle, read, readers, idle2, read2)
    BY CommitVectors
  <2>. QED BY <2>1 DEF EntryPublished
<1>3. /\ write2 = [write EXCEPT ![p] = FALSE]
      /\ readers2 = [readers EXCEPT ![e] = @ + 1]
  OBVIOUS
<1>4. Typed(N, P, idle2, read2, readers2, entry, write2)
  BY <1>1, <1>2, <1>3 DEF Typed
<1>5. OnePlace(N, P, idle2, read2, entry, write2)
  BY <1>1, <1>2, <1>3 DEF OnePlace, Typed
<1>6. Counted(N, P, read2, readers2, entry, write2)
  <2>1. ASSUME NEW f \in Entries(N)
        PROVE  readers2[f] = Cardinality(ReadersOf(P, entry, write2, f))
    <3>1. CASE f = e
      <4>1. /\ ReadersOf(P, entry, write2, f) = ReadersOf(P, entry, write, f) \cup {p}
            /\ p \notin ReadersOf(P, entry, write, f)
        BY <1>1, <1>3, <3>1 DEF ReadersOf, Typed
      <4>2. IsFiniteSet(ReadersOf(P, entry, write, f))
        BY ReadersFinite
      <4>3. Cardinality(ReadersOf(P, entry, write2, f))
              = Cardinality(ReadersOf(P, entry, write, f)) + 1
        BY <4>1, <4>2, FS_AddElement
      <4>. QED BY <1>1, <1>3, <3>1, <4>3 DEF Counted
    <3>2. CASE f # e
      <4>1. ReadersOf(P, entry, write2, f) = ReadersOf(P, entry, write, f)
        BY <1>1, <1>3, <3>2 DEF ReadersOf, Typed
      <4>. QED BY <1>1, <1>3, <3>2, <4>1 DEF Counted
    <3>. QED BY <3>1, <3>2
  <2>2. ASSUME NEW q \in P, entry[q] # 0, ~write2[q]
        PROVE  entry[q] \in ToSet(read2)
    <3>1. CASE q = p
      BY <1>2, <1>3, <3>1
    <3>2. CASE q # p
      <4>1. /\ ~write[q] /\ entry[q] \in Entries(N)
            /\ entry[q] \in ToSet(read)
        BY <1>1, <1>3, <2>2, <3>2 DEF Typed, Counted
      <4>2. q \in ReadersOf(P, entry, write, entry[q])
        BY <4>1 DEF ReadersOf
      <4>3. readers[entry[q]] > 0
        BY <1>1, <4>1, <4>2, ReadersFinite DEF Counted
      <4>. QED BY <1>2, <4>1, <4>3
    <3>. QED BY <3>1, <3>2
  <2>. QED BY <2>1, <2>2 DEF Counted
<1>7. NewestUnread(read2, readers2)
  <2>1. \A i \in 1..Len(read2) : read2[i] \in Entries(N)
    BY <1>2, LenProperties
  <2>2. \A f \in Entries(N) : readers[f] > 0 => readers2[f] > 0
    BY <1>1, <1>3
  <2>3. DOMAIN read2 = 1..Len(read2) /\ Len(read2) \in Nat
    BY <1>2, LenProperties
  <2>. QED BY <1>2, <2>1, <2>2, <2>3 DEF NewestUnread
<1>. QED
  BY <1>4, <1>5, <1>6, <1>7 DEF QueueInv

\* and the destruction of a write FramePtr.
LEMMA RescindsInv ==
  ASSUME NEW N \in Nat \ {0}, NEW P, IsFiniteSet(P),
         NEW idle, NEW read, NEW readers, NEW entry, NEW write,
         QueueInv(N, P, idle, read, readers, entry, write), NEW p \in P,
         NEW idle2, NEW entry2, NEW write2,
         entry[p] # 0, write[p],
         idle2 = Append(idle, entry[p]),
         entry2 = [entry EXCEPT ![p] = 0],
         write2 = [write EXCEPT ![p] = FALSE]
  PROVE  QueueInv(N, P, idle2, read, readers, entry2, write2)
<1>. DEFINE e == entry[p]
<1>1. /\ Typed(N, P, idle, read, readers, entry, write)
      /\ OnePlace(N, P, idle, read, entry, write)
      /\ Counted(N, P, read, readers, entry, write) /\ NewestUnread(read, readers)
      /\ e # 0 /\ e \in Entries(N) /\ e \notin ToSet(idle)
      /\ idle \in Seq(Entries(N)) /\ NoRepeats(idle)
  BY DEF QueueInv, Typed, OnePlace
<1>2. /\ idle2 = Append(idle, e)
      /\ read = read /\ readers = readers
      /\ entry2 = [entry EXCEPT ![p] = 0]
      /\ write2 = [write EXCEPT ![p] = FALSE]
  OBVIOUS
<1>3. /\ idle2 \in Seq(Entries(N))
      /\ NoRepeats(idle2)
      /\ ToSet(idle2) = ToSet(idle) \cup {e}
  BY <1>1, <1>2, AppendElement
<1>4. Typed(N, P, idle2, read, readers, entry2, write2)
  BY <1>1, <1>2, <1>3 DEF Typed
<1>5. OnePlace(N, P, idle2, read, entry2, write2)
  BY <1>1, <1>2, <1>3 DEF OnePlace, Typed
<1>6. Counted(N, P, read, readers, entry2, write2)
  <2>1. \A f \in Entries(N) : ReadersOf(P, entry2, write2, f) = ReadersOf(P, entry, write, f)
    BY <1>1, <1>2, 0 \notin Entries(N) DEF ReadersOf, Typed, Entries
  <2>. QED BY <1>1, <1>2, <2>1 DEF Counted, Typed
<1>7. NewestUnread(read, readers)
  BY <1>1, <1>2 DEF NewestUnread
<1>. QED
  BY <1>4, <1>5, <1>6, <1>7 DEF QueueInv

\* What destroying a read FramePtr does to the vectors and counters,
LEMMA ReleaseEffect ==
  ASSUME NEW N \in Nat \ {0}, NEW P, IsFiniteSet(P),
         NEW idle, NEW read, NEW readers, NEW entry, NEW write,
         QueueInv(N, P, idle, read, readers, entry, write), NEW p \in P,
         NEW idle2, NEW read2, NEW readers2, NEW entry2,
         entry[p] # 0, ~write[p],
         entry2 = [entry EXCEPT ![p] = 0],
         ReleasesRead(entry[p], idle, read, readers, idle2, read2, readers2)
  PROVE  EntryReleased(N, entry[p], idle, read, readers, idle2, read2, readers2)
<1>. DEFINE e == entry[p]
<1>1. /\ Typed(N, P, idle, read, readers, entry, write)
      /\ OnePlace(N, P, idle, read, entry, write)
      /\ Counted(N, P, read, readers, entry, write)
      /\ e # 0 /\ e \in Entries(N) /\ e \in ToSet(read)
      /\ readers \in [Entries(N) -> Int] /\ read \in Seq(Entries(N))
  BY DEF QueueInv, Typed, Counted
<1>2. readers[e] >= 1
  <2>1. p \in ReadersOf(P, entry, write, e)
    BY DEF ReadersOf
  <2>. QED BY <1>1, <2>1, ReadersFinite DEF Counted
<1>3. Len(read) \in Nat \ {0} /\ DOMAIN read = 1..Len(read)
  BY <1>1, LenProperties DEF ToSet
<1>4. PICK i \in DOMAIN read :
        /\ read[i] = e
        /\ readers2 = [readers EXCEPT ![e] = @ - 1]
        /\ IF Len(read) > 1 /\ readers[e] - 1 <= 0
           THEN /\ idle2 = Append(idle, e)
                /\ read2 = RemoveAt(read, i)
           ELSE idle2 = idle /\ read2 = read
  BY <1>1 DEF ReleasesRead
<1>5. CASE Len(read) > 1 /\ readers[e] - 1 <= 0
  <2>1. readers[e] = 1
    BY <1>1, <1>2, <1>5
  <2>. QED BY <1>1, <1>2, <1>3, <1>4, <1>5, <2>1 DEF EntryReleased
<1>6. CASE ~(Len(read) > 1 /\ readers[e] - 1 <= 0)
  <2>1. Len(read) = 1 \/ readers[e] > 1
    BY <1>1, <1>2, <1>3, <1>6
  <2>. QED BY <1>1, <1>2, <1>4, <1>6, <2>1 DEF EntryReleased
<1>. QED
  BY <1>5, <1>6

\* and that it keeps the invariant.
LEMMA ReleasesInv ==
  ASSUME NEW N \in Nat \ {0}, NEW P, IsFiniteSet(P),
         NEW idle, NEW read, NEW readers, NEW entry, NEW write,
         QueueInv(N, P, idle, read, readers, entry, write), NEW p \in P,
         NEW idle2, NEW read2, NEW readers2, NEW entry2,
         entry[p] # 0, ~write[p],
         entry2 = [entry EXCEPT ![p] = 0],
         ReleasesRead(entry[p], idle, read, readers, idle2, read2, readers2)
  PROVE  QueueInv(N, P, idle2, read2, readers2, entry2, write)
<1>0. /\ entry[p] \in Entries(N) /\ entry[p] \in ToSet(read)
      /\ readers[entry[p]] >= 1
      /\ readers2 = [readers EXCEPT ![entry[p]] = @ - 1]
      /\ \/ /\ Len(read) = 1 \/ readers[entry[p]] > 1
            /\ idle2 = idle /\ read2 = read
         \/ /\ Len(read) > 1 /\ readers[entry[p]] = 1
            /\ idle2 = Append(idle, entry[p])
            /\ \E i \in 1..Len(read) :
                 read[i] = entry[p] /\ read2 = RemoveAt(read, i)
  <2>1. EntryReleased(N, entry[p], idle, read, readers, idle2, read2, readers2)
    BY ReleaseEffect
  <2>. QED BY <2>1 DEF EntryReleased
<1>. PICK e \in Entries(N) : e = entry[p]
  BY <1>0
<1>1. /\ Typed(N, P, idle, read, readers, entry, write)
      /\ OnePlace(N, P, idle, read, entry, write)
      /\ Counted(N, P, read, readers, entry, write) /\ NewestUnread(read, readers)
      /\ readers \in [Entries(N) -> Int]
      /\ idle \in Seq(Entries(N)) /\ read \in Seq(Entries(N))
      /\ NoRepeats(idle) /\ NoRepeats(read)
      /\ ToSet(idle) \cap ToSet(read) = {}
      /\ 0 \notin Entries(N)
  BY DEF QueueInv, Typed, OnePlace, Entries
<1>2. /\ e \in Entries(N) /\ e \in ToSet(read) /\ readers[e] >= 1
      /\ readers2 = [readers EXCEPT ![e] = @ - 1]
      /\ entry2 = [entry EXCEPT ![p] = 0]
  BY <1>0
<1>3. Len(read) \in Nat /\ DOMAIN read = 1..Len(read)
  BY <1>1, LenProperties
<1>4. \A f \in Entries(N) : readers2[f] = Cardinality(ReadersOf(P, entry2, write, f))
  <2>. TAKE f \in Entries(N)
  <2>1. CASE f = e
    <3>1. /\ ReadersOf(P, entry2, write, f) = ReadersOf(P, entry, write, f) \ {p}
          /\ p \in ReadersOf(P, entry, write, f)
      BY <1>1, <1>2, <2>1 DEF ReadersOf, Typed
    <3>2. Cardinality(ReadersOf(P, entry2, write, f))
            = Cardinality(ReadersOf(P, entry, write, f)) - 1
      <4>1. IsFiniteSet(ReadersOf(P, entry, write, f))
        BY ReadersFinite
      <4>. QED BY <3>1, <4>1, FS_RemoveElement
    <3>. QED BY <1>1, <1>2, <2>1, <3>2 DEF Counted
  <2>2. CASE f # e
    <3>1. ReadersOf(P, entry2, write, f) = ReadersOf(P, entry, write, f)
      BY <1>1, <1>2, <2>2 DEF ReadersOf, Typed
    <3>. QED BY <1>1, <1>2, <2>2, <3>1 DEF Counted
  <2>. QED BY <2>1, <2>2
<1>5. CASE /\ Len(read) = 1 \/ readers[e] > 1
           /\ idle2 = idle /\ read2 = read
  <2>1. Typed(N, P, idle2, read2, readers2, entry2, write)
    BY <1>1, <1>2, <1>5 DEF Typed
  <2>2. OnePlace(N, P, idle2, read2, entry2, write)
    BY <1>1, <1>2, <1>5 DEF OnePlace, Typed
  <2>3. Counted(N, P, read2, readers2, entry2, write)
    BY <1>1, <1>2, <1>4, <1>5 DEF Counted, Typed
  <2>4. NewestUnread(read2, readers2)
    <3>1. \A i \in 1..Len(read) : read[i] \in Entries(N)
      BY <1>1, <1>3
    <3>2. CASE Len(read) = 1
      BY <1>3, <1>5, <3>2 DEF NewestUnread
    <3>3. CASE readers[e] > 1
      <4>1. \A f \in Entries(N) : readers[f] > 0 => readers2[f] > 0
        BY <1>1, <1>2, <3>3
      <4>. QED BY <1>1, <1>3, <1>5, <3>1, <4>1 DEF NewestUnread
    <3>. QED BY <1>5, <3>2, <3>3
  <2>. QED BY <2>1, <2>2, <2>3, <2>4 DEF QueueInv
<1>6. CASE /\ Len(read) > 1 /\ readers[e] = 1
           /\ idle2 = Append(idle, e)
           /\ \E i \in 1..Len(read) :
                read[i] = e /\ read2 = RemoveAt(read, i)
  <2>1. PICK k \in 1..Len(read) :
          read[k] = e /\ read2 = RemoveAt(read, k)
    BY <1>6
  <2>2. /\ read2 \in Seq(Entries(N))
        /\ Len(read2) = Len(read) - 1
        /\ \A i \in 1..(Len(read) - 1) :
             read2[i] = IF i < k THEN read[i] ELSE read[i + 1]
        /\ NoRepeats(read2)
        /\ ToSet(read2) = ToSet(read) \ {e}
    <3>1. NoRepeats(RemoveAt(read, k))
          /\ ToSet(RemoveAt(read, k)) = ToSet(read) \ {read[k]}
      BY <1>1, Erase
    <3>2. /\ RemoveAt(read, k) \in Seq(Entries(N))
          /\ Len(RemoveAt(read, k)) = Len(read) - 1
          /\ \A i \in 1..(Len(read) - 1) :
               RemoveAt(read, k)[i] = IF i < k THEN read[i] ELSE read[i + 1]
      BY <1>1, Erase
    <3>. QED BY <2>1, <3>1, <3>2
  <2>3. /\ idle2 \in Seq(Entries(N))
        /\ NoRepeats(idle2)
        /\ ToSet(idle2) = ToSet(idle) \cup {e}
    BY <1>1, <1>2, <1>6, AppendElement
  <2>4. Typed(N, P, idle2, read2, readers2, entry2, write)
    BY <1>1, <1>2, <2>2, <2>3 DEF Typed
  <2>5. OnePlace(N, P, idle2, read2, entry2, write)
    BY <1>1, <1>2, <2>2, <2>3 DEF OnePlace, Typed
  <2>6. Counted(N, P, read2, readers2, entry2, write)
    <3>1. ASSUME NEW q \in P, entry2[q] # 0, ~write[q]
          PROVE  entry2[q] \in ToSet(read2)
      <4>1. /\ q # p /\ entry2[q] = entry[q] /\ ~write[q] /\ entry[q] \in Entries(N)
            /\ entry[q] \in ToSet(read)
        BY <1>1, <1>2, <3>1 DEF Typed, Counted
      <4>2. entry[q] # e
        <5>1. SUFFICES ASSUME entry[q] = e PROVE FALSE
          OBVIOUS
        <5>2. q \in ReadersOf(P, entry2, write, e) /\ e \in Entries(N)
          BY <1>1, <1>2, <3>1, <4>1, <5>1 DEF ReadersOf
        <5>3. readers2[e] = 0
          BY <1>1, <1>2, <1>6
        <5>4. IsFiniteSet(ReadersOf(P, entry2, write, e))
          <6>1. ReadersOf(P, entry2, write, e) \in SUBSET P
            BY DEF ReadersOf
          <6>. QED BY <6>1, FS_Subset
        <5>. QED BY <1>4, <5>2, <5>3, <5>4, FS_EmptySet
      <4>. QED BY <2>2, <4>1, <4>2
    <3>. QED BY <1>4, <3>1 DEF Counted
  <2>7. NewestUnread(read2, readers2)
    <3>1. DOMAIN read2 = 1..(Len(read) - 1)
      BY <2>2, LenProperties
    <3>2. ASSUME NEW i \in 1..(Len(read) - 2)
          PROVE  readers2[read2[i]] > 0
      <4>1. PICK j \in 1..(Len(read) - 1) :
              read2[i] = read[j] /\ j # k
        <5>1. CASE i < k
          BY <1>3, <2>2, <5>1
        <5>2. CASE ~(i < k)
          <6>1. i + 1 \in 1..(Len(read) - 1) /\ i + 1 # k
            BY <1>3, <5>2
          <6>. QED BY <1>3, <2>2, <5>2, <6>1
        <5>. QED BY <5>1, <5>2
      <4>2. j \in DOMAIN read /\ k \in DOMAIN read /\ j < Len(read)
        BY <1>3
      <4>3. read[j] # e /\ read[j] \in Entries(N)
        BY <1>1, <1>3, <2>1, <4>1, <4>2 DEF NoRepeats
      <4>4. readers[read[j]] > 0
        BY <1>1, <4>2 DEF NewestUnread
      <4>. QED BY <1>1, <1>2, <4>1, <4>3, <4>4
    <3>. QED BY <1>3, <2>2, <3>1, <3>2 DEF NewestUnread
  <2>. QED BY <2>4, <2>5, <2>6, <2>7 DEF QueueInv
<1>. QED
  BY <1>0, <1>5, <1>6

\* When no entry is idle, each is referenced or is the newest published one.
LEMMA NoneIdle ==
  ASSUME NEW N \in Nat \ {0}, NEW P, IsFiniteSet(P),
         NEW idle, NEW read, NEW readers, NEW entry, NEW write,
         QueueInv(N, P, idle, read, readers, entry, write),
         idle = << >>, NEW f \in Entries(N), f # Last(read)
  PROVE  \E p \in P : entry[p] = f
<1>1. /\ Typed(N, P, idle, read, readers, entry, write)
      /\ OnePlace(N, P, idle, read, entry, write)
      /\ Counted(N, P, read, readers, entry, write) /\ NewestUnread(read, readers)
      /\ read \in Seq(Entries(N)) /\ ToSet(idle) = {}
  BY DEF QueueInv, Typed, ToSet
<1>2. CASE f \in ToSet(read)
  <2>1. PICK i \in 1..Len(read) : f = read[i]
    BY <1>1, <1>2, LenProperties DEF ToSet
  <2>2. i < Len(read) /\ i \in DOMAIN read
    BY <1>1, <2>1, LenProperties DEF Last
  <2>3. readers[f] > 0
    BY <1>1, <2>1, <2>2 DEF NewestUnread
  <2>4. ReadersOf(P, entry, write, f) # {}
    BY <1>1, <2>3, ReadersFinite DEF Counted
  <2>. QED BY <2>4 DEF ReadersOf
<1>3. CASE f \notin ToSet(read)
  BY <1>1, <1>3 DEF OnePlace
<1>. QED BY <1>2, <1>3

-----------------------------------------------------------------------------
(* What a queue shows to the threads, again of values: the images of the   *)
(* published frames, that of the newest, and that of the frame each        *)
(* reference stands for.                                                   *)

ImagesIn(read, content) == {content[f] : f \in ToSet(read)}

Pool(N, P, idle, read, readers, entry, write, content) ==
  /\ QueueInv(N, P, idle, read, readers, entry, write)
  /\ content \in [Entries(N) -> Image]

\* What is always so.
Consistent(P, read, entry, write, content) ==
  /\ \A r \in P :
       /\ write[r] \in BOOLEAN
       /\ entry[r] = 0 => ~write[r] /\ ImageOf(entry[r], content) = NoImage
       /\ entry[r] # 0 => ImageOf(entry[r], content) \in Image
       /\ entry[r] # 0 /\ ~write[r] =>
            ImageOf(entry[r], content) \in ImagesIn(read, content)
  /\ ImagesIn(read, content) \subseteq Image
  /\ read = << >> => ImagesIn(read, content) = {} /\ Newest(read, content) = NoImage
  /\ read # << >> => Newest(read, content) \in ImagesIn(read, content)

\* An operation of reference p leaves the others alone.
Aside(P, p, entry, write, content, entry2, write2, content2) ==
  \A r \in P : r # p =>
    /\ entry2[r] = entry[r]
    /\ write2[r] = write[r]
    /\ ImageOf(entry2[r], content2) = ImageOf(entry[r], content)

\* It leaves what is published alone.
AsBefore(read, content, read2, content2) ==
  /\ read2 = read
  /\ Newest(read2, content2) = Newest(read, content)
  /\ ImagesIn(read2, content2) = ImagesIn(read, content)

Reading(P, p, read, entry, write, content, read2, entry2, write2, content2) ==
  /\ Aside(P, p, entry, write, content, entry2, write2, content2)
  /\ AsBefore(read, content, read2, content2)
  /\ read # << >>
  /\ entry[p] = 0 /\ entry2[p] # 0 /\ ~write2[p]
  /\ ImageOf(entry2[p], content2) = Newest(read, content)

Taking(P, p, read, entry, write, content, read2, entry2, write2, content2) ==
  /\ Aside(P, p, entry, write, content, entry2, write2, content2)
  /\ AsBefore(read, content, read2, content2)
  /\ entry[p] = 0 /\ entry2[p] # 0 /\ write2[p]

Filling(P, p, read, entry, write, content, read2, entry2, write2, content2) ==
  /\ Aside(P, p, entry, write, content, entry2, write2, content2)
  /\ AsBefore(read, content, read2, content2)
  /\ entry[p] # 0 /\ entry2[p] = entry[p] /\ write[p] /\ write2[p]

Publishing(P, p, read, entry, write, content, read2, entry2, write2, content2) ==
  /\ Aside(P, p, entry, write, content, entry2, write2, content2)
  /\ entry[p] # 0 /\ write[p] /\ ~write2[p]
  /\ read2 # << >>
  /\ Newest(read2, content2) = ImageOf(entry[p], content)
  /\ ImagesIn(read2, content2)
       \subseteq ImagesIn(read, content) \cup {ImageOf(entry[p], content)}

Committing(P, p, read, entry, write, content, read2, entry2, write2, content2) ==
  /\ Publishing(P, p, read, entry, write, content, read2, entry2, write2, content2)
  /\ entry2[p] = 0

CommittingToRead(P, p, read, entry, write, content, read2, entry2, write2, content2) ==
  /\ Publishing(P, p, read, entry, write, content, read2, entry2, write2, content2)
  /\ entry2[p] = entry[p]
  /\ ImageOf(entry2[p], content2) = ImageOf(entry[p], content)

Rescinding(P, p, read, entry, write, content, read2, entry2, write2, content2) ==
  /\ Aside(P, p, entry, write, content, entry2, write2, content2)
  /\ AsBefore(read, content, read2, content2)
  /\ entry[p] # 0 /\ write[p] /\ entry2[p] = 0 /\ ~write2[p]

\* A release can take the newest frame away, but then others read all that
\* stays published.
Releasing(P, p, read, entry, write, content, read2, entry2, write2, content2) ==
  /\ Aside(P, p, entry, write, content, entry2, write2, content2)
  /\ entry[p] # 0 /\ ~write[p] /\ entry2[p] = 0 /\ ~write2[p]
  /\ read2 # << >>
  /\ ImagesIn(read2, content2) \subseteq ImagesIn(read, content)
  /\ \/ Newest(read2, content2) = Newest(read, content)
     \/ /\ Newest(read, content) = ImageOf(entry[p], content)
        /\ \A n \in ImagesIn(read2, content2) : \E r \in P :
             r # p /\ entry[r] # 0 /\ ~write[r] /\ ImageOf(entry[r], content) = n
        /\ \E r \in P : r # p /\ entry[r] = Last(read2) /\ ~write[r]

\* What a queue shows to the threads follows from its invariant.
LEMMA PoolConsistent ==
  ASSUME NEW N \in Nat \ {0}, NEW P, NEW idle, NEW read, NEW readers, NEW entry,
         NEW write, NEW content,
         Pool(N, P, idle, read, readers, entry, write, content)
  PROVE  Consistent(P, read, entry, write, content)
<1>1. /\ Typed(N, P, idle, read, readers, entry, write)
      /\ OnePlace(N, P, idle, read, entry, write)
      /\ Counted(N, P, read, readers, entry, write)
      /\ content \in [Entries(N) -> Image]
  BY DEF Pool, QueueInv
<1>2. /\ read \in Seq(Entries(N)) /\ entry \in [P -> Entries(N) \cup {0}]
      /\ write \in [P -> BOOLEAN] /\ 0 \notin Entries(N)
  BY <1>1 DEF Typed, Entries
<1>3. ToSet(read) \subseteq Entries(N)
  BY <1>2, LenProperties DEF ToSet
<1>4. ASSUME NEW r \in P
      PROVE  /\ write[r] \in BOOLEAN
             /\ entry[r] = 0 => ~write[r] /\ ImageOf(entry[r], content) = NoImage
             /\ entry[r] # 0 => ImageOf(entry[r], content) \in Image
             /\ entry[r] # 0 /\ ~write[r] =>
                  ImageOf(entry[r], content) \in ImagesIn(read, content)
  <2>1. entry[r] = 0 => ~write[r]
    BY <1>1 DEF OnePlace
  <2>2. entry[r] # 0 /\ ~write[r] => entry[r] \in ToSet(read)
    BY <1>1 DEF Counted
  <2>. QED BY <1>1, <1>2, <2>1, <2>2 DEF ImageOf, ImagesIn
<1>5. ImagesIn(read, content) \subseteq Image
  BY <1>1, <1>3 DEF ImagesIn
<1>6. read = << >> => ImagesIn(read, content) = {} /\ Newest(read, content) = NoImage
  BY DEF ImagesIn, Newest, ToSet
<1>7. read # << >> => Newest(read, content) \in ImagesIn(read, content)
  BY <1>2, DropLast DEF ImagesIn, Newest
<1>. QED
  BY <1>4, <1>5, <1>6, <1>7 DEF Consistent

\* The effects of the operations on what the threads see: AcquireRead,
LEMMA PoolReads ==
  ASSUME NEW N \in Nat \ {0}, NEW P, IsFiniteSet(P),
         NEW idle, NEW read, NEW readers, NEW entry, NEW write, NEW content,
         Pool(N, P, idle, read, readers, entry, write, content), NEW p \in P,
         NEW readers2, NEW entry2,
         entry[p] = 0, read # << >>,
         readers2 = [readers EXCEPT ![Last(read)] = @ + 1],
         entry2 = [entry EXCEPT ![p] = Last(read)]
  PROVE  /\ Pool(N, P, idle, read, readers2, entry2, write, content)
         /\ Reading(P, p, read, entry, write, content, read, entry2, write, content)
<1>1. /\ QueueInv(N, P, idle, read, readers, entry, write)
      /\ entry \in [P -> Entries(N) \cup {0}]
      /\ read \in Seq(Entries(N))
      /\ content \in [Entries(N) -> Image]
      /\ ~write[p] /\ 0 \notin Entries(N)
  BY DEF Pool, QueueInv, Typed, OnePlace, Entries
<1>2. QueueInv(N, P, idle, read, readers2, entry2, write)
  BY <1>1, ReadsInv
<1>3. Last(read) \in Entries(N)
  <2>1. Last(read) \in ToSet(read)
    BY <1>1, DropLast
  <2>. QED BY <1>1, <2>1, LenProperties DEF ToSet
<1>4. entry2[p] = Last(read) /\ \A r \in P : r # p => entry2[r] = entry[r]
  BY <1>1
<1>. QED
  BY <1>1, <1>2, <1>3, <1>4
  DEF Pool, Reading, Aside, AsBefore, ImageOf, Newest

\* AcquireWrite,
LEMMA PoolTakes ==
  ASSUME NEW N \in Nat \ {0}, NEW P, IsFiniteSet(P),
         NEW idle, NEW read, NEW readers, NEW entry, NEW write, NEW content,
         Pool(N, P, idle, read, readers, entry, write, content), NEW p \in P,
         NEW idle2, NEW entry2, NEW write2,
         entry[p] = 0, idle # << >>,
         entry2 = [entry EXCEPT ![p] = Last(idle)],
         write2 = [write EXCEPT ![p] = TRUE],
         idle2 = Front(idle)
  PROVE  /\ Pool(N, P, idle2, read, readers, entry2, write2, content)
         /\ Taking(P, p, read, entry, write, content, read, entry2, write2, content)
<1>1. /\ QueueInv(N, P, idle, read, readers, entry, write)
      /\ entry \in [P -> Entries(N) \cup {0}]
      /\ write \in [P -> BOOLEAN]
      /\ idle \in Seq(Entries(N))
      /\ content \in [Entries(N) -> Image]
      /\ 0 \notin Entries(N)
  BY DEF Pool, QueueInv, Typed, Entries
<1>2. QueueInv(N, P, idle2, read, readers, entry2, write2)
  BY <1>1, TakesInv
<1>3. Last(idle) \in Entries(N)
  <2>1. Last(idle) \in ToSet(idle)
    BY <1>1, DropLast
  <2>. QED BY <1>1, <2>1, LenProperties DEF ToSet
<1>4. /\ entry2[p] = Last(idle) /\ write2[p]
      /\ \A r \in P : r # p => entry2[r] = entry[r] /\ write2[r] = write[r]
  BY <1>1
<1>. QED
  BY <1>1, <1>2, <1>3, <1>4 DEF Pool, Taking, Aside, AsBefore

\* writing a frame,
LEMMA PoolFills ==
  ASSUME NEW N \in Nat \ {0}, NEW P, IsFiniteSet(P),
         NEW idle, NEW read, NEW readers, NEW entry, NEW write, NEW content,
         Pool(N, P, idle, read, readers, entry, write, content), NEW p \in P,
         NEW content2, NEW c \in Image,
         entry[p] # 0, write[p],
         content2 = [content EXCEPT ![entry[p]] = c]
  PROVE  /\ Pool(N, P, idle, read, readers, entry, write, content2)
         /\ Filling(P, p, read, entry, write, content, read, entry, write, content2)
<1>1. /\ QueueInv(N, P, idle, read, readers, entry, write)
      /\ Typed(N, P, idle, read, readers, entry, write)
      /\ OnePlace(N, P, idle, read, entry, write)
      /\ Counted(N, P, read, readers, entry, write)
      /\ content \in [Entries(N) -> Image] /\ content2 \in [Entries(N) -> Image]
  BY DEF Pool, QueueInv
<1>2. /\ entry[p] \notin ToSet(read)
      /\ read \in Seq(Entries(N)) /\ entry \in [P -> Entries(N) \cup {0}]
      /\ write \in [P -> BOOLEAN]
  BY <1>1 DEF OnePlace, Typed
<1>3. \A f \in Entries(N) : f # entry[p] => content2[f] = content[f]
  BY <1>1
<1>4. \A r \in P : r # p /\ entry[r] # 0 => entry[r] # entry[p]
  BY <1>1, <1>2 DEF OnePlace, Counted
<1>5. ToSet(read) \subseteq Entries(N)
  BY <1>2, LenProperties DEF ToSet
<1>6. Aside(P, p, entry, write, content, entry, write, content2)
  BY <1>2, <1>3, <1>4 DEF Aside, ImageOf
<1>7. \A f \in ToSet(read) : content2[f] = content[f]
  BY <1>2, <1>3, <1>5
<1>8. AsBefore(read, content, read, content2)
  <2>1. ImagesIn(read, content2) = ImagesIn(read, content)
    BY <1>7 DEF ImagesIn
  <2>2. read # << >> => Last(read) \in ToSet(read)
    BY <1>2, DropLast
  <2>. QED BY <1>7, <2>1, <2>2 DEF AsBefore, Newest
<1>. QED
  BY <1>1, <1>6, <1>8 DEF Pool, Filling

\* publishing it in either way,
LEMMA PoolPublishes ==
  ASSUME NEW N \in Nat \ {0}, NEW P,
         NEW idle, NEW read, NEW readers, NEW entry, NEW write, NEW content,
         Pool(N, P, idle, read, readers, entry, write, content), NEW p \in P,
         NEW idle2, NEW read2,
         entry[p] # 0, write[p],
         PublishesEntry(entry[p], idle, read, readers, idle2, read2)
  PROVE  /\ read2 # << >>
         /\ Newest(read2, content) = ImageOf(entry[p], content)
         /\ ImagesIn(read2, content)
              \subseteq ImagesIn(read, content) \cup {ImageOf(entry[p], content)}
<1>1. QueueInv(N, P, idle, read, readers, entry, write)
  BY DEF Pool
<1>2. EntryPublished(N, entry[p], idle, read, readers, idle2, read2)
  BY <1>1, CommitVectors
<1>3. /\ read2 \in Seq(Entries(N)) /\ Len(read2) \in Nat \ {0}
      /\ read2[Len(read2)] = entry[p]
      /\ \A g \in ToSet(read2) : g \in ToSet(read) \/ g = entry[p]
  BY <1>2 DEF EntryPublished
<1>4. read2 # << >> /\ Last(read2) = entry[p]
  BY <1>3 DEF Last
<1>. QED
  BY <1>3, <1>4 DEF Newest, ImagesIn, ImageOf

\* CommitWrite,
LEMMA PoolCommits ==
  ASSUME NEW N \in Nat \ {0}, NEW P, IsFiniteSet(P),
         NEW idle, NEW read, NEW readers, NEW entry, NEW write, NEW content,
         Pool(N, P, idle, read, readers, entry, write, content), NEW p \in P,
         NEW idle2, NEW read2, NEW entry2, NEW write2,
         entry[p] # 0, write[p],
         PublishesEntry(entry[p], idle, read, readers, idle2, read2),
         write2 = [write EXCEPT ![p] = FALSE],
         entry2 = [entry EXCEPT ![p] = 0]
  PROVE  /\ Pool(N, P, idle2, read2, readers, entry2, write2, content)
         /\ Committing(P, p, read, entry, write, content,
                       read2, entry2, write2, content)
<1>1. /\ QueueInv(N, P, idle, read, readers, entry, write)
      /\ entry \in [P -> Entries(N) \cup {0}]
      /\ write \in [P -> BOOLEAN]
      /\ content \in [Entries(N) -> Image]
  BY DEF Pool, QueueInv, Typed
<1>2. QueueInv(N, P, idle2, read2, readers, entry2, write2)
  BY <1>1, CommitsInv
<1>3. /\ entry2[p] = 0 /\ ~write2[p]
      /\ \A r \in P : r # p => entry2[r] = entry[r] /\ write2[r] = write[r]
  BY <1>1
<1>4. /\ read2 # << >>
      /\ Newest(read2, content) = ImageOf(entry[p], content)
      /\ ImagesIn(read2, content)
           \subseteq ImagesIn(read, content) \cup {ImageOf(entry[p], content)}
  BY PoolPublishes, ZenonT(60)
<1>. QED
  BY <1>1, <1>2, <1>3, <1>4 DEF Pool, Committing, Publishing, Aside

\* CommitWriteAndAcquireRead,
LEMMA PoolCommitsAndReads ==
  ASSUME NEW N \in Nat \ {0}, NEW P, IsFiniteSet(P),
         NEW idle, NEW read, NEW readers, NEW entry, NEW write, NEW content,
         Pool(N, P, idle, read, readers, entry, write, content), NEW p \in P,
         NEW idle2, NEW read2, NEW readers2, NEW write2,
         entry[p] # 0, write[p],
         PublishesEntry(entry[p], idle, read, readers, idle2, read2),
         write2 = [write EXCEPT ![p] = FALSE],
         readers2 = [readers EXCEPT ![entry[p]] = @ + 1]
  PROVE  /\ Pool(N, P, idle2, read2, readers2, entry, write2, content)
         /\ CommittingToRead(P, p, read, entry, write, content,
                             read2, entry, write2, content)
<1>1. /\ QueueInv(N, P, idle, read, readers, entry, write)
      /\ write \in [P -> BOOLEAN]
      /\ content \in [Entries(N) -> Image]
  BY DEF Pool, QueueInv, Typed
<1>2. QueueInv(N, P, idle2, read2, readers2, entry, write2)
  BY <1>1, CommitsAndReadsInv
<1>3. /\ ~write2[p]
      /\ \A r \in P : r # p => write2[r] = write[r]
  BY <1>1
<1>4. /\ read2 # << >>
      /\ Newest(read2, content) = ImageOf(entry[p], content)
      /\ ImagesIn(read2, content)
           \subseteq ImagesIn(read, content) \cup {ImageOf(entry[p], content)}
  BY PoolPublishes, ZenonT(60)
<1>. QED
  BY <1>1, <1>2, <1>3, <1>4 DEF Pool, CommittingToRead, Publishing, Aside

\* destroying a write FramePtr,
LEMMA PoolRescinds ==
  ASSUME NEW N \in Nat \ {0}, NEW P, IsFiniteSet(P),
         NEW idle, NEW read, NEW readers, NEW entry, NEW write, NEW content,
         Pool(N, P, idle, read, readers, entry, write, content), NEW p \in P,
         NEW idle2, NEW entry2, NEW write2,
         entry[p] # 0, write[p],
         idle2 = Append(idle, entry[p]),
         entry2 = [entry EXCEPT ![p] = 0],
         write2 = [write EXCEPT ![p] = FALSE]
  PROVE  /\ Pool(N, P, idle2, read, readers, entry2, write2, content)
         /\ Rescinding(P, p, read, entry, write, content,
                       read, entry2, write2, content)
<1>1. /\ QueueInv(N, P, idle, read, readers, entry, write)
      /\ entry \in [P -> Entries(N) \cup {0}]
      /\ write \in [P -> BOOLEAN]
      /\ content \in [Entries(N) -> Image]
  BY DEF Pool, QueueInv, Typed
<1>2. QueueInv(N, P, idle2, read, readers, entry2, write2)
  BY <1>1, RescindsInv
<1>3. /\ entry2[p] = 0 /\ ~write2[p]
      /\ \A r \in P : r # p => entry2[r] = entry[r] /\ write2[r] = write[r]
  BY <1>1
<1>. QED
  BY <1>1, <1>2, <1>3 DEF Pool, Rescinding, Aside, AsBefore

\* and destroying a read one.
LEMMA PoolReleases ==
  ASSUME NEW N \in Nat \ {0}, NEW P, IsFiniteSet(P),
         NEW idle, NEW read, NEW readers, NEW entry, NEW write, NEW content,
         Pool(N, P, idle, read, readers, entry, write, content), NEW p \in P,
         NEW idle2, NEW read2, NEW readers2, NEW entry2,
         entry[p] # 0, ~write[p],
         entry2 = [entry EXCEPT ![p] = 0],
         ReleasesRead(entry[p], idle, read, readers, idle2, read2, readers2)
  PROVE  /\ Pool(N, P, idle2, read2, readers2, entry2, write, content)
         /\ Releasing(P, p, read, entry, write, content,
                      read2, entry2, write, content)
<1>. DEFINE e == entry[p]
<1>1. /\ QueueInv(N, P, idle, read, readers, entry, write)
      /\ Counted(N, P, read, readers, entry, write)
      /\ NewestUnread(read, readers)
      /\ entry \in [P -> Entries(N) \cup {0}]
      /\ readers \in [Entries(N) -> Nat]
      /\ read \in Seq(Entries(N)) /\ NoRepeats(read)
      /\ content \in [Entries(N) -> Image]
  BY DEF Pool, QueueInv, Typed, OnePlace
<1>2. QueueInv(N, P, idle2, read2, readers2, entry2, write)
  BY <1>1, ReleasesInv
<1>3. EntryReleased(N, e, idle, read, readers, idle2, read2, readers2)
  BY <1>1, ReleaseEffect
<1>4. entry2[p] = 0 /\ \A r \in P : r # p => entry2[r] = entry[r]
  BY <1>1
<1>5. Aside(P, p, entry, write, content, entry2, write, content)
  BY <1>4 DEF Aside
<1>6. /\ read2 # << >>
      /\ ImagesIn(read2, content) \subseteq ImagesIn(read, content)
      /\ \/ Newest(read2, content) = Newest(read, content)
         \/ /\ Newest(read, content) = ImageOf(e, content)
            /\ \A n \in ImagesIn(read2, content) : \E r \in P :
                 r # p /\ entry[r] # 0 /\ ~write[r] /\ ImageOf(entry[r], content) = n
            /\ \E r \in P : r # p /\ entry[r] = Last(read2) /\ ~write[r]
  <2>1. CASE read2 = read
    <3>1. e \in ToSet(read)
      BY <1>3 DEF EntryReleased
    <3>2. read # << >>
      BY <3>1 DEF ToSet
    <3>. QED BY <2>1, <3>2 DEF Newest, ImagesIn
  <2>2. CASE read2 # read
    <3>1. PICK i \in 1..Len(read) : read[i] = e /\ read2 = RemoveAt(read, i)
      BY <2>2, <1>3 DEF EntryReleased
    <3>2. Len(read) \in Nat /\ Len(read) > 1
      BY <2>2, <1>1, <1>3, LenProperties DEF EntryReleased
    <3>3. /\ read2 \in Seq(Entries(N))
          /\ Len(read2) = Len(read) - 1
          /\ \A k \in 1..(Len(read) - 1) :
               read2[k] = IF k < i THEN read[k] ELSE read[k + 1]
          /\ ToSet(read2) = ToSet(read) \ {e}
      <4>1. /\ RemoveAt(read, i) \in Seq(Entries(N))
            /\ Len(RemoveAt(read, i)) = Len(read) - 1
            /\ \A k \in 1..(Len(read) - 1) :
                 RemoveAt(read, i)[k] = IF k < i THEN read[k] ELSE read[k + 1]
            /\ ToSet(RemoveAt(read, i)) = ToSet(read) \ {read[i]}
        BY <1>1, Erase
      <4>. QED BY <4>1, <3>1, Zenon
    <3>4. read2 # << >>
      BY <3>2, <3>3
    <3>5. ImagesIn(read2, content) \subseteq ImagesIn(read, content)
      BY <3>3 DEF ImagesIn
    <3>6. Last(read2) = read2[Len(read) - 1] /\ Last(read) = read[Len(read)]
      BY <3>3 DEF Last
    <3>7. CASE i < Len(read)
      <4>1. Last(read2) = Last(read)
        BY <3>1, <3>2, <3>3, <3>6, <3>7
      <4>. QED BY <4>1, <3>4, <3>5 DEF Newest
    <3>8. CASE i = Len(read)
      <4>1. ASSUME NEW f \in ToSet(read2)
            PROVE  \E r \in P : r # p /\ entry[r] # 0 /\ ~write[r] /\ entry[r] = f
        <5>1. PICK k \in DOMAIN read : read[k] = f
          BY <3>3 DEF ToSet
        <5>2. k < Len(read) /\ f # e /\ f \in Entries(N)
          BY <5>1, <3>1, <3>3, <3>8, <1>1, LenProperties
        <5>3. readers[f] > 0 /\ readers[f] = Cardinality(ReadersOf(P, entry, write, f))
          BY <5>1, <5>2, <1>1 DEF NewestUnread, Counted
        <5>4. ReadersOf(P, entry, write, f) # {}
          <6>1. Cardinality(ReadersOf(P, entry, write, f)) # 0
            BY <5>3
          <6>. QED BY <6>1, ReadersFinite
        <5>5. PICK r \in P : entry[r] = f /\ ~write[r]
          BY <5>4 DEF ReadersOf
        <5>. QED BY <5>2, <5>5 DEF Entries
      <4>2. \A n \in ImagesIn(read2, content) : \E r \in P :
              r # p /\ entry[r] # 0 /\ ~write[r] /\ ImageOf(entry[r], content) = n
        BY <4>1 DEF ImagesIn, ImageOf
      <4>3. Last(read2) \in ToSet(read2)
        BY <3>3, <3>4, DropLast
      <4>4. Newest(read, content) = ImageOf(e, content)
        <5>1. read # << >> /\ Last(read) = e /\ e # 0
          BY <3>1, <3>2, <3>6, <3>8
        <5>. QED BY <5>1 DEF Newest, ImageOf
      <4>. QED BY <4>1, <4>2, <4>3, <4>4, <3>4, <3>5
    <3>. QED BY <3>2, <3>7, <3>8
  <2>. QED BY <2>1, <2>2
<1>. QED
  BY <1>1, <1>2, <1>4, <1>5, <1>6 DEF Pool, Releasing

-----------------------------------------------------------------------------
(* The three queues.                                                       *)

GpuRefs == RenderRef \cup {Server}
GpuPool ==
  Pool(GpuFrames, GpuRefs, gpuIdle, gpuRead, gpuReaders, gpuEntry, gpuWrite, gpuContent)
GpuReads(p) ==
  Reading(GpuRefs, p, gpuRead, gpuEntry, gpuWrite, gpuContent,
          gpuRead', gpuEntry', gpuWrite', gpuContent')
GpuTakes(p) ==
  Taking(GpuRefs, p, gpuRead, gpuEntry, gpuWrite, gpuContent,
         gpuRead', gpuEntry', gpuWrite', gpuContent')
GpuFills(p) ==
  Filling(GpuRefs, p, gpuRead, gpuEntry, gpuWrite, gpuContent,
          gpuRead', gpuEntry', gpuWrite', gpuContent')
GpuCommits(p) ==
  Committing(GpuRefs, p, gpuRead, gpuEntry, gpuWrite, gpuContent,
             gpuRead', gpuEntry', gpuWrite', gpuContent')
GpuRescinds(p) ==
  Rescinding(GpuRefs, p, gpuRead, gpuEntry, gpuWrite, gpuContent,
             gpuRead', gpuEntry', gpuWrite', gpuContent')
GpuReleases(p) ==
  Releasing(GpuRefs, p, gpuRead, gpuEntry, gpuWrite, gpuContent,
            gpuRead', gpuEntry', gpuWrite', gpuContent')

CpuRefs == {Server, DepthThread}
CpuPool ==
  Pool(CpuFrames, CpuRefs, cpuIdle, cpuRead, cpuReaders, cpuEntry, cpuWrite, cpuContent)
CpuReads(p) ==
  Reading(CpuRefs, p, cpuRead, cpuEntry, cpuWrite, cpuContent,
          cpuRead', cpuEntry', cpuWrite', cpuContent')
CpuTakes(p) ==
  Taking(CpuRefs, p, cpuRead, cpuEntry, cpuWrite, cpuContent,
         cpuRead', cpuEntry', cpuWrite', cpuContent')
CpuFills(p) ==
  Filling(CpuRefs, p, cpuRead, cpuEntry, cpuWrite, cpuContent,
          cpuRead', cpuEntry', cpuWrite', cpuContent')
CpuCommits(p) ==
  Committing(CpuRefs, p, cpuRead, cpuEntry, cpuWrite, cpuContent,
             cpuRead', cpuEntry', cpuWrite', cpuContent')
CpuCommitsToRead(p) ==
  CommittingToRead(CpuRefs, p, cpuRead, cpuEntry, cpuWrite, cpuContent,
                   cpuRead', cpuEntry', cpuWrite', cpuContent')
CpuRescinds(p) ==
  Rescinding(CpuRefs, p, cpuRead, cpuEntry, cpuWrite, cpuContent,
             cpuRead', cpuEntry', cpuWrite', cpuContent')
CpuReleases(p) ==
  Releasing(CpuRefs, p, cpuRead, cpuEntry, cpuWrite, cpuContent,
            cpuRead', cpuEntry', cpuWrite', cpuContent')

DepthRefs == RenderRef \cup {DepthThread}
DepthPool ==
  Pool(DepthFrames, DepthRefs, depthIdle, depthRead, depthReaders, depthEntry,
       depthWrite, depthContent)
DepthReads(p) ==
  Reading(DepthRefs, p, depthRead, depthEntry, depthWrite, depthContent,
          depthRead', depthEntry', depthWrite', depthContent')
DepthTakes(p) ==
  Taking(DepthRefs, p, depthRead, depthEntry, depthWrite, depthContent,
         depthRead', depthEntry', depthWrite', depthContent')
DepthFills(p) ==
  Filling(DepthRefs, p, depthRead, depthEntry, depthWrite, depthContent,
          depthRead', depthEntry', depthWrite', depthContent')
DepthCommits(p) ==
  Committing(DepthRefs, p, depthRead, depthEntry, depthWrite, depthContent,
             depthRead', depthEntry', depthWrite', depthContent')
DepthRescinds(p) ==
  Rescinding(DepthRefs, p, depthRead, depthEntry, depthWrite, depthContent,
             depthRead', depthEntry', depthWrite', depthContent')
DepthReleases(p) ==
  Releasing(DepthRefs, p, depthRead, depthEntry, depthWrite, depthContent,
            depthRead', depthEntry', depthWrite', depthContent')

\* The references of each queue are finitely many.
LEMMA RefsFinite == /\ IsFiniteSet(GpuRefs)
                    /\ IsFiniteSet(CpuRefs)
                    /\ IsFiniteSet(DepthRefs)
<1>1. IsFiniteSet(RenderRef)
  BY 1 \in Int, HeldFrames + 1 \in Int, FS_Interval DEF RenderRef, HeldFrames
<1>2. /\ IsFiniteSet({Server, DepthThread})
      /\ IsFiniteSet({Server}) /\ IsFiniteSet({DepthThread})
  BY FS_EmptySet, FS_AddElement
<1>. QED
  BY <1>1, <1>2, FS_Union DEF GpuRefs, CpuRefs, DepthRefs

\* What the operations of the GPU queue come to.
LEMMA GpuOperations ==
  ASSUME GpuPool, NEW p \in GpuRefs
  PROVE  /\ Gpu!AcquireRead(p) => GpuPool' /\ GpuReads(p)
         /\ Gpu!AcquireWrite(p) => GpuPool' /\ GpuTakes(p)
         /\ Gpu!WriteFrame(p) => GpuPool' /\ GpuFills(p)
         /\ Gpu!CommitWrite(p) => GpuPool' /\ GpuCommits(p)
         /\ Gpu!Destroy(p) => GpuPool' /\ (GpuRescinds(p) \/ GpuReleases(p))
<1>. DEFINE Refs == GpuRefs
            frames == GpuFrames
<1>1. /\ IsFiniteSet(Refs) /\ p \in Refs /\ frames \in Nat \ {0}
      /\ Pool(frames, Refs, gpuIdle, gpuRead, gpuReaders, gpuEntry, gpuWrite, gpuContent)
      /\ gpuWrite \in [Refs -> BOOLEAN]
  BY RefsFinite DEF GpuPool, Pool, QueueInv, Typed, GpuFrames
<1>2. ASSUME Gpu!AcquireRead(p) PROVE GpuPool' /\ GpuReads(p)
  <2>1. /\ gpuEntry[p] = 0 /\ gpuRead # << >>
        /\ gpuReaders' = [gpuReaders EXCEPT ![Last(gpuRead)] = @ + 1]
        /\ gpuEntry' = [gpuEntry EXCEPT ![p] = Last(gpuRead)]
        /\ gpuIdle' = gpuIdle /\ gpuRead' = gpuRead
        /\ gpuWrite' = gpuWrite /\ gpuContent' = gpuContent
    BY <1>2, Zenon DEF Gpu!AcquireRead, Gpu!NoFrame, Gpu!Last, Last
  <2>. QED BY <1>1, <2>1, PoolReads DEF GpuPool, GpuReads
<1>3. ASSUME Gpu!AcquireWrite(p) PROVE GpuPool' /\ GpuTakes(p)
  <2>1. /\ gpuEntry[p] = 0 /\ gpuIdle # << >>
        /\ gpuEntry' = [gpuEntry EXCEPT ![p] = Last(gpuIdle)]
        /\ gpuWrite' = [gpuWrite EXCEPT ![p] = TRUE]
        /\ gpuIdle' = Front(gpuIdle)
        /\ gpuRead' = gpuRead /\ gpuReaders' = gpuReaders /\ gpuContent' = gpuContent
    BY <1>3, Zenon
    DEF Gpu!AcquireWrite, Gpu!NoFrame, Gpu!Last, Gpu!Front, Last, Front
  <2>. QED BY <1>1, <2>1, PoolTakes DEF GpuPool, GpuTakes
<1>4. ASSUME Gpu!WriteFrame(p) PROVE GpuPool' /\ GpuFills(p)
  <2>1. PICK c \in Image : gpuContent' = [gpuContent EXCEPT ![gpuEntry[p]] = c]
    BY <1>4, Zenon DEF Gpu!WriteFrame
  <2>2. /\ gpuEntry[p] # 0 /\ gpuWrite[p]
        /\ gpuIdle' = gpuIdle /\ gpuRead' = gpuRead /\ gpuReaders' = gpuReaders
        /\ gpuEntry' = gpuEntry /\ gpuWrite' = gpuWrite
    BY <1>4, Zenon DEF Gpu!WriteFrame, Gpu!NoFrame
  <2>. QED BY <1>1, <2>1, <2>2, PoolFills DEF GpuPool, GpuFills
<1>5. ASSUME Gpu!CommitWrite(p) PROVE GpuPool' /\ GpuCommits(p)
  <2>1. PublishesEntry(gpuEntry[p], gpuIdle, gpuRead, gpuReaders, gpuIdle', gpuRead')
    BY <1>5, Zenon
    DEF Gpu!CommitWrite, Gpu!Evicted, Gpu!Kept, Gpu!KeptPositions,
        Gpu!StalePositions, Gpu!At, Gpu!Nth, Gpu!Rank, Gpu!Reverse, Reverse,
        Gpu!Cardinality, Cardinality,
        PublishesEntry, EvictedOf, KeptOf, Stale, At, Nth, Rank
  <2>2. /\ gpuEntry[p] # 0 /\ gpuWrite[p]
        /\ gpuWrite' = [gpuWrite EXCEPT ![p] = FALSE]
        /\ gpuEntry' = [gpuEntry EXCEPT ![p] = 0]
        /\ gpuReaders' = gpuReaders /\ gpuContent' = gpuContent
    BY <1>5, Zenon DEF Gpu!CommitWrite, Gpu!Drop, Gpu!NoFrame
  <2>. QED BY <1>1, <2>1, <2>2, PoolCommits DEF GpuPool, GpuCommits
<1>6. ASSUME Gpu!Destroy(p) PROVE GpuPool' /\ (GpuRescinds(p) \/ GpuReleases(p))
  <2>1. /\ gpuEntry[p] # 0
        /\ gpuWrite' = [gpuWrite EXCEPT ![p] = FALSE]
        /\ gpuEntry' = [gpuEntry EXCEPT ![p] = 0]
        /\ gpuContent' = gpuContent
    BY <1>6, Zenon DEF Gpu!Destroy, Gpu!Drop, Gpu!NoFrame
  <2>2. CASE gpuWrite[p]
    <3>1. /\ gpuIdle' = Append(gpuIdle, gpuEntry[p])
          /\ gpuRead' = gpuRead /\ gpuReaders' = gpuReaders
      BY <1>6, <2>2, Zenon DEF Gpu!Destroy, Gpu!RescindWrite
    <3>. QED BY <1>1, <2>1, <2>2, <3>1, PoolRescinds DEF GpuPool, GpuRescinds
  <2>3. CASE ~gpuWrite[p]
    <3>1. gpuWrite' = gpuWrite
      BY <1>1, <2>1, <2>3
    <3>2. Gpu!ReleaseRead(gpuEntry[p])
      BY <1>6, <2>3, Zenon DEF Gpu!Destroy
    <3>3. ReleasesRead(gpuEntry[p], gpuIdle, gpuRead, gpuReaders,
                       gpuIdle', gpuRead', gpuReaders')
      <4>1. /\ Gpu!ToSet(gpuRead) = ToSet(gpuRead)
            /\ \A i : Gpu!RemoveAt(gpuRead, i) = RemoveAt(gpuRead, i)
        BY Zenon DEF Gpu!ToSet, ToSet, Gpu!RemoveAt, RemoveAt
      <4>2. CASE gpuEntry[p] \notin ToSet(gpuRead)
        BY <3>2, <4>1, <4>2, Zenon DEF Gpu!ReleaseRead, ReleasesRead
      <4>3. CASE gpuEntry[p] \in ToSet(gpuRead)
        BY <3>2, <4>1, <4>3 DEF Gpu!ReleaseRead, ReleasesRead
      <4>. QED BY <4>2, <4>3
    <3>4. /\ Pool(frames, Refs, gpuIdle', gpuRead', gpuReaders', gpuEntry', gpuWrite,
                  gpuContent)
          /\ Releasing(Refs, p, gpuRead, gpuEntry, gpuWrite, gpuContent,
                       gpuRead', gpuEntry', gpuWrite, gpuContent)
      BY <1>1, <2>1, <2>3, <3>3, PoolReleases
    <3>. QED BY <2>1, <3>1, <3>4, Zenon DEF GpuPool, GpuReleases
  <2>. QED BY <2>2, <2>3
<1>. QED
  BY <1>2, <1>3, <1>4, <1>5, <1>6

\* What the operations of the CPU queue come to.
LEMMA CpuOperations ==
  ASSUME CpuPool, NEW p \in CpuRefs
  PROVE  /\ Cpu!AcquireRead(p) => CpuPool' /\ CpuReads(p)
         /\ Cpu!AcquireWrite(p) => CpuPool' /\ CpuTakes(p)
         /\ Cpu!WriteFrame(p) => CpuPool' /\ CpuFills(p)
         /\ Cpu!CommitWrite(p) => CpuPool' /\ CpuCommits(p)
         /\ Cpu!CommitWriteAndAcquireRead(p) => CpuPool' /\ CpuCommitsToRead(p)
         /\ Cpu!Destroy(p) => CpuPool' /\ (CpuRescinds(p) \/ CpuReleases(p))
<1>. DEFINE Refs == CpuRefs
            frames == CpuFrames
<1>1. /\ IsFiniteSet(Refs) /\ p \in Refs /\ frames \in Nat \ {0}
      /\ Pool(frames, Refs, cpuIdle, cpuRead, cpuReaders, cpuEntry, cpuWrite, cpuContent)
      /\ cpuWrite \in [Refs -> BOOLEAN]
  BY RefsFinite DEF CpuPool, Pool, QueueInv, Typed, CpuFrames
<1>2. ASSUME Cpu!AcquireRead(p) PROVE CpuPool' /\ CpuReads(p)
  <2>1. /\ cpuEntry[p] = 0 /\ cpuRead # << >>
        /\ cpuReaders' = [cpuReaders EXCEPT ![Last(cpuRead)] = @ + 1]
        /\ cpuEntry' = [cpuEntry EXCEPT ![p] = Last(cpuRead)]
        /\ cpuIdle' = cpuIdle /\ cpuRead' = cpuRead
        /\ cpuWrite' = cpuWrite /\ cpuContent' = cpuContent
    BY <1>2, Zenon DEF Cpu!AcquireRead, Cpu!NoFrame, Cpu!Last, Last
  <2>. QED BY <1>1, <2>1, PoolReads DEF CpuPool, CpuReads
<1>3. ASSUME Cpu!AcquireWrite(p) PROVE CpuPool' /\ CpuTakes(p)
  <2>1. /\ cpuEntry[p] = 0 /\ cpuIdle # << >>
        /\ cpuEntry' = [cpuEntry EXCEPT ![p] = Last(cpuIdle)]
        /\ cpuWrite' = [cpuWrite EXCEPT ![p] = TRUE]
        /\ cpuIdle' = Front(cpuIdle)
        /\ cpuRead' = cpuRead /\ cpuReaders' = cpuReaders /\ cpuContent' = cpuContent
    BY <1>3, Zenon
    DEF Cpu!AcquireWrite, Cpu!NoFrame, Cpu!Last, Cpu!Front, Last, Front
  <2>. QED BY <1>1, <2>1, PoolTakes DEF CpuPool, CpuTakes
<1>4. ASSUME Cpu!WriteFrame(p) PROVE CpuPool' /\ CpuFills(p)
  <2>1. PICK c \in Image : cpuContent' = [cpuContent EXCEPT ![cpuEntry[p]] = c]
    BY <1>4, Zenon DEF Cpu!WriteFrame
  <2>2. /\ cpuEntry[p] # 0 /\ cpuWrite[p]
        /\ cpuIdle' = cpuIdle /\ cpuRead' = cpuRead /\ cpuReaders' = cpuReaders
        /\ cpuEntry' = cpuEntry /\ cpuWrite' = cpuWrite
    BY <1>4, Zenon DEF Cpu!WriteFrame, Cpu!NoFrame
  <2>. QED BY <1>1, <2>1, <2>2, PoolFills DEF CpuPool, CpuFills
<1>5. ASSUME Cpu!CommitWrite(p) PROVE CpuPool' /\ CpuCommits(p)
  <2>1. PublishesEntry(cpuEntry[p], cpuIdle, cpuRead, cpuReaders, cpuIdle', cpuRead')
    BY <1>5, Zenon
    DEF Cpu!CommitWrite, Cpu!Evicted, Cpu!Kept, Cpu!KeptPositions,
        Cpu!StalePositions, Cpu!At, Cpu!Nth, Cpu!Rank, Cpu!Reverse, Reverse,
        Cpu!Cardinality, Cardinality,
        PublishesEntry, EvictedOf, KeptOf, Stale, At, Nth, Rank
  <2>2. /\ cpuEntry[p] # 0 /\ cpuWrite[p]
        /\ cpuWrite' = [cpuWrite EXCEPT ![p] = FALSE]
        /\ cpuEntry' = [cpuEntry EXCEPT ![p] = 0]
        /\ cpuReaders' = cpuReaders /\ cpuContent' = cpuContent
    BY <1>5, Zenon DEF Cpu!CommitWrite, Cpu!Drop, Cpu!NoFrame
  <2>. QED BY <1>1, <2>1, <2>2, PoolCommits DEF CpuPool, CpuCommits
<1>6. ASSUME Cpu!CommitWriteAndAcquireRead(p) PROVE CpuPool' /\ CpuCommitsToRead(p)
  <2>1. PublishesEntry(cpuEntry[p], cpuIdle, cpuRead, cpuReaders, cpuIdle', cpuRead')
    BY <1>6, Zenon
    DEF Cpu!CommitWriteAndAcquireRead, Cpu!Evicted, Cpu!Kept, Cpu!KeptPositions,
        Cpu!StalePositions, Cpu!At, Cpu!Nth, Cpu!Rank, Cpu!Reverse, Reverse,
        Cpu!Cardinality, Cardinality,
        PublishesEntry, EvictedOf, KeptOf, Stale, At, Nth, Rank
  <2>2. /\ cpuEntry[p] # 0 /\ cpuWrite[p]
        /\ cpuWrite' = [cpuWrite EXCEPT ![p] = FALSE]
        /\ cpuReaders' = [cpuReaders EXCEPT ![cpuEntry[p]] = @ + 1]
        /\ cpuEntry' = cpuEntry /\ cpuContent' = cpuContent
    BY <1>6, Zenon DEF Cpu!CommitWriteAndAcquireRead, Cpu!NoFrame
  <2>. QED BY <1>1, <2>1, <2>2, PoolCommitsAndReads DEF CpuPool, CpuCommitsToRead
<1>7. ASSUME Cpu!Destroy(p) PROVE CpuPool' /\ (CpuRescinds(p) \/ CpuReleases(p))
  <2>1. /\ cpuEntry[p] # 0
        /\ cpuWrite' = [cpuWrite EXCEPT ![p] = FALSE]
        /\ cpuEntry' = [cpuEntry EXCEPT ![p] = 0]
        /\ cpuContent' = cpuContent
    BY <1>7, Zenon DEF Cpu!Destroy, Cpu!Drop, Cpu!NoFrame
  <2>2. CASE cpuWrite[p]
    <3>1. /\ cpuIdle' = Append(cpuIdle, cpuEntry[p])
          /\ cpuRead' = cpuRead /\ cpuReaders' = cpuReaders
      BY <1>7, <2>2, Zenon DEF Cpu!Destroy, Cpu!RescindWrite
    <3>. QED BY <1>1, <2>1, <2>2, <3>1, PoolRescinds DEF CpuPool, CpuRescinds
  <2>3. CASE ~cpuWrite[p]
    <3>1. cpuWrite' = cpuWrite
      BY <1>1, <2>1, <2>3
    <3>2. Cpu!ReleaseRead(cpuEntry[p])
      BY <1>7, <2>3, Zenon DEF Cpu!Destroy
    <3>3. ReleasesRead(cpuEntry[p], cpuIdle, cpuRead, cpuReaders,
                       cpuIdle', cpuRead', cpuReaders')
      <4>1. /\ Cpu!ToSet(cpuRead) = ToSet(cpuRead)
            /\ \A i : Cpu!RemoveAt(cpuRead, i) = RemoveAt(cpuRead, i)
        BY Zenon DEF Cpu!ToSet, ToSet, Cpu!RemoveAt, RemoveAt
      <4>2. CASE cpuEntry[p] \notin ToSet(cpuRead)
        BY <3>2, <4>1, <4>2, Zenon DEF Cpu!ReleaseRead, ReleasesRead
      <4>3. CASE cpuEntry[p] \in ToSet(cpuRead)
        BY <3>2, <4>1, <4>3 DEF Cpu!ReleaseRead, ReleasesRead
      <4>. QED BY <4>2, <4>3
    <3>4. /\ Pool(frames, Refs, cpuIdle', cpuRead', cpuReaders', cpuEntry', cpuWrite,
                  cpuContent)
          /\ Releasing(Refs, p, cpuRead, cpuEntry, cpuWrite, cpuContent,
                       cpuRead', cpuEntry', cpuWrite, cpuContent)
      BY <1>1, <2>1, <2>3, <3>3, PoolReleases
    <3>. QED BY <2>1, <3>1, <3>4, Zenon DEF CpuPool, CpuReleases
  <2>. QED BY <2>2, <2>3
<1>. QED
  BY <1>2, <1>3, <1>4, <1>5, <1>6, <1>7

\* What the operations of the depth queue come to.
LEMMA DepthOperations ==
  ASSUME DepthPool, NEW p \in DepthRefs
  PROVE  /\ Depth!AcquireRead(p) => DepthPool' /\ DepthReads(p)
         /\ Depth!AcquireWrite(p) => DepthPool' /\ DepthTakes(p)
         /\ Depth!WriteFrame(p) => DepthPool' /\ DepthFills(p)
         /\ Depth!CommitWrite(p) => DepthPool' /\ DepthCommits(p)
         /\ Depth!Destroy(p) => DepthPool' /\ (DepthRescinds(p) \/ DepthReleases(p))
<1>. DEFINE Refs == DepthRefs
            frames == DepthFrames
<1>1. /\ IsFiniteSet(Refs) /\ p \in Refs /\ frames \in Nat \ {0}
      /\ Pool(frames, Refs, depthIdle, depthRead, depthReaders, depthEntry,
              depthWrite, depthContent)
      /\ depthWrite \in [Refs -> BOOLEAN]
  BY RefsFinite DEF DepthPool, Pool, QueueInv, Typed, DepthFrames
<1>2. ASSUME Depth!AcquireRead(p) PROVE DepthPool' /\ DepthReads(p)
  <2>1. /\ depthEntry[p] = 0 /\ depthRead # << >>
        /\ depthReaders' = [depthReaders EXCEPT ![Last(depthRead)] = @ + 1]
        /\ depthEntry' = [depthEntry EXCEPT ![p] = Last(depthRead)]
        /\ depthIdle' = depthIdle /\ depthRead' = depthRead
        /\ depthWrite' = depthWrite /\ depthContent' = depthContent
    BY <1>2, Zenon DEF Depth!AcquireRead, Depth!NoFrame, Depth!Last, Last
  <2>. QED BY <1>1, <2>1, PoolReads DEF DepthPool, DepthReads
<1>3. ASSUME Depth!AcquireWrite(p) PROVE DepthPool' /\ DepthTakes(p)
  <2>1. /\ depthEntry[p] = 0 /\ depthIdle # << >>
        /\ depthEntry' = [depthEntry EXCEPT ![p] = Last(depthIdle)]
        /\ depthWrite' = [depthWrite EXCEPT ![p] = TRUE]
        /\ depthIdle' = Front(depthIdle)
        /\ depthRead' = depthRead /\ depthReaders' = depthReaders
        /\ depthContent' = depthContent
    BY <1>3, Zenon
    DEF Depth!AcquireWrite, Depth!NoFrame, Depth!Last, Depth!Front, Last, Front
  <2>. QED BY <1>1, <2>1, PoolTakes DEF DepthPool, DepthTakes
<1>4. ASSUME Depth!WriteFrame(p) PROVE DepthPool' /\ DepthFills(p)
  <2>1. PICK c \in Image : depthContent' = [depthContent EXCEPT ![depthEntry[p]] = c]
    BY <1>4, Zenon DEF Depth!WriteFrame
  <2>2. /\ depthEntry[p] # 0 /\ depthWrite[p]
        /\ depthIdle' = depthIdle /\ depthRead' = depthRead /\ depthReaders' = depthReaders
        /\ depthEntry' = depthEntry /\ depthWrite' = depthWrite
    BY <1>4, Zenon DEF Depth!WriteFrame, Depth!NoFrame
  <2>. QED BY <1>1, <2>1, <2>2, PoolFills DEF DepthPool, DepthFills
<1>5. ASSUME Depth!CommitWrite(p) PROVE DepthPool' /\ DepthCommits(p)
  <2>1. PublishesEntry(depthEntry[p], depthIdle, depthRead, depthReaders,
                       depthIdle', depthRead')
    BY <1>5, Zenon
    DEF Depth!CommitWrite, Depth!Evicted, Depth!Kept, Depth!KeptPositions,
        Depth!StalePositions, Depth!At, Depth!Nth, Depth!Rank, Depth!Reverse, Reverse,
        Depth!Cardinality, Cardinality,
        PublishesEntry, EvictedOf, KeptOf, Stale, At, Nth, Rank
  <2>2. /\ depthEntry[p] # 0 /\ depthWrite[p]
        /\ depthWrite' = [depthWrite EXCEPT ![p] = FALSE]
        /\ depthEntry' = [depthEntry EXCEPT ![p] = 0]
        /\ depthReaders' = depthReaders /\ depthContent' = depthContent
    BY <1>5, Zenon DEF Depth!CommitWrite, Depth!Drop, Depth!NoFrame
  <2>. QED BY <1>1, <2>1, <2>2, PoolCommits DEF DepthPool, DepthCommits
<1>6. ASSUME Depth!Destroy(p) PROVE DepthPool' /\ (DepthRescinds(p) \/ DepthReleases(p))
  <2>1. /\ depthEntry[p] # 0
        /\ depthWrite' = [depthWrite EXCEPT ![p] = FALSE]
        /\ depthEntry' = [depthEntry EXCEPT ![p] = 0]
        /\ depthContent' = depthContent
    BY <1>6, Zenon DEF Depth!Destroy, Depth!Drop, Depth!NoFrame
  <2>2. CASE depthWrite[p]
    <3>1. /\ depthIdle' = Append(depthIdle, depthEntry[p])
          /\ depthRead' = depthRead /\ depthReaders' = depthReaders
      BY <1>6, <2>2, Zenon DEF Depth!Destroy, Depth!RescindWrite
    <3>. QED BY <1>1, <2>1, <2>2, <3>1, PoolRescinds DEF DepthPool, DepthRescinds
  <2>3. CASE ~depthWrite[p]
    <3>1. depthWrite' = depthWrite
      BY <1>1, <2>1, <2>3
    <3>2. Depth!ReleaseRead(depthEntry[p])
      BY <1>6, <2>3, Zenon DEF Depth!Destroy
    <3>3. ReleasesRead(depthEntry[p], depthIdle, depthRead, depthReaders,
                       depthIdle', depthRead', depthReaders')
      <4>1. /\ Depth!ToSet(depthRead) = ToSet(depthRead)
            /\ \A i : Depth!RemoveAt(depthRead, i) = RemoveAt(depthRead, i)
        BY Zenon DEF Depth!ToSet, ToSet, Depth!RemoveAt, RemoveAt
      <4>2. CASE depthEntry[p] \notin ToSet(depthRead)
        BY <3>2, <4>1, <4>2, Zenon DEF Depth!ReleaseRead, ReleasesRead
      <4>3. CASE depthEntry[p] \in ToSet(depthRead)
        BY <3>2, <4>1, <4>3 DEF Depth!ReleaseRead, ReleasesRead
      <4>. QED BY <4>2, <4>3
    <3>4. /\ Pool(frames, Refs, depthIdle', depthRead', depthReaders', depthEntry', depthWrite,
                  depthContent)
          /\ Releasing(Refs, p, depthRead, depthEntry, depthWrite, depthContent,
                       depthRead', depthEntry', depthWrite, depthContent)
      BY <1>1, <2>1, <2>3, <3>3, PoolReleases
    <3>. QED BY <2>1, <3>1, <3>4, Zenon DEF DepthPool, DepthReleases
  <2>. QED BY <2>2, <2>3
<1>. QED
  BY <1>2, <1>3, <1>4, <1>5, <1>6

-----------------------------------------------------------------------------
(* The inductive invariant: where each thread is, what references it has   *)
(* there, and which images these stand for.                                *)

Texturing == {"acquire", "fill", "pose", "download", "commit", "commitCpu"}
Buffering == {"read", "publish", "upload", "decode", "commitUpload", "release"}
GpuWriting == {"fill", "pose", "download", "commit", "decode", "commitUpload"}
CpuWriting == {"download", "commit", "commitCpu", "read", "publish"}
CpuReading == {"upload", "decode", "commitUpload", "release"}
DepthWriting == {"render", "commit"}
Rendering == {"evict", "evictDepth"}

CameraPublished == ImagesIn(gpuRead, gpuContent)
CpuPublished == ImagesIn(cpuRead, cpuContent)
DepthPublished == ImagesIn(depthRead, depthContent)

PipelineTyped ==
  /\ <<source, stereo>> \in Kinds
  /\ source \in {"texture", "buffer"}
  /\ stereo \in BOOLEAN
  /\ servePc \in {"poll"} \cup Texturing \cup Buffering
  /\ image \in Image \cup {NoImage}
  /\ served \in Image
  /\ waiting \in BOOLEAN
  /\ gotCpuFrame \in BOOLEAN
  /\ depthPc \in {"acquire", "examine", "output", "render", "commit", "done"}
  /\ depthSequence \in 0..(LastImage + 1)
  /\ depthImage \in Image \cup {NoImage}
  /\ renderPc \in {"idle", "depth"} \cup Rendering
  /\ ref \in RenderRef
  /\ heldCameraFrames \in Seq(RenderRef)
  /\ heldDepthFrames \in Seq(RenderRef)
  /\ rendered \in [camera : Image \cup {NoImage}, depth : Image \cup {NoImage}]
  /\ projected \in Image \cup {NoImage}
  /\ renderSequence \in Image

Pools == GpuPool /\ CpuPool /\ DepthPool

\* The references of the serve thread, by where it is.
ServePlace ==
  /\ servePc \in Texturing => source = "texture"
  /\ servePc \in Buffering => source = "buffer"
  /\ servePc \in {"download", "commit", "commitCpu"} => stereo
  /\ servePc = "read" => image < LastImage
  /\ gpuEntry[Server] # 0 <=> servePc \in GpuWriting
  /\ gpuWrite[Server] <=> servePc \in GpuWriting
  /\ cpuEntry[Server] # 0 <=> servePc \in CpuWriting \cup CpuReading
  /\ cpuWrite[Server] <=> servePc \in CpuWriting

\* Those of the depth thread.
DepthPlace ==
  /\ cpuEntry[DepthThread] # 0 <=> depthPc # "acquire"
  /\ ~cpuWrite[DepthThread]
  /\ depthEntry[DepthThread] # 0 <=> depthPc \in DepthWriting
  /\ depthWrite[DepthThread] <=> depthPc \in DepthWriting

\* Those of the render thread: what it holds, and what it is rendering.
RenderPlace ==
  /\ \A r \in RenderRef : ~gpuWrite[r] /\ ~depthWrite[r]
  /\ Len(heldCameraFrames) <= HeldFrames /\ NoRepeats(heldCameraFrames)
  /\ Len(heldDepthFrames) <= HeldFrames /\ NoRepeats(heldDepthFrames)
  /\ renderPc # "idle" =>
       ref \notin ToSet(heldCameraFrames) /\ ref \notin ToSet(heldDepthFrames)
  /\ \A r \in RenderRef :
       /\ gpuEntry[r] # 0 <=> \/ r \in ToSet(heldCameraFrames)
                              \/ r = ref /\ renderPc # "idle"
       /\ depthEntry[r] # 0 <=> \/ r \in ToSet(heldDepthFrames)
                                \/ r = ref /\ stereo /\ renderPc \in Rendering
  /\ renderPc \in {"depth", "evictDepth"} => stereo
  /\ ~stereo => heldDepthFrames = << >>
  /\ stereo /\ renderPc # "evictDepth" => heldDepthFrames = heldCameraFrames
  /\ renderPc = "evictDepth" =>
       heldDepthFrames # << >> /\ heldCameraFrames = Tail(heldDepthFrames)

\* The newest frame shows the newest image.
CameraImages ==
  /\ \A n \in CameraPublished :
       n <= NewestCamera /\ (source = "texture" => n # 0)
  /\ NewestCamera <= image
  /\ servePc \in {"pose", "download", "commit", "commitUpload"} =>
       GpuImage(Server) = image
  /\ source = "texture" => image # NoImage /\ (servePc # "poll" => image # 0)

CpuImages ==
  /\ \A n \in CpuPublished : n <= NewestCpu
  /\ NewestCpu <= image
  /\ source = "texture" => NewestCpu <= NewestCamera
  /\ servePc \in {"publish"} \cup CpuReading => CpuImage(Server) = image
  /\ servePc \in {"commit", "commitCpu"} /\ gotCpuFrame => CpuImage(Server) = image
  /\ servePc = "commitCpu" => image <= NewestCamera

DepthImages ==
  /\ \A n \in DepthPublished : n <= NewestDepth
  /\ NewestDepth <= depthImage
  /\ depthImage <= NewestCpu
  /\ depthPc # "acquire" => depthImage <= CpuImage(DepthThread)
  /\ depthPc \in {"output", "render", "commit", "done"} =>
       depthImage = CpuImage(DepthThread)
  /\ depthPc = "commit" => DepthImage(DepthThread) = depthImage

\* Frames are held in the order of their images.
HeldInOrder ==
  /\ \A i, j \in DOMAIN heldCameraFrames : i < j =>
       GpuImage(heldCameraFrames[i]) <= GpuImage(heldCameraFrames[j])
  /\ renderPc # "idle" =>
       \A r \in ToSet(heldCameraFrames) : GpuImage(r) <= GpuImage(ref)
  /\ \A i, j \in DOMAIN heldDepthFrames : i < j =>
       DepthImage(heldDepthFrames[i]) <= DepthImage(heldDepthFrames[j])
  /\ stereo /\ renderPc \in Rendering =>
       \A r \in ToSet(heldDepthFrames) : DepthImage(r) <= DepthImage(ref)

RenderedBefore ==
  /\ rendered.camera <= NewestCamera
  /\ renderPc # "idle" => rendered.camera <= GpuImage(ref)
  /\ rendered.depth <= NewestDepth
  /\ stereo /\ renderPc \in Rendering => rendered.depth <= DepthImage(ref)
  /\ ~stereo => rendered.depth = NoImage

Projected ==
  /\ renderSequence = SequenceOf(projected)
  /\ renderSequence = SequenceOf(rendered.camera)
  /\ source = "texture" => projected = rendered.camera /\ projected # 0

IInv ==
  /\ PipelineTyped /\ Pools
  /\ ServePlace /\ DepthPlace /\ RenderPlace
  /\ CameraImages /\ CpuImages /\ DepthImages
  /\ HeldInOrder /\ RenderedBefore /\ Projected

USE DEF Texturing, Buffering, GpuWriting, CpuWriting, CpuReading, DepthWriting,
        Rendering, CameraPublished, CpuPublished, DepthPublished,
        NewestCamera, NewestCpu, NewestDepth, GpuImage, CpuImage, DepthImage

-----------------------------------------------------------------------------
(* What holds in every state.                                              *)

\* Names of the references.
LEMMA Names ==
  /\ RenderRef = 1..3 /\ Server = 0 /\ DepthThread = -1 /\ NoImage = -1
  /\ HeldFrames = 2
  /\ Image \subseteq Nat /\ Image = 0..LastImage
  /\ GpuRefs = RenderRef \cup {Server}
  /\ CpuRefs = {Server, DepthThread}
  /\ DepthRefs = RenderRef \cup {DepthThread}
  /\ \A r \in RenderRef : r # Server /\ r # DepthThread
  /\ Server # DepthThread
BY LastImageAssumption
DEF RenderRef, Server, DepthThread, NoImage, HeldFrames, Image,
    GpuRefs, CpuRefs, DepthRefs

\* The queues, as seen by the threads.
LEMMA PoolsConsistent ==
  ASSUME Pools
  PROVE  /\ Consistent(GpuRefs, gpuRead, gpuEntry, gpuWrite, gpuContent)
         /\ Consistent(CpuRefs, cpuRead, cpuEntry, cpuWrite, cpuContent)
         /\ Consistent(DepthRefs, depthRead, depthEntry, depthWrite, depthContent)
<1>1. GpuFrames \in Nat \ {0} /\ CpuFrames \in Nat \ {0} /\ DepthFrames \in Nat \ {0}
  BY DEF GpuFrames, CpuFrames, DepthFrames
<1>. QED
  BY <1>1, PoolConsistent DEF Pools, GpuPool, CpuPool, DepthPool

\* The same after a step.
LEMMA PoolsConsistentAfter ==
  ASSUME Pools'
  PROVE  /\ Consistent(GpuRefs, gpuRead', gpuEntry', gpuWrite', gpuContent')
         /\ Consistent(CpuRefs, cpuRead', cpuEntry', cpuWrite', cpuContent')
         /\ Consistent(DepthRefs, depthRead', depthEntry', depthWrite',
                       depthContent')
<1>1. GpuFrames \in Nat \ {0} /\ CpuFrames \in Nat \ {0} /\ DepthFrames \in Nat \ {0}
  BY DEF GpuFrames, CpuFrames, DepthFrames
<1>. QED
  BY <1>1, PoolConsistent DEF Pools, GpuPool, CpuPool, DepthPool

\* A step that leaves a queue unchanged.
GpuAside(p) ==
  Aside(GpuRefs, p, gpuEntry, gpuWrite, gpuContent, gpuEntry', gpuWrite', gpuContent')
CpuAside(p) ==
  Aside(CpuRefs, p, cpuEntry, cpuWrite, cpuContent, cpuEntry', cpuWrite', cpuContent')
DepthAside(p) ==
  Aside(DepthRefs, p, depthEntry, depthWrite, depthContent,
        depthEntry', depthWrite', depthContent')

\* A step that leaves a queue alone leaves its invariant and its references.
LEMMA Untouched ==
  ASSUME Pools, NEW p
  PROVE  /\ UNCHANGED gpu => GpuPool' /\ GpuAside(p)
         /\ UNCHANGED cpu => CpuPool' /\ CpuAside(p)
         /\ UNCHANGED depth => DepthPool' /\ DepthAside(p)
BY DEF Pools, GpuPool, CpuPool, DepthPool, gpu, cpu, depth,
       GpuAside, CpuAside, DepthAside, Aside

-----------------------------------------------------------------------------
(* Steps of the serve thread.                                              *)

ServeAside ==
  /\ Pools'
  /\ GpuAside(Server) /\ CpuAside(Server)
  /\ UNCHANGED beyondServe

\* A step of the serve thread leaves what the other threads hold.
LEMMA ServeKeepsOthers ==
  ASSUME IInv, ServeAside
  PROVE  DepthPlace' /\ RenderPlace' /\ HeldInOrder' /\ Projected'
<1>1. /\ source' = source /\ stereo' = stereo
      /\ UNCHANGED <<depthRead, depthEntry, depthWrite, depthContent>>
      /\ UNCHANGED <<depthPc, depthSequence, depthImage>>
      /\ UNCHANGED renderVars
  BY DEF ServeAside, beyondServe, kind, depth, depthVars
<1>2. /\ \A r \in RenderRef :
           /\ gpuEntry'[r] = gpuEntry[r]
           /\ gpuWrite'[r] = gpuWrite[r]
           /\ ImageOf(gpuEntry'[r], gpuContent') = ImageOf(gpuEntry[r], gpuContent)
      /\ cpuEntry'[DepthThread] = cpuEntry[DepthThread]
      /\ cpuWrite'[DepthThread] = cpuWrite[DepthThread]
  BY Names DEF ServeAside, GpuAside, CpuAside, Aside
<1>3. DepthPlace'
  BY <1>1, <1>2 DEF IInv, DepthPlace
<1>4. RenderPlace'
  BY <1>1, <1>2 DEF IInv, RenderPlace, renderVars
<1>5. HeldInOrder'
  <2>1. /\ heldCameraFrames \in Seq(RenderRef)
        /\ ref \in RenderRef
        /\ \A i \in DOMAIN heldCameraFrames : heldCameraFrames[i] \in RenderRef
        /\ \A r \in ToSet(heldCameraFrames) : r \in RenderRef
    BY LenProperties DEF IInv, PipelineTyped, ToSet
  <2>. QED BY <1>1, <1>2, <2>1 DEF IInv, HeldInOrder, renderVars
<1>6. Projected'
  BY <1>1 DEF IInv, Projected, renderVars, SequenceOf, FrameSequence
<1>. QED
  BY <1>3, <1>4, <1>5, <1>6

\* What a step of the serve thread still has to show.
ServeKept ==
  /\ servePc' \in {"poll"} \cup Texturing \cup Buffering
  /\ image' \in Image \cup {NoImage} /\ served' \in Image
  /\ waiting' \in BOOLEAN /\ gotCpuFrame' \in BOOLEAN
  /\ ServePlace'
  /\ CameraImages'
  /\ CpuImages'
  /\ NewestCamera <= NewestCamera'
  /\ depthImage <= NewestCpu'

\* What a step of the serve thread keeps, and leaves alone, is the invariant.
LEMMA ServeConclude ==
  ASSUME IInv, ServeAside, ServeKept
  PROVE  IInv'
<1>1. /\ source' = source /\ stereo' = stereo
      /\ UNCHANGED <<depthRead, depthEntry, depthWrite, depthContent>>
      /\ UNCHANGED <<depthPc, depthSequence, depthImage>>
      /\ UNCHANGED renderVars
  BY DEF ServeAside, beyondServe, kind, depth, depthVars
<1>2. DepthPlace' /\ RenderPlace' /\ HeldInOrder' /\ Projected'
  BY ServeKeepsOthers
<1>3. PipelineTyped'
  BY <1>1 DEF IInv, ServeKept, PipelineTyped, renderVars
<1>4. DepthImages'
  <2>1. ImageOf(cpuEntry[DepthThread], cpuContent)'
          = ImageOf(cpuEntry[DepthThread], cpuContent)
    BY Names DEF ServeAside, CpuAside, Aside
  <2>. QED BY <1>1, <2>1 DEF IInv, DepthImages, ServeKept
<1>5. RenderedBefore'
  <2>1. /\ ImageOf(gpuEntry[ref], gpuContent)' = ImageOf(gpuEntry[ref], gpuContent)
        /\ rendered.camera \in Int
    BY <1>1, Names
    DEF ServeAside, GpuAside, Aside, renderVars, IInv, PipelineTyped
  <2>2. /\ Consistent(GpuRefs, gpuRead, gpuEntry, gpuWrite, gpuContent)
        /\ Consistent(GpuRefs, gpuRead', gpuEntry', gpuWrite', gpuContent')
    BY PoolsConsistent, PoolsConsistentAfter DEF ServeAside, IInv, Pools
  <2>3. Newest(gpuRead, gpuContent) \in Int /\ Newest(gpuRead, gpuContent)' \in Int
    BY <2>2, Names DEF Consistent
  <2>. QED BY <1>1, <2>1, <2>3 DEF IInv, RenderedBefore, ServeKept, renderVars
<1>. QED
  BY <1>2, <1>3, <1>4, <1>5 DEF IInv, ServeKept, ServeAside

\* What the serve thread knows of its two queues, in a form the cases share.
LEMMA ServeKnows ==
  ASSUME IInv
  PROVE  /\ Pools /\ Server \in GpuRefs /\ Server \in CpuRefs
         /\ Newest(gpuRead, gpuContent) \in Image \cup {NoImage}
         /\ Newest(cpuRead, cpuContent) \in Image \cup {NoImage}
         /\ CameraPublished \subseteq Image /\ CpuPublished \subseteq Image
         /\ ImageOf(gpuEntry[Server], gpuContent) \in Image \cup {NoImage}
         /\ ImageOf(cpuEntry[Server], cpuContent) \in Image \cup {NoImage}
         /\ image \in Image \cup {NoImage} /\ served \in Image
         /\ waiting \in BOOLEAN /\ gotCpuFrame \in BOOLEAN
         /\ servePc \in {"poll"} \cup Texturing \cup Buffering
         /\ source \in {"texture", "buffer"}
         /\ depthImage <= Newest(cpuRead, cpuContent)
         /\ depthImage \in Image \cup {NoImage}
<1>1. /\ Consistent(GpuRefs, gpuRead, gpuEntry, gpuWrite, gpuContent)
      /\ Consistent(CpuRefs, cpuRead, cpuEntry, cpuWrite, cpuContent)
  BY PoolsConsistent DEF IInv, Pools
<1>2. Server \in GpuRefs /\ Server \in CpuRefs
  BY Names
<1>. QED
  BY <1>1, <1>2 DEF Consistent, IInv, PipelineTyped, DepthImages

\* The serve thread does nothing with its queues, or leaves with a frame.
LEMMA ServePolls ==
  ASSUME IInv, NoFrameAvailable \/ PollFrame
  PROVE  ServeAside /\ ServeKept
<1>1. UNCHANGED gpu /\ UNCHANGED cpu /\ UNCHANGED beyondServe
  BY DEF NoFrameAvailable, PollFrame
<1>2. UNCHANGED depth /\ source' = source
  BY <1>1 DEF beyondServe, kind
<1>3. ServeAside
  BY <1>1, <1>2, Untouched DEF ServeAside, IInv, Pools
<1>4. UNCHANGED <<gpuRead, gpuEntry, gpuWrite, gpuContent>>
  BY <1>1 DEF gpu
<1>5. UNCHANGED <<cpuRead, cpuEntry, cpuWrite, cpuContent>>
  BY <1>1 DEF cpu
<1>6. /\ image' \in Image \cup {NoImage} /\ image <= image'
      /\ \/ servePc' = servePc /\ image' = image
         \/ servePc = "poll" /\ servePc' = "acquire" /\ image' # 0
      /\ served' \in Image /\ waiting' \in BOOLEAN /\ gotCpuFrame' \in BOOLEAN
      /\ source = "texture" /\ gotCpuFrame' = gotCpuFrame
      /\ servePc' \in {"poll"} \cup Texturing \cup Buffering
      /\ stereo' = stereo
  <2>1. stereo' = stereo
    BY <1>1 DEF beyondServe, kind
  <2>2. CASE NoFrameAvailable
    BY <2>1, <2>2, ServeKnows, Names DEF NoFrameAvailable
  <2>3. CASE PollFrame
    BY <2>1, <2>3, ServeKnows, Names DEF PollFrame, ServeAt
  <2>. QED BY <2>2, <2>3
<1>7. ServePlace'
  BY <1>2, <1>4, <1>5, <1>6 DEF IInv, ServePlace
<1>8. CameraImages'
  BY <1>2, <1>4, <1>6, ServeKnows, Names DEF IInv, CameraImages
<1>9. CpuImages'
  BY <1>2, <1>4, <1>5, <1>6, ServeKnows, Names DEF IInv, CpuImages
<1>10. ServeKept
  BY <1>4, <1>5, <1>6, <1>7, <1>8, <1>9, ServeKnows, Names DEF ServeKept
<1>. QED
  BY <1>3, <1>10

\* Its steps on the GPU queue.
ServeGpu ==
  \/ AcquireTexture \/ TextureFails \/ FillTexture \/ PoseFails
  \/ CommitTextureOnly \/ CommitTexture
  \/ AcquireUpload \/ DecodeBuffer \/ DecodeFails \/ CommitUpload
  \/ AcquireCpuFrame /\ cpuIdle = << >>

\* Steps on the GPU queue keep the serve thread's part of the invariant.
LEMMA ServeGpuSteps ==
  ASSUME IInv, ServeGpu
  PROVE  ServeAside /\ ServeKept
<1>1. UNCHANGED cpu /\ UNCHANGED beyondServe
  BY DEF ServeGpu, AcquireTexture, TextureFails, FillTexture, PoseFails,
    CommitTextureOnly, CommitTexture, AcquireUpload, DecodeBuffer, DecodeFails,
    CommitUpload, AcquireCpuFrame
<1>2. UNCHANGED depth /\ source' = source /\ stereo' = stereo
  BY <1>1 DEF beyondServe, kind
<1>3. UNCHANGED <<cpuRead, cpuEntry, cpuWrite, cpuContent>>
  BY <1>1 DEF cpu
<1>4. CpuPool' /\ DepthPool' /\ CpuAside(Server)
  BY <1>1, <1>2, Untouched DEF IInv, Pools
<1>5. image' = image /\ gotCpuFrame' = gotCpuFrame
  BY DEF ServeGpu, AcquireTexture, TextureFails, FillTexture, PoseFails,
    CommitTextureOnly, CommitTexture, AcquireUpload, DecodeBuffer, DecodeFails,
    CommitUpload, AcquireCpuFrame, serveLocals
<1>6. served' \in Image /\ waiting' \in BOOLEAN
  <2>1. CASE FillTexture
    <3>1. image # NoImage
      BY <2>1, Names DEF FillTexture, ServeAt, IInv, ServePlace, CameraImages
    <3>. QED BY <2>1, <3>1, ServeKnows DEF FillTexture
  <2>2. CASE ~FillTexture
    <3>1. served' = served /\ waiting' = waiting
      BY <2>2 DEF ServeGpu, AcquireTexture, TextureFails, PoseFails,
        CommitTextureOnly, CommitTexture, AcquireUpload, DecodeBuffer, DecodeFails,
        CommitUpload, AcquireCpuFrame, serveLocals
    <3>. QED BY <3>1, ServeKnows
  <2>. QED BY <2>1, <2>2
<1>7. /\ GpuPool' /\ GpuAside(Server)
      /\ \/ /\ <<servePc, servePc'>>
                 \in {<<"acquire", "poll">>, <<"upload", "release">>}
            /\ UNCHANGED <<gpuRead, gpuEntry, gpuWrite, gpuContent>>
         \/ /\ <<servePc, servePc'>>
                 \in {<<"acquire", "fill">>, <<"upload", "decode">>}
            /\ GpuTakes(Server)
         \/ /\ <<servePc, servePc'>>
                 \in {<<"fill", "pose">>, <<"decode", "commitUpload">>}
            /\ GpuFills(Server)
            /\ ImageOf(gpuEntry'[Server], gpuContent') = image
         \/ /\ <<servePc, servePc'>>
                 \in {<<"fill", "poll">>, <<"pose", "poll">>, <<"decode", "release">>}
            /\ GpuRescinds(Server)
         \/ /\ <<servePc, servePc'>>
                 \in {<<"pose", "poll">>, <<"commit", "commitCpu">>,
                      <<"commitUpload", "release">>}
            /\ GpuCommits(Server)
  <2>1. GpuPool /\ Server \in GpuRefs
    BY ServeKnows DEF Pools
  <2>2. CASE AcquireTexture \/ AcquireUpload
    <3>1. <<servePc, servePc'>>
            \in IF gpuIdle = << >>
                THEN {<<"acquire", "poll">>, <<"upload", "release">>}
                ELSE {<<"acquire", "fill">>, <<"upload", "decode">>}
      BY <2>2 DEF AcquireTexture, AcquireUpload, ServeAt
    <3>2. IF gpuIdle = << >> THEN UNCHANGED gpu ELSE Gpu!AcquireWrite(Server)
      BY <2>2 DEF AcquireTexture, AcquireUpload
    <3>3. CASE gpuIdle = << >>
      <4>1. UNCHANGED gpu
        BY <3>2, <3>3
      <4>. QED BY <3>1, <3>3, <4>1, Untouched DEF IInv, gpu
    <3>4. CASE gpuIdle # << >>
      <4>1. GpuPool' /\ GpuTakes(Server)
        BY <2>1, <3>2, <3>4, GpuOperations
      <4>. QED BY <3>1, <3>4, <4>1 DEF GpuTakes, Taking, GpuAside
    <3>. QED BY <3>3, <3>4
  <2>3. CASE FillTexture
    <3>1. GpuPool' /\ GpuFills(Server)
      BY <2>1, <2>3, GpuOperations DEF FillTexture
    <3>. QED BY <2>3, <3>1 DEF FillTexture, ServeAt, GpuFills, Filling, GpuAside
  <2>4. CASE DecodeBuffer
    <3>1. GpuPool' /\ GpuFills(Server)
      BY <2>1, <2>4, GpuOperations DEF DecodeBuffer
    <3>2. ImageOf(cpuEntry[Server], cpuContent) = image
      BY <2>4 DEF DecodeBuffer, ServeAt, IInv, CpuImages
    <3>. QED BY <2>4, <3>1, <3>2
             DEF DecodeBuffer, ServeAt, GpuFills, Filling, GpuAside
  <2>5. CASE CommitTextureOnly \/ CommitTexture \/ CommitUpload
    <3>1. <<servePc, servePc'>> \in {<<"pose", "poll">>, <<"commit", "commitCpu">>,
                                    <<"commitUpload", "release">>}
      BY <2>5 DEF CommitTextureOnly, CommitTexture, CommitUpload, ServeAt
    <3>2. Gpu!CommitWrite(Server)
      BY <2>5 DEF CommitTextureOnly, CommitTexture, CommitUpload
    <3>3. GpuPool' /\ GpuCommits(Server)
      BY <2>1, <3>2, GpuOperations
    <3>. QED BY <3>1, <3>3 DEF GpuCommits, Committing, Publishing, GpuAside
  <2>6. CASE \/ TextureFails \/ PoseFails \/ DecodeFails
             \/ AcquireCpuFrame /\ cpuIdle = << >>
    <3>1. <<servePc, servePc'>>
            \in {<<"fill", "poll">>, <<"pose", "poll">>, <<"decode", "release">>}
      BY <2>6 DEF TextureFails, PoseFails, DecodeFails, AcquireCpuFrame, ServeAt
    <3>2. Gpu!Destroy(Server)
      BY <2>6 DEF TextureFails, PoseFails, DecodeFails, AcquireCpuFrame
    <3>3. gpuWrite[Server]
      BY <3>1 DEF IInv, ServePlace
    <3>4. GpuPool' /\ GpuRescinds(Server)
      BY <2>1, <3>2, <3>3, GpuOperations DEF GpuReleases, Releasing
    <3>. QED BY <3>1, <3>4 DEF GpuRescinds, Rescinding, GpuAside
  <2>. QED BY <2>2, <2>3, <2>4, <2>5, <2>6 DEF ServeGpu
<1>8. ServeAside
  BY <1>1, <1>4, <1>7 DEF ServeAside, Pools
<1>. DEFINE Published == ImagesIn(gpuRead, gpuContent)
            newest == Newest(gpuRead, gpuContent)
<1>9. /\ Newest(gpuRead', gpuContent') \in {newest, image}
      /\ newest <= Newest(gpuRead', gpuContent')
      /\ Newest(gpuRead', gpuContent') <= image
      /\ \A n \in ImagesIn(gpuRead', gpuContent') :
           n \in Published \/ n = Newest(gpuRead', gpuContent')
      /\ servePc' = "commitCpu" => Newest(gpuRead', gpuContent') = image
  <2>1. newest <= image
    BY DEF IInv, CameraImages
  <2>2. CASE GpuCommits(Server) /\ servePc \in {"pose", "commit", "commitUpload"}
    <3>1. ImageOf(gpuEntry[Server], gpuContent) = image
      BY <2>2 DEF IInv, CameraImages
    <3>. QED BY <2>1, <2>2, <3>1, ServeKnows, Names DEF GpuCommits, Committing, Publishing
  <2>3. CASE /\ servePc' # "commitCpu"
             /\ Newest(gpuRead', gpuContent') = newest
             /\ ImagesIn(gpuRead', gpuContent') = Published
    BY <2>1, <2>3, ServeKnows, Names
  <2>. QED BY <1>7, <2>2, <2>3
           DEF GpuRescinds, Rescinding, GpuTakes, Taking, GpuFills, Filling, AsBefore
<1>10. /\ servePc' \in {"poll"} \cup Texturing \cup Buffering
       /\ ServePlace'
  BY <1>2, <1>3, <1>5, <1>7
  DEF GpuRescinds, Rescinding, GpuTakes, Taking, GpuFills, Filling,
      GpuCommits, Committing, Publishing, IInv, ServePlace
<1>11. CameraImages'
  <2>1. \A n \in ImagesIn(gpuRead', gpuContent') :
          n <= Newest(gpuRead', gpuContent') /\ (source = "texture" => n # 0)
    <3>1. source = "texture" /\ Newest(gpuRead', gpuContent') # newest => image # 0
      BY <1>7, <1>9
      DEF GpuRescinds, Rescinding, GpuTakes, Taking, GpuFills, Filling, AsBefore,
          IInv, CameraImages
    <3>2. newest \in Published \/ newest = NoImage
      BY PoolsConsistent DEF IInv, Consistent
    <3>3. \A n \in Published : n \in Int /\ n <= newest /\ (source = "texture" => n # 0)
      BY ServeKnows, Names DEF IInv, CameraImages
    <3>4. newest \in Int /\ image \in Int
      BY ServeKnows, Names
    <3>. QED BY <1>9, <3>1, <3>2, <3>3, <3>4, Names
  <2>2. servePc' \in {"pose", "download", "commit", "commitUpload"} =>
          ImageOf(gpuEntry'[Server], gpuContent') = image
    BY <1>7
  <2>3. source = "texture" => image # NoImage /\ (servePc' # "poll" => image # 0)
    BY <1>7 DEF IInv, CameraImages
  <2>. QED BY <1>2, <1>5, <1>9, <2>1, <2>2, <2>3 DEF CameraImages
<1>12. CpuImages'
  BY <1>2, <1>3, <1>5, <1>7, <1>9, ServeKnows, Names DEF IInv, CpuImages
<1>. QED
  BY <1>3, <1>5, <1>6, <1>8, <1>9, <1>10, <1>11, <1>12, ServeKnows DEF ServeKept

\* The CPU queue falls back to an older image only while the depth thread reads
\* that one.
FallsBack ==
  Newest(cpuRead', cpuContent') < Newest(cpuRead, cpuContent) =>
    cpuRead' # << >> /\ cpuEntry[DepthThread] = Last(cpuRead')

\* Its steps on the CPU queue.
ServeCpu ==
  \/ AcquireCpuFrame /\ cpuIdle # << >>
  \/ DownloadFrame \/ CommitCpuFrame
  \/ AcquireBuffer \/ ReadBufferFails \/ ReadBuffer \/ PublishBuffer
  \/ ReleaseBuffer

\* Steps on the CPU queue keep it, and fall back only to an image in work.
LEMMA ServeCpuSteps ==
  ASSUME IInv, ServeCpu
  PROVE  ServeAside /\ ServeKept /\ FallsBack
<1>1. UNCHANGED gpu /\ UNCHANGED beyondServe
  BY DEF ServeCpu, AcquireCpuFrame, DownloadFrame, CommitCpuFrame, AcquireBuffer,
    ReadBufferFails, ReadBuffer, PublishBuffer, ReleaseBuffer
<1>2. UNCHANGED depth /\ source' = source /\ stereo' = stereo
  BY <1>1 DEF beyondServe, kind
<1>3. UNCHANGED <<gpuRead, gpuEntry, gpuWrite, gpuContent>>
  BY <1>1 DEF gpu
<1>4. GpuPool' /\ DepthPool' /\ GpuAside(Server)
  BY <1>1, <1>2, Untouched DEF IInv, Pools
<1>5. served' = served /\ waiting' = waiting
  BY DEF ServeCpu, AcquireCpuFrame, DownloadFrame, CommitCpuFrame, AcquireBuffer,
    ReadBufferFails, ReadBuffer, PublishBuffer, ReleaseBuffer, serveLocals
<1>6. CpuPool /\ Server \in CpuRefs
  BY ServeKnows DEF Pools
<1>. DEFINE own == ImageOf(cpuEntry[Server], cpuContent)
            own2 == ImageOf(cpuEntry'[Server], cpuContent')
            Same == image' = image /\ gotCpuFrame' = gotCpuFrame
<1>7. /\ CpuPool' /\ CpuAside(Server)
      /\ \/ /\ <<servePc, servePc'>> \in {<<"pose", "download">>, <<"poll", "read">>}
            /\ CpuTakes(Server) /\ Same
            /\ servePc' = "download" => stereo
            /\ servePc' = "read" => source = "buffer" /\ image < LastImage
         \/ /\ <<servePc, servePc'>> = <<"download", "commit">>
            /\ CpuFills(Server) /\ own2 = image /\ image' = image
            /\ gotCpuFrame' \in BOOLEAN
         \/ /\ <<servePc, servePc'>> = <<"download", "commit">>
            /\ UNCHANGED <<cpuRead, cpuEntry, cpuWrite, cpuContent>>
            /\ image' = image /\ gotCpuFrame' = FALSE
         \/ /\ <<servePc, servePc'>> = <<"read", "publish">>
            /\ CpuFills(Server) /\ own2 = image'
            /\ image' = image + 1 /\ gotCpuFrame' = gotCpuFrame
         \/ /\ <<servePc, servePc'>> = <<"commitCpu", "poll">>
            /\ CpuCommits(Server) /\ gotCpuFrame /\ Same
         \/ /\ <<servePc, servePc'>> = <<"publish", "upload">>
            /\ CpuCommitsToRead(Server) /\ Same
         \/ /\ <<servePc, servePc'>> \in {<<"commitCpu", "poll">>, <<"read", "poll">>}
            /\ CpuRescinds(Server) /\ Same
         \/ /\ <<servePc, servePc'>> = <<"release", "poll">>
            /\ CpuReleases(Server) /\ Same
  <2>1. CASE (AcquireCpuFrame /\ cpuIdle # << >>) \/ AcquireBuffer
    <3>1. /\ <<servePc, servePc'>> \in {<<"pose", "download">>, <<"poll", "read">>}
          /\ Same
          /\ servePc' = "download" => stereo
          /\ servePc' = "read" => source = "buffer" /\ image < LastImage
      BY <2>1 DEF AcquireCpuFrame, AcquireBuffer, ServeAt, serveLocals
    <3>2. Cpu!AcquireWrite(Server)
      BY <2>1 DEF AcquireCpuFrame, AcquireBuffer
    <3>3. CpuPool' /\ CpuTakes(Server)
      BY <1>6, <3>2, CpuOperations
    <3>. QED BY <3>1, <3>3 DEF CpuTakes, Taking, CpuAside
  <2>2. CASE DownloadFrame
    <3>1. CASE gotCpuFrame'
      <4>1. CpuPool' /\ CpuFills(Server)
        BY <1>6, <2>2, <3>1, CpuOperations DEF DownloadFrame
      <4>. QED BY <2>2, <3>1, <4>1 DEF DownloadFrame, ServeAt, CpuFills, Filling, CpuAside
    <3>2. CASE ~gotCpuFrame'
      <4>1. UNCHANGED cpu
        BY <2>2, <3>2 DEF DownloadFrame
      <4>2. CpuPool' /\ CpuAside(Server)
        BY <4>1, Untouched DEF IInv
      <4>. QED BY <2>2, <3>2, <4>1, <4>2 DEF DownloadFrame, ServeAt, cpu
    <3>. QED BY <3>1, <3>2
  <2>3. CASE ReadBuffer
    <3>1. CpuPool' /\ CpuFills(Server)
      BY <1>6, <2>3, CpuOperations DEF ReadBuffer
    <3>. QED BY <2>3, <3>1 DEF ReadBuffer, ServeAt, CpuFills, Filling, CpuAside
  <2>4. CASE PublishBuffer
    <3>1. CpuPool' /\ CpuCommitsToRead(Server)
      BY <1>6, <2>4, CpuOperations DEF PublishBuffer
    <3>. QED BY <2>4, <3>1
             DEF PublishBuffer, ServeAt, serveLocals, CpuCommitsToRead,
                 CommittingToRead, Publishing, CpuAside
  <2>5. CASE CommitCpuFrame /\ gotCpuFrame
    <3>1. CpuPool' /\ CpuCommits(Server)
      BY <1>6, <2>5, CpuOperations DEF CommitCpuFrame
    <3>. QED BY <2>5, <3>1
             DEF CommitCpuFrame, ServeAt, serveLocals, CpuCommits, Committing,
                 Publishing, CpuAside
  <2>6. CASE (CommitCpuFrame /\ ~gotCpuFrame) \/ ReadBufferFails
    <3>1. /\ <<servePc, servePc'>> \in {<<"commitCpu", "poll">>, <<"read", "poll">>}
          /\ Cpu!Destroy(Server) /\ Same
      BY <2>6 DEF CommitCpuFrame, ReadBufferFails, ServeAt, serveLocals
    <3>2. cpuWrite[Server]
      BY <3>1 DEF IInv, ServePlace
    <3>3. CpuPool' /\ CpuRescinds(Server)
      BY <1>6, <3>1, <3>2, CpuOperations DEF CpuReleases, Releasing
    <3>. QED BY <3>1, <3>3 DEF CpuRescinds, Rescinding, CpuAside
  <2>7. CASE ReleaseBuffer
    <3>1. /\ <<servePc, servePc'>> = <<"release", "poll">>
          /\ Cpu!Destroy(Server) /\ Same
      BY <2>7 DEF ReleaseBuffer, ServeAt, serveLocals
    <3>2. ~cpuWrite[Server]
      BY <3>1 DEF IInv, ServePlace
    <3>3. CpuPool' /\ CpuReleases(Server)
      BY <1>6, <3>1, <3>2, CpuOperations DEF CpuRescinds, Rescinding
    <3>. QED BY <3>1, <3>3 DEF CpuReleases, Releasing, CpuAside
  <2>. QED BY <2>1, <2>2, <2>3, <2>4, <2>5, <2>6, <2>7 DEF ServeCpu
<1>8. ServeAside
  BY <1>1, <1>4, <1>7 DEF ServeAside, Pools
<1>. DEFINE Published == ImagesIn(cpuRead, cpuContent)
            Published2 == ImagesIn(cpuRead', cpuContent')
            newest == Newest(cpuRead, cpuContent)
            newest2 == Newest(cpuRead', cpuContent')
            other == ImageOf(cpuEntry[DepthThread], cpuContent)
<1>9. /\ newest \in Int /\ newest2 \in Int /\ image \in Int /\ other \in Int
      /\ Published \subseteq Int /\ Published2 \subseteq Int
      /\ newest2 \in Published2 \/ (Published2 = {} /\ newest2 = NoImage)
      /\ newest <= image /\ image <= image' /\ image' \in Image \cup {NoImage}
      /\ \A n \in Published : n <= newest
      /\ depthImage <= newest /\ depthImage \in Int
      /\ source = "texture" => newest <= Newest(gpuRead, gpuContent)
      /\ gotCpuFrame' \in BOOLEAN
  <2>1. /\ Consistent(CpuRefs, cpuRead, cpuEntry, cpuWrite, cpuContent)
        /\ Consistent(CpuRefs, cpuRead', cpuEntry', cpuWrite', cpuContent')
    BY <1>8, PoolsConsistent, PoolsConsistentAfter DEF IInv, ServeAside
  <2>2. /\ newest \in Int /\ newest2 \in Int /\ image \in Int /\ other \in Int
        /\ Published \subseteq Int /\ Published2 \subseteq Int
        /\ newest2 \in Published2 \/ (Published2 = {} /\ newest2 = NoImage)
    <3>1. DepthThread \in CpuRefs /\ Image \subseteq Int /\ NoImage \in Int
      BY Names
    <3>2. newest2 \in Published2 \/ (Published2 = {} /\ newest2 = NoImage)
      BY <2>1 DEF Consistent
    <3>3. Published2 \subseteq Image
      BY <2>1 DEF Consistent
    <3>4. other \in Int
      BY <2>1, <3>1 DEF Consistent
    <3>. QED BY <3>1, <3>2, <3>3, <3>4, ServeKnows
  <2>3. /\ newest <= image /\ \A n \in Published : n <= newest
        /\ depthImage <= newest /\ depthImage \in Int
        /\ source = "texture" => newest <= Newest(gpuRead, gpuContent)
    BY ServeKnows, Names DEF IInv, CpuImages
  <2>4. CASE <<servePc, servePc'>> = <<"read", "publish">>
    <3>1. image < LastImage
      BY <2>4 DEF IInv, ServePlace
    <3>. QED BY <1>7, <2>2, <2>3, <2>4, <3>1, ServeKnows, LastImageAssumption
             DEF Image, NoImage
  <2>5. CASE <<servePc, servePc'>> # <<"read", "publish">>
    <3>1. image' = image /\ gotCpuFrame' \in BOOLEAN
      BY <1>7, <2>5, ServeKnows
    <3>. QED BY <2>2, <2>3, <3>1, ServeKnows
  <2>. QED BY <2>4, <2>5
<1>10. /\ depthImage <= newest2 /\ newest2 <= image
       /\ \A n \in Published2 : n <= newest2
       /\ source = "texture" => newest2 <= Newest(gpuRead, gpuContent)
       /\ FallsBack
  <2>1. CASE CpuCommits(Server) /\ servePc = "commitCpu" /\ gotCpuFrame
    <3>1. own = image /\ image <= Newest(gpuRead, gpuContent)
      BY <2>1 DEF IInv, CpuImages
    <3>2. newest2 = own /\ Published2 \subseteq Published \cup {own}
      BY <2>1 DEF CpuCommits, Committing, Publishing
    <3>. QED BY <1>9, <3>1, <3>2, ServeKnows, Names DEF FallsBack
  <2>2. CASE CpuCommitsToRead(Server) /\ servePc = "publish"
    <3>1. own = image /\ source # "texture"
      BY <2>2 DEF IInv, CpuImages, ServePlace
    <3>2. newest2 = own /\ Published2 \subseteq Published \cup {own}
      BY <2>2 DEF CpuCommitsToRead, CommittingToRead, Publishing
    <3>. QED BY <1>9, <3>1, <3>2 DEF FallsBack
  <2>3. CASE CpuReleases(Server) /\ servePc = "release"
    <3>1. source # "texture"
      BY <2>3 DEF IInv, ServePlace
    <3>2. cpuRead' # << >> /\ Published2 \subseteq Published
      BY <2>3 DEF CpuReleases, Releasing
    <3>3. CASE newest2 = newest
      BY <1>9, <3>1, <3>2, <3>3 DEF FallsBack
    <3>4. CASE newest2 # newest
      <4>1. /\ \A n \in Published2 :
                 other = n /\ cpuEntry[DepthThread] # 0
            /\ cpuEntry[DepthThread] = Last(cpuRead')
        BY <2>3, <3>4, Names DEF CpuReleases, Releasing
      <4>2. newest2 \in Published2
        BY <1>8, <3>2, PoolsConsistentAfter DEF ServeAside, Consistent
      <4>3. depthImage <= other
        BY <4>1, <4>2 DEF IInv, DepthPlace, DepthImages
      <4>. QED BY <1>9, <3>1, <3>2, <4>1, <4>2, <4>3 DEF FallsBack
    <3>. QED BY <3>3, <3>4
  <2>4. CASE newest2 = newest /\ Published2 = Published
    BY <1>9, <2>4 DEF FallsBack
  <2>. QED BY <1>7, <2>1, <2>2, <2>3, <2>4
           DEF CpuRescinds, Rescinding, CpuTakes, Taking, CpuFills, Filling, AsBefore
<1>11. servePc' \in {"poll"} \cup Texturing \cup Buffering
  BY <1>7
<1>12. ServePlace'
  BY <1>2, <1>3, <1>7
  DEF CpuRescinds, Rescinding, CpuTakes, Taking, CpuFills, Filling, CpuReleases,
      Releasing, CpuCommits, Committing, CpuCommitsToRead, CommittingToRead,
      Publishing, IInv, ServePlace
<1>13. CameraImages'
  BY <1>2, <1>3, <1>7, <1>9, ServeKnows, Names DEF IInv, CameraImages, ServePlace
<1>14. CpuImages'
  BY <1>2, <1>3, <1>7, <1>9, <1>10, ServeKnows, Names
  DEF CpuRescinds, Rescinding, CpuTakes, Taking, CpuFills, Filling, CpuReleases,
      Releasing, CpuCommits, Committing, CpuCommitsToRead, CommittingToRead,
      Publishing, IInv, CpuImages
<1>. QED
  BY <1>3, <1>5, <1>8, <1>9, <1>10, <1>11, <1>12, <1>13, <1>14, ServeKnows, Names
  DEF ServeKept

-----------------------------------------------------------------------------
(* Steps of the depth thread.                                              *)

DepthStepAside ==
  /\ Pools'
  /\ CpuAside(DepthThread) /\ DepthAside(DepthThread)
  /\ UNCHANGED beyondDepth

DepthKept ==
  /\ depthPc' \in {"acquire", "examine", "output", "render", "commit", "done"}
  /\ depthSequence' \in 0..(LastImage + 1)
  /\ depthImage' \in Image \cup {NoImage}
  /\ DepthPlace'
  /\ DepthImages'
  /\ Newest(cpuRead', cpuContent') = Newest(cpuRead, cpuContent)
  /\ ImagesIn(cpuRead', cpuContent') \subseteq ImagesIn(cpuRead, cpuContent)
  /\ Newest(depthRead, depthContent) <= Newest(depthRead', depthContent')

\* The same for a step of the depth thread.
LEMMA DepthConclude ==
  ASSUME IInv, DepthStepAside, DepthKept
  PROVE  IInv'
<1>1. /\ source' = source /\ stereo' = stereo
      /\ UNCHANGED <<gpuRead, gpuEntry, gpuWrite, gpuContent>>
      /\ UNCHANGED serveVars
      /\ UNCHANGED renderVars
  BY DEF DepthStepAside, beyondDepth, kind, gpu
<1>2. /\ \A r \in RenderRef :
           /\ depthEntry'[r] = depthEntry[r]
           /\ depthWrite'[r] = depthWrite[r]
           /\ ImageOf(depthEntry'[r], depthContent') = ImageOf(depthEntry[r], depthContent)
      /\ cpuEntry'[Server] = cpuEntry[Server]
      /\ cpuWrite'[Server] = cpuWrite[Server]
      /\ ImageOf(cpuEntry'[Server], cpuContent') = ImageOf(cpuEntry[Server], cpuContent)
  BY Names DEF DepthStepAside, CpuAside, DepthAside, Aside
<1>3. PipelineTyped'
  BY <1>1 DEF IInv, DepthKept, PipelineTyped, renderVars, serveVars
<1>4. ServePlace'
  BY <1>1, <1>2 DEF IInv, ServePlace, serveVars
<1>5. RenderPlace'
  BY <1>1, <1>2 DEF IInv, RenderPlace, renderVars
<1>6. CameraImages'
  BY <1>1 DEF IInv, CameraImages, serveVars
<1>7. CpuImages'
  BY <1>1, <1>2 DEF IInv, CpuImages, serveVars, DepthKept
<1>8. HeldInOrder'
  <2>1. /\ heldDepthFrames \in Seq(RenderRef)
        /\ ref \in RenderRef
        /\ \A i \in DOMAIN heldDepthFrames : heldDepthFrames[i] \in RenderRef
        /\ \A r \in ToSet(heldDepthFrames) : r \in RenderRef
    BY LenProperties DEF IInv, PipelineTyped, ToSet
  <2>. QED BY <1>1, <1>2, <2>1 DEF IInv, HeldInOrder, renderVars
<1>9. RenderedBefore'
  <2>1. ref \in RenderRef /\ rendered.depth \in Int
    BY Names DEF IInv, PipelineTyped
  <2>2. /\ Newest(depthRead, depthContent) \in Int
        /\ Newest(depthRead', depthContent') \in Int
    BY PoolsConsistent, PoolsConsistentAfter, Names
    DEF IInv, DepthStepAside, Consistent
  <2>. QED BY <1>1, <1>2, <2>1, <2>2 DEF IInv, RenderedBefore, renderVars, DepthKept
<1>10. Projected'
  BY <1>1 DEF IInv, Projected, renderVars, SequenceOf, FrameSequence
<1>. QED
  BY <1>3, <1>4, <1>5, <1>6, <1>7, <1>8, <1>9, <1>10 DEF IInv, DepthKept, DepthStepAside

\* What the depth thread knows of its two queues.
LEMMA DepthKnows ==
  ASSUME IInv
  PROVE  /\ Pools /\ DepthThread \in CpuRefs /\ DepthThread \in DepthRefs
         /\ Newest(cpuRead, cpuContent) \in Image \cup {NoImage}
         /\ Newest(depthRead, depthContent) \in Image \cup {NoImage}
         /\ cpuEntry[DepthThread] # 0 =>
              /\ ImageOf(cpuEntry[DepthThread], cpuContent) \in Image
              /\ ImageOf(cpuEntry[DepthThread], cpuContent)
                   <= Newest(cpuRead, cpuContent)
         /\ cpuRead # << >> => Newest(cpuRead, cpuContent) \in Image
         /\ DepthPublished \subseteq Image
         /\ depthImage \in Image \cup {NoImage}
         /\ depthSequence \in 0..(LastImage + 1)
<1>1. /\ Consistent(CpuRefs, cpuRead, cpuEntry, cpuWrite, cpuContent)
      /\ Consistent(DepthRefs, depthRead, depthEntry, depthWrite, depthContent)
  BY PoolsConsistent DEF IInv, Pools
<1>2. DepthThread \in CpuRefs /\ DepthThread \in DepthRefs
  BY Names
<1>3. /\ ~cpuWrite[DepthThread]
      /\ \A n \in CpuPublished : n <= Newest(cpuRead, cpuContent)
  BY DEF IInv, DepthPlace, CpuImages
<1>. QED
  BY <1>1, <1>2, <1>3 DEF Consistent, IInv, PipelineTyped

\* FrameSequence of an image is one that m_lastFrameSequence can have.
LEMMA SequenceType ==
  ASSUME NEW n \in Image
  PROVE  FrameSequence(n) \in Image
<1>1. n \in Nat /\ n <= LastImage /\ LastImage \in Nat
  BY LastImageAssumption DEF Image
<1>2. n % 16 \in Nat /\ n % 16 <= n
  BY <1>1
<1>. QED
  BY <1>1, <1>2 DEF FrameSequence, Image

\* When the depth thread gives a CPU frame back, what stays published beside
\* the newest one is read by the serve thread, which has published it last.
LEMMA DepthThreadReleases ==
  ASSUME IInv, CpuPool', CpuReleases(DepthThread)
  PROVE  /\ Newest(cpuRead', cpuContent') = Newest(cpuRead, cpuContent)
         /\ ImagesIn(cpuRead', cpuContent') \subseteq ImagesIn(cpuRead, cpuContent)
<1>. DEFINE newest == Newest(cpuRead, cpuContent)
            newest2 == Newest(cpuRead', cpuContent')
            other == ImageOf(cpuEntry[Server], cpuContent)
<1>1. /\ cpuRead' # << >>
      /\ ImagesIn(cpuRead', cpuContent') \subseteq ImagesIn(cpuRead, cpuContent)
  BY DEF CpuReleases, Releasing
<1>2. newest2 \in ImagesIn(cpuRead', cpuContent')
  <2>1. CpuFrames \in Nat \ {0}
    BY DEF CpuFrames
  <2>2. Consistent(CpuRefs, cpuRead', cpuEntry', cpuWrite', cpuContent')
    BY <2>1, PoolConsistent DEF CpuPool
  <2>. QED BY <1>1, <2>2 DEF Consistent
<1>3. newest2 <= newest
  BY <1>1, <1>2 DEF IInv, CpuImages
<1>4. CASE newest2 # newest
  <2>1. other = newest2 /\ cpuEntry[Server] # 0 /\ ~cpuWrite[Server]
    BY <1>2, <1>4, Names DEF CpuReleases, Releasing
  <2>2. other = image /\ newest <= image
    BY <2>1 DEF IInv, ServePlace, CpuImages
  <2>3. newest \in Int /\ newest2 \in Int
    BY <1>1, <1>2, DepthKnows, PoolsConsistent, Names DEF IInv, Consistent
  <2>. QED BY <1>3, <2>1, <2>2, <2>3, <1>1
<1>5. CASE newest2 = newest
  BY <1>1, <1>5
<1>. QED
  BY <1>4, <1>5

\* Its steps on the CPU queue.
LEMMA DepthCpuSteps ==
  ASSUME IInv,
         \/ AcquireForDepth \/ SkipFrame \/ DecodeInputFails \/ Reconstruct
         \/ ReleaseFromDepth
  PROVE  DepthStepAside /\ DepthKept
<1>1. UNCHANGED depth /\ UNCHANGED beyondDepth
  BY DEF AcquireForDepth, SkipFrame, DecodeInputFails, Reconstruct, ReleaseFromDepth
<1>2. UNCHANGED <<depthRead, depthEntry, depthWrite, depthContent>>
  BY <1>1 DEF depth
<1>3. GpuPool' /\ DepthPool' /\ DepthAside(DepthThread)
  BY <1>1, Untouched DEF IInv, Pools, beyondDepth
<1>4. CpuPool /\ DepthThread \in CpuRefs /\ ~cpuWrite[DepthThread]
  BY DepthKnows DEF Pools, IInv, DepthPlace
<1>. DEFINE own == ImageOf(cpuEntry[DepthThread], cpuContent)
            own2 == ImageOf(cpuEntry'[DepthThread], cpuContent')
            Same == depthImage' = depthImage /\ depthSequence' = depthSequence
<1>5. ASSUME TakeOn, cpuEntry[DepthThread] # 0
      PROVE  /\ depthSequence' \in 0..(LastImage + 1)
             /\ depthImage' = own
  <2>1. own \in Image
    BY <1>5, DepthKnows
  <2>2. depthSequence' = FrameSequence(own) /\ depthImage' = own
    BY <1>5 DEF TakeOn
  <2>3. Image \subseteq 0..(LastImage + 1)
    BY LastImageAssumption DEF Image
  <2>. QED BY <2>1, <2>2, <2>3, SequenceType
<1>6. /\ CpuPool' /\ CpuAside(DepthThread)
      /\ depthSequence' \in 0..(LastImage + 1)
      /\ \/ /\ <<depthPc, depthPc'>> = <<"acquire", "examine">>
            /\ CpuReads(DepthThread) /\ depthImage' = depthImage
         \/ /\ <<depthPc, depthPc'>> \in {<<"examine", "acquire">>, <<"done", "acquire">>}
            /\ CpuReleases(DepthThread) /\ depthImage' \in {depthImage, own}
         \/ /\ <<depthPc, depthPc'>> = <<"examine", "output">>
            /\ UNCHANGED <<cpuRead, cpuEntry, cpuWrite, cpuContent>>
            /\ depthImage' = own
  <2>1. CASE AcquireForDepth
    <3>1. CpuPool' /\ CpuReads(DepthThread)
      BY <1>4, <2>1, CpuOperations DEF AcquireForDepth
    <3>. QED BY <2>1, <3>1, DepthKnows
             DEF AcquireForDepth, DepthAt, depthLocals, CpuReads, Reading, CpuAside
  <2>2. CASE SkipFrame \/ DecodeInputFails \/ ReleaseFromDepth
    <3>1. /\ <<depthPc, depthPc'>> \in {<<"examine", "acquire">>, <<"done", "acquire">>}
          /\ Cpu!Destroy(DepthThread)
      BY <2>2 DEF SkipFrame, DecodeInputFails, ReleaseFromDepth, DepthAt
    <3>2. CpuPool' /\ CpuReleases(DepthThread)
      BY <1>4, <3>1, CpuOperations DEF CpuRescinds, Rescinding
    <3>3. cpuEntry[DepthThread] # 0
      BY <3>2 DEF CpuReleases, Releasing
    <3>4. /\ depthSequence' \in 0..(LastImage + 1)
          /\ depthImage' \in {depthImage, own}
      <4>1. CASE DecodeInputFails
        BY <1>5, <3>3, <4>1 DEF DecodeInputFails
      <4>2. CASE SkipFrame \/ ReleaseFromDepth
        BY <4>2, DepthKnows DEF SkipFrame, ReleaseFromDepth, depthLocals
      <4>. QED BY <2>2, <4>1, <4>2
    <3>. QED BY <3>1, <3>2, <3>4 DEF CpuReleases, Releasing, CpuAside
  <2>3. CASE Reconstruct
    <3>1. UNCHANGED cpu /\ TakeOn /\ <<depthPc, depthPc'>> = <<"examine", "output">>
      BY <2>3 DEF Reconstruct, DepthAt
    <3>2. CpuPool' /\ CpuAside(DepthThread)
      BY <3>1, Untouched DEF IInv
    <3>3. cpuEntry[DepthThread] # 0
      BY <3>1 DEF IInv, DepthPlace
    <3>. QED BY <1>5, <3>1, <3>2, <3>3 DEF cpu
  <2>. QED BY <2>1, <2>2, <2>3
<1>7. DepthStepAside
  BY <1>1, <1>3, <1>6 DEF DepthStepAside, Pools
<1>8. /\ Newest(cpuRead', cpuContent') = Newest(cpuRead, cpuContent)
      /\ ImagesIn(cpuRead', cpuContent') \subseteq ImagesIn(cpuRead, cpuContent)
  <2>1. CASE CpuReads(DepthThread)
    BY <2>1 DEF CpuReads, Reading, AsBefore
  <2>2. CASE CpuReleases(DepthThread)
    BY <1>6, <2>2, DepthThreadReleases
  <2>3. CASE UNCHANGED <<cpuRead, cpuEntry, cpuWrite, cpuContent>>
    BY <2>3
  <2>. QED BY <1>6, <2>1, <2>2, <2>3
<1>9. /\ depthPc' \in {"acquire", "examine", "output", "render", "commit", "done"}
      /\ DepthPlace'
  BY <1>2, <1>4, <1>6
  DEF CpuReads, Reading, CpuReleases, Releasing, IInv, DepthPlace
<1>10. /\ depthImage' \in Image \cup {NoImage}
       /\ depthImage <= depthImage'
       /\ depthImage' <= Newest(cpuRead, cpuContent)
       /\ depthPc' # "acquire" => depthImage' <= own2
       /\ depthPc' = "output" => depthImage' = own2
  <2>1. depthImage <= Newest(cpuRead, cpuContent) /\ depthImage \in Int
    BY DepthKnows, Names DEF IInv, DepthImages
  <2>2. CASE CpuReads(DepthThread) /\ depthPc' = "examine" /\ depthImage' = depthImage
    BY <2>1, <2>2, DepthKnows DEF CpuReads, Reading
  <2>3. CASE depthPc \in {"examine", "done"}
    <3>1. cpuEntry[DepthThread] # 0 /\ depthImage <= own
      BY <2>3 DEF IInv, DepthPlace, DepthImages
    <3>2. own \in Image /\ own <= Newest(cpuRead, cpuContent)
      BY <3>1, DepthKnows
    <3>3. depthImage' \in {depthImage, own} /\ Image \subseteq Int
      BY <1>6, <2>3, Names
    <3>4. depthImage' \in Image \cup {NoImage}
      BY <3>2, <3>3, DepthKnows
    <3>5. depthPc' # "acquire" => depthPc' = "output" /\ own2 = own /\ depthImage' = own
      BY <1>6, <2>3
    <3>6. own \in Int
      BY <3>2, <3>3
    <3>7. depthImage <= depthImage' /\ depthImage' <= Newest(cpuRead, cpuContent)
      BY <2>1, <3>1, <3>2, <3>3, <3>6
    <3>8. /\ depthPc' # "acquire" => depthImage' <= own2
          /\ depthPc' = "output" => depthImage' = own2
      BY <3>5, <3>6
    <3>. QED BY <3>4, <3>7, <3>8
  <2>. QED BY <1>6, <2>2, <2>3
<1>11. DepthImages'
  <2>1. Newest(depthRead, depthContent) \in Int /\ depthImage \in Int /\ depthImage' \in Int
    BY <1>10, DepthKnows, Names
  <2>2. depthPc' \in {"acquire", "examine", "output"}
    BY <1>6
  <2>. QED BY <1>2, <1>8, <1>10, <2>1, <2>2 DEF IInv, DepthImages
<1>12. Newest(depthRead, depthContent) <= Newest(depthRead', depthContent')
  BY <1>2, DepthKnows, Names
<1>. QED
  BY <1>6, <1>7, <1>8, <1>9, <1>10, <1>11, <1>12 DEF DepthKept

\* Its steps on the depth queue.
LEMMA DepthQueueSteps ==
  ASSUME IInv, AcquireDepthFrame \/ BeginRenderFails \/ RenderDepth \/ CommitDepth
  PROVE  DepthStepAside /\ DepthKept
<1>1. UNCHANGED cpu /\ UNCHANGED depthLocals /\ UNCHANGED beyondDepth
  BY DEF AcquireDepthFrame, BeginRenderFails, RenderDepth, CommitDepth
<1>2. /\ UNCHANGED <<cpuRead, cpuEntry, cpuWrite, cpuContent>>
      /\ depthSequence' = depthSequence /\ depthImage' = depthImage
  BY <1>1 DEF cpu, depthLocals
<1>3. GpuPool' /\ CpuPool' /\ CpuAside(DepthThread)
  BY <1>1, Untouched DEF IInv, Pools, beyondDepth
<1>4. DepthPool /\ DepthThread \in DepthRefs
  BY DepthKnows DEF Pools
<1>5. /\ DepthPool' /\ DepthAside(DepthThread)
      /\ \/ /\ <<depthPc, depthPc'>> = <<"output", "done">>
            /\ UNCHANGED <<depthRead, depthEntry, depthWrite, depthContent>>
         \/ /\ <<depthPc, depthPc'>> = <<"output", "render">>
            /\ DepthTakes(DepthThread)
         \/ /\ <<depthPc, depthPc'>> = <<"render", "done">>
            /\ DepthRescinds(DepthThread)
         \/ /\ <<depthPc, depthPc'>> = <<"render", "commit">>
            /\ DepthFills(DepthThread)
            /\ ImageOf(depthEntry'[DepthThread], depthContent') = depthImage
         \/ /\ <<depthPc, depthPc'>> = <<"commit", "done">>
            /\ DepthCommits(DepthThread)
  <2>1. CASE AcquireDepthFrame
    <3>1. CASE depthIdle = << >>
      <4>1. UNCHANGED depth /\ <<depthPc, depthPc'>> = <<"output", "done">>
        BY <2>1, <3>1 DEF AcquireDepthFrame, DepthAt
      <4>2. DepthPool' /\ DepthAside(DepthThread)
        BY <4>1, Untouched DEF IInv
      <4>. QED BY <4>1, <4>2 DEF depth
    <3>2. CASE depthIdle # << >>
      <4>1. /\ Depth!AcquireWrite(DepthThread)
            /\ <<depthPc, depthPc'>> = <<"output", "render">>
        BY <2>1, <3>2 DEF AcquireDepthFrame, DepthAt
      <4>2. DepthPool' /\ DepthTakes(DepthThread)
        BY <1>4, <4>1, DepthOperations
      <4>. QED BY <4>1, <4>2 DEF DepthTakes, Taking, DepthAside
    <3>. QED BY <3>1, <3>2
  <2>2. CASE BeginRenderFails
    <3>1. depthWrite[DepthThread]
      BY <2>2 DEF BeginRenderFails, DepthAt, IInv, DepthPlace
    <3>2. DepthPool' /\ DepthRescinds(DepthThread)
      BY <1>4, <2>2, <3>1, DepthOperations DEF BeginRenderFails, DepthReleases, Releasing
    <3>. QED BY <2>2, <3>2
             DEF BeginRenderFails, DepthAt, DepthRescinds, Rescinding, DepthAside
  <2>3. CASE RenderDepth
    <3>1. DepthPool' /\ DepthFills(DepthThread)
      BY <1>4, <2>3, DepthOperations DEF RenderDepth
    <3>. QED BY <2>3, <3>1 DEF RenderDepth, DepthAt, DepthFills, Filling, DepthAside
  <2>4. CASE CommitDepth
    <3>1. DepthPool' /\ DepthCommits(DepthThread)
      BY <1>4, <2>4, DepthOperations DEF CommitDepth
    <3>. QED BY <2>4, <3>1
             DEF CommitDepth, DepthAt, DepthCommits, Committing, Publishing, DepthAside
  <2>. QED BY <2>1, <2>2, <2>3, <2>4
<1>6. DepthStepAside
  BY <1>1, <1>3, <1>5 DEF DepthStepAside, Pools
<1>. DEFINE newest == Newest(depthRead, depthContent)
            newest2 == Newest(depthRead', depthContent')
            own == ImageOf(depthEntry[DepthThread], depthContent)
<1>7. /\ newest <= newest2 /\ newest2 <= depthImage
      /\ \A n \in ImagesIn(depthRead', depthContent') : n <= newest2
  <2>1. /\ newest \in Int /\ depthImage \in Int /\ newest <= depthImage
        /\ DepthPublished \subseteq Int
        /\ \A n \in DepthPublished : n <= newest
    BY DepthKnows, Names DEF IInv, DepthImages
  <2>2. CASE DepthCommits(DepthThread) /\ depthPc = "commit"
    <3>1. own = depthImage
      BY <2>2 DEF IInv, DepthImages
    <3>2. /\ newest2 = own
          /\ ImagesIn(depthRead', depthContent') \subseteq DepthPublished \cup {own}
      BY <2>2 DEF DepthCommits, Committing, Publishing
    <3>. QED BY <2>1, <3>1, <3>2
  <2>3. CASE newest2 = newest /\ ImagesIn(depthRead', depthContent') = DepthPublished
    BY <2>1, <2>3
  <2>. QED BY <1>5, <2>2, <2>3
           DEF DepthTakes, Taking, DepthFills, Filling, DepthRescinds, Rescinding, AsBefore
<1>8. /\ depthPc' \in {"acquire", "examine", "output", "render", "commit", "done"}
      /\ DepthPlace'
  BY <1>2, <1>5
  DEF DepthTakes, Taking, DepthFills, Filling, DepthRescinds, Rescinding,
      DepthCommits, Committing, Publishing, IInv, DepthPlace
<1>9. DepthImages'
  BY <1>2, <1>5, <1>7 DEF IInv, DepthImages
<1>. QED
  BY <1>2, <1>6, <1>7, <1>8, <1>9, DepthKnows DEF DepthKept

-----------------------------------------------------------------------------
(* Steps of the render thread.                                             *)

\* What taking the first element away does.
LEMMA DropFirst ==
  ASSUME NEW S, NEW s \in Seq(S), s # << >>
  PROVE  /\ Head(s) \in S /\ Head(s) = s[1] /\ Head(s) \in ToSet(s)
         /\ Tail(s) \in Seq(S)
         /\ Len(Tail(s)) = Len(s) - 1
         /\ \A i \in 1..(Len(s) - 1) : Tail(s)[i] = s[i + 1]
         /\ NoRepeats(s) => /\ NoRepeats(Tail(s))
                            /\ ToSet(Tail(s)) = ToSet(s) \ {Head(s)}
<1>1. /\ Len(s) \in Nat \ {0} /\ DOMAIN s = 1..Len(s)
      /\ Head(s) = s[1] /\ Head(s) \in S
      /\ Tail(s) \in Seq(S) /\ Len(Tail(s)) = Len(s) - 1
      /\ DOMAIN Tail(s) = 1..(Len(s) - 1)
      /\ \A i \in 1..(Len(s) - 1) : Tail(s)[i] = s[i + 1]
  BY HeadTailProperties, LenProperties, EmptySeq
<1>2. Head(s) \in ToSet(s)
  BY <1>1 DEF ToSet
<1>3. ASSUME NoRepeats(s)
      PROVE  NoRepeats(Tail(s)) /\ ToSet(Tail(s)) = ToSet(s) \ {Head(s)}
  <2>1. NoRepeats(Tail(s))
    <3>. SUFFICES ASSUME NEW i \in DOMAIN Tail(s), NEW j \in DOMAIN Tail(s),
                         Tail(s)[i] = Tail(s)[j]
                  PROVE  i = j
      BY DEF NoRepeats
    <3>1. i + 1 \in DOMAIN s /\ j + 1 \in DOMAIN s /\ s[i + 1] = s[j + 1]
      BY <1>1
    <3>2. i + 1 = j + 1
      BY <1>3, <3>1 DEF NoRepeats
    <3>. QED BY <1>1, <3>2
  <2>2. ASSUME NEW i \in DOMAIN Tail(s)
        PROVE  Tail(s)[i] \in ToSet(s) /\ Tail(s)[i] # Head(s)
    <3>1. i + 1 \in DOMAIN s /\ i + 1 # 1 /\ 1 \in DOMAIN s /\ Tail(s)[i] = s[i + 1]
      BY <1>1
    <3>. QED BY <1>1, <1>3, <3>1 DEF NoRepeats, ToSet
  <2>3. ASSUME NEW i \in DOMAIN s, s[i] # Head(s) PROVE s[i] \in ToSet(Tail(s))
    <3>1. i - 1 \in DOMAIN Tail(s) /\ Tail(s)[i - 1] = s[i]
      BY <1>1, <2>3
    <3>. QED BY <3>1 DEF ToSet
  <2>. QED BY <2>1, <2>2, <2>3 DEF ToSet
<1>. QED
  BY <1>1, <1>2, <1>3

\* With two frames held there is a third reference.
LEMMA SpareReference ==
  ASSUME NEW s \in Seq(RenderRef), Len(s) <= HeldFrames
  PROVE  \E r \in RenderRef : r \notin ToSet(s)
<1>1. /\ Len(s) \in 0..2 /\ DOMAIN s = 1..Len(s)
      /\ RenderRef = 1..3
  <2>1. Len(s) \in Nat /\ DOMAIN s = 1..Len(s)
    BY LenProperties
  <2>. QED BY <2>1 DEF HeldFrames, RenderRef
<1>2. \E r \in 1..3 : r # s[1] /\ r # s[2]
  OBVIOUS
<1>3. PICK r \in RenderRef : r # s[1] /\ r # s[2]
  BY <1>1, <1>2
<1>4. \A i \in DOMAIN s : i = 1 \/ i = 2
  BY <1>1
<1>. QED
  BY <1>3, <1>4 DEF ToSet

RenderAside(p) ==
  /\ Pools'
  /\ GpuAside(p) /\ DepthAside(p)
  /\ UNCHANGED beyondRender

RenderKept ==
  /\ renderPc' \in {"idle", "depth"} \cup Rendering
  /\ ref' \in RenderRef
  /\ heldCameraFrames' \in Seq(RenderRef)
  /\ heldDepthFrames' \in Seq(RenderRef)
  /\ rendered' \in [camera : Image \cup {NoImage}, depth : Image \cup {NoImage}]
  /\ projected' \in Image \cup {NoImage}
  /\ renderSequence' \in Image
  /\ RenderPlace'
  /\ HeldInOrder'
  /\ RenderedBefore'
  /\ Projected'
  /\ Newest(gpuRead', gpuContent') = Newest(gpuRead, gpuContent)
  /\ ImagesIn(gpuRead', gpuContent') \subseteq ImagesIn(gpuRead, gpuContent)
  /\ Newest(depthRead', depthContent') = Newest(depthRead, depthContent)
  /\ ImagesIn(depthRead', depthContent') \subseteq ImagesIn(depthRead, depthContent)

\* The same for a step of the render thread with its reference p.
LEMMA RenderConclude ==
  ASSUME IInv, NEW p \in RenderRef, RenderAside(p), RenderKept
  PROVE  IInv'
<1>1. /\ source' = source /\ stereo' = stereo
      /\ UNCHANGED <<cpuRead, cpuEntry, cpuWrite, cpuContent>>
      /\ UNCHANGED serveVars
      /\ UNCHANGED depthVars
  BY DEF RenderAside, beyondRender, kind, cpu
<1>2. /\ gpuEntry'[Server] = gpuEntry[Server]
      /\ gpuWrite'[Server] = gpuWrite[Server]
      /\ ImageOf(gpuEntry'[Server], gpuContent') = ImageOf(gpuEntry[Server], gpuContent)
      /\ depthEntry'[DepthThread] = depthEntry[DepthThread]
      /\ depthWrite'[DepthThread] = depthWrite[DepthThread]
      /\ ImageOf(depthEntry'[DepthThread], depthContent')
           = ImageOf(depthEntry[DepthThread], depthContent)
  BY Names DEF RenderAside, GpuAside, DepthAside, Aside
<1>3. PipelineTyped'
  BY <1>1 DEF IInv, RenderKept, PipelineTyped, serveVars, depthVars
<1>4. ServePlace'
  BY <1>1, <1>2 DEF IInv, ServePlace, serveVars
<1>5. DepthPlace'
  BY <1>1, <1>2 DEF IInv, DepthPlace, depthVars
<1>6. CameraImages'
  BY <1>1, <1>2 DEF IInv, CameraImages, serveVars, RenderKept
<1>7. CpuImages'
  BY <1>1 DEF IInv, CpuImages, serveVars, RenderKept
<1>8. DepthImages'
  BY <1>1, <1>2 DEF IInv, DepthImages, depthVars, RenderKept
<1>. QED
  BY <1>3, <1>4, <1>5, <1>6, <1>7, <1>8 DEF IInv, RenderKept, RenderAside

\* What the render thread knows of its two queues.
LEMMA RenderKnows ==
  ASSUME IInv
  PROVE  /\ Pools
         /\ \A r \in RenderRef : r \in GpuRefs /\ r \in DepthRefs
         /\ Newest(gpuRead, gpuContent) \in Image \cup {NoImage}
         /\ Newest(depthRead, depthContent) \in Image \cup {NoImage}
         /\ CameraPublished \subseteq Image /\ DepthPublished \subseteq Image
         /\ gpuRead # << >> => Newest(gpuRead, gpuContent) \in CameraPublished
         /\ depthRead # << >> => Newest(depthRead, depthContent) \in DepthPublished
         /\ depthRead = << >> => DepthPublished = {}
         /\ \A r \in RenderRef :
              /\ gpuEntry[r] # 0 =>
                   ImageOf(gpuEntry[r], gpuContent) \in CameraPublished
              /\ depthEntry[r] # 0 =>
                   ImageOf(depthEntry[r], depthContent) \in DepthPublished
         /\ \A n \in CameraPublished : n <= Newest(gpuRead, gpuContent)
         /\ \A n \in DepthPublished : n <= Newest(depthRead, depthContent)
<1>1. /\ Consistent(GpuRefs, gpuRead, gpuEntry, gpuWrite, gpuContent)
      /\ Consistent(DepthRefs, depthRead, depthEntry, depthWrite, depthContent)
      /\ Pools
  BY PoolsConsistent DEF IInv, Pools
<1>2. \A r \in RenderRef : r \in GpuRefs /\ r \in DepthRefs
  BY Names
<1>3. \A r \in RenderRef : ~gpuWrite[r] /\ ~depthWrite[r]
  BY DEF IInv, RenderPlace
<1>4. /\ \A n \in CameraPublished : n <= Newest(gpuRead, gpuContent)
      /\ \A n \in DepthPublished : n <= Newest(depthRead, depthContent)
  BY DEF IInv, CameraImages, DepthImages
<1>5. \A r \in RenderRef :
        /\ gpuEntry[r] # 0 => ImageOf(gpuEntry[r], gpuContent) \in CameraPublished
        /\ depthEntry[r] # 0 =>
             ImageOf(depthEntry[r], depthContent) \in DepthPublished
  BY <1>1, <1>2, <1>3 DEF Consistent
<1>. QED
  BY <1>1, <1>2, <1>4, <1>5 DEF Consistent

\* Releasing the oldest of the frames that are read leaves the newest.
LEMMA OldestCameraGoes ==
  ASSUME IInv, GpuPool', NEW p \in RenderRef, GpuReleases(p),
         \A r \in RenderRef : r # p /\ gpuEntry[r] # 0 =>
           ImageOf(gpuEntry[p], gpuContent) <= ImageOf(gpuEntry[r], gpuContent)
  PROVE  /\ Newest(gpuRead', gpuContent') = Newest(gpuRead, gpuContent)
         /\ ImagesIn(gpuRead', gpuContent') \subseteq ImagesIn(gpuRead, gpuContent)
<1>. DEFINE newest == Newest(gpuRead, gpuContent)
            newest2 == Newest(gpuRead', gpuContent')
<1>1. /\ gpuRead' # << >>
      /\ ImagesIn(gpuRead', gpuContent') \subseteq ImagesIn(gpuRead, gpuContent)
  BY DEF GpuReleases, Releasing
<1>2. newest2 \in ImagesIn(gpuRead', gpuContent')
  <2>1. GpuFrames \in Nat \ {0}
    BY DEF GpuFrames
  <2>2. Consistent(GpuRefs, gpuRead', gpuEntry', gpuWrite', gpuContent')
    BY <2>1, PoolConsistent DEF GpuPool
  <2>. QED BY <1>1, <2>2 DEF Consistent
<1>3. newest2 <= newest /\ newest \in Int /\ newest2 \in Int
  BY <1>1, <1>2, RenderKnows, Names
<1>4. CASE newest2 # newest
  <2>1. newest = ImageOf(gpuEntry[p], gpuContent)
    BY <1>4 DEF GpuReleases, Releasing
  <2>2. PICK r \in GpuRefs : /\ r # p /\ gpuEntry[r] # 0 /\ ~gpuWrite[r]
                             /\ ImageOf(gpuEntry[r], gpuContent) = newest2
    BY <1>2, <1>4 DEF GpuReleases, Releasing
  <2>3. r \in RenderRef
    BY <2>2, Names DEF IInv, ServePlace
  <2>. QED BY <1>3, <1>4, <2>1, <2>2, <2>3
<1>5. CASE newest2 = newest
  BY <1>1, <1>5
<1>. QED
  BY <1>4, <1>5

\* The same for the depth queue.
LEMMA OldestDepthGoes ==
  ASSUME IInv, DepthPool', NEW p \in RenderRef, DepthReleases(p),
         \A r \in RenderRef : r # p /\ depthEntry[r] # 0 =>
           ImageOf(depthEntry[p], depthContent) <= ImageOf(depthEntry[r], depthContent)
  PROVE  /\ Newest(depthRead', depthContent') = Newest(depthRead, depthContent)
         /\ ImagesIn(depthRead', depthContent')
              \subseteq ImagesIn(depthRead, depthContent)
<1>. DEFINE newest == Newest(depthRead, depthContent)
            newest2 == Newest(depthRead', depthContent')
<1>1. /\ depthRead' # << >>
      /\ ImagesIn(depthRead', depthContent') \subseteq ImagesIn(depthRead, depthContent)
  BY DEF DepthReleases, Releasing
<1>2. newest2 \in ImagesIn(depthRead', depthContent')
  <2>1. DepthFrames \in Nat \ {0}
    BY DEF DepthFrames
  <2>2. Consistent(DepthRefs, depthRead', depthEntry', depthWrite', depthContent')
    BY <2>1, PoolConsistent DEF DepthPool
  <2>. QED BY <1>1, <2>2 DEF Consistent
<1>3. newest2 <= newest /\ newest \in Int /\ newest2 \in Int
  BY <1>1, <1>2, RenderKnows, Names
<1>4. CASE newest2 # newest
  <2>1. newest = ImageOf(depthEntry[p], depthContent)
    BY <1>4 DEF DepthReleases, Releasing
  <2>2. PICK r \in DepthRefs : /\ r # p /\ depthEntry[r] # 0 /\ ~depthWrite[r]
                               /\ ImageOf(depthEntry[r], depthContent) = newest2
    BY <1>2, <1>4 DEF DepthReleases, Releasing
  <2>3. r \in RenderRef
    BY <2>2, Names DEF IInv, DepthPlace
  <2>. QED BY <1>3, <1>4, <2>1, <2>2, <2>3
<1>5. CASE newest2 = newest
  BY <1>1, <1>5
<1>. QED
  BY <1>4, <1>5

\* Where the render thread's references are, of its two lists.
LEMMA RenderLists ==
  ASSUME IInv
  PROVE  /\ heldCameraFrames \in Seq(RenderRef) /\ heldDepthFrames \in Seq(RenderRef)
         /\ ToSet(heldCameraFrames) \subseteq RenderRef
         /\ ToSet(heldDepthFrames) \subseteq RenderRef
         /\ ref \in RenderRef
<1>1. /\ heldCameraFrames \in Seq(RenderRef) /\ heldDepthFrames \in Seq(RenderRef)
      /\ ref \in RenderRef
  BY DEF IInv, PipelineTyped
<1>. QED
  BY <1>1, LenProperties DEF ToSet

\* A frame is acquired for a reference that holds none; it is the newest.
LEMMA AcquireCameraFrameStep ==
  ASSUME IInv, AcquireCameraFrame
  PROVE  /\ RenderAside(ref') /\ ref' \in RenderRef /\ RenderKept
         /\ ref' \notin ToSet(heldCameraFrames) /\ ref' \notin ToSet(heldDepthFrames)
<1>1. /\ renderPc = "idle" /\ renderPc' = IF stereo THEN "depth" ELSE "evict"
      /\ UNCHANGED depth /\ UNCHANGED renderLocals /\ UNCHANGED beyondRender
      /\ Gpu!AcquireRead(ref')
      /\ ref' = CHOOSE r \in RenderRef : Unreferenced(r)
  BY DEF AcquireCameraFrame, RenderAt
<1>2. /\ UNCHANGED <<depthRead, depthEntry, depthWrite, depthContent>>
      /\ UNCHANGED <<heldCameraFrames, heldDepthFrames, rendered, projected>>
      /\ renderSequence' = renderSequence
      /\ stereo' = stereo /\ source' = source /\ UNCHANGED cpu
  BY <1>1 DEF depth, renderLocals, beyondRender, kind
<1>3. /\ \A r \in RenderRef : gpuEntry[r] # 0 <=> r \in ToSet(heldCameraFrames)
      /\ \A r \in RenderRef : depthEntry[r] # 0 <=> r \in ToSet(heldDepthFrames)
      /\ heldDepthFrames = heldCameraFrames \/ heldDepthFrames = << >>
      /\ Len(heldCameraFrames) <= HeldFrames
  BY <1>1 DEF IInv, RenderPlace, PipelineTyped
<1>4. \E r \in RenderRef : Unreferenced(r)
  <2>1. PICK r \in RenderRef : r \notin ToSet(heldCameraFrames)
    BY <1>3, RenderLists, SpareReference
  <2>2. r \notin ToSet(heldDepthFrames)
    BY <1>3, <2>1 DEF ToSet
  <2>3. gpuEntry[r] = 0 /\ depthEntry[r] = 0
    BY <1>3, <2>1, <2>2
  <2>. QED BY <2>3 DEF Unreferenced, Gpu!NoFrame, Depth!NoFrame
<1>5. /\ ref' \in RenderRef
      /\ ref' \notin ToSet(heldCameraFrames) /\ ref' \notin ToSet(heldDepthFrames)
  <2>1. ref' \in RenderRef /\ Unreferenced(ref')
    BY <1>1, <1>4, Zenon
  <2>2. gpuEntry[ref'] = 0 /\ depthEntry[ref'] = 0
    BY <2>1 DEF Unreferenced, Gpu!NoFrame, Depth!NoFrame
  <2>. QED BY <1>3, <2>1, <2>2
<1>6. GpuPool' /\ GpuReads(ref')
  BY <1>1, <1>5, RenderKnows, GpuOperations DEF Pools
<1>7. CpuPool' /\ DepthPool' /\ DepthAside(ref')
  BY <1>1, <1>2, Untouched DEF IInv
<1>8. RenderAside(ref')
  BY <1>1, <1>6, <1>7 DEF RenderAside, Pools, GpuReads, Reading, GpuAside
<1>9. /\ Newest(gpuRead', gpuContent') = Newest(gpuRead, gpuContent)
      /\ ImagesIn(gpuRead', gpuContent') = ImagesIn(gpuRead, gpuContent)
      /\ gpuEntry'[ref'] # 0 /\ ~gpuWrite'[ref']
      /\ ImageOf(gpuEntry'[ref'], gpuContent') = Newest(gpuRead, gpuContent)
      /\ \A r \in RenderRef : r # ref' =>
           /\ gpuEntry'[r] = gpuEntry[r] /\ gpuWrite'[r] = gpuWrite[r]
           /\ ImageOf(gpuEntry'[r], gpuContent') = ImageOf(gpuEntry[r], gpuContent)
  BY <1>6, RenderKnows DEF GpuReads, Reading, AsBefore, Aside
<1>10. RenderPlace'
  BY <1>1, <1>2, <1>3, <1>5, <1>9 DEF IInv, RenderPlace, PipelineTyped
<1>11. \A r \in ToSet(heldCameraFrames) :
         /\ ImageOf(gpuEntry'[r], gpuContent') = ImageOf(gpuEntry[r], gpuContent)
         /\ ImageOf(gpuEntry[r], gpuContent) <= Newest(gpuRead, gpuContent)
  BY <1>3, <1>5, <1>9, RenderLists, RenderKnows
<1>12. HeldInOrder'
  <2>1. \A i \in DOMAIN heldCameraFrames : heldCameraFrames[i] \in ToSet(heldCameraFrames)
    BY DEF ToSet
  <2>. QED BY <1>1, <1>2, <1>9, <1>11, <2>1 DEF IInv, HeldInOrder
<1>13. RenderedBefore'
  BY <1>1, <1>2, <1>9 DEF IInv, RenderedBefore
<1>14. Projected'
  BY <1>2 DEF IInv, Projected, SequenceOf, FrameSequence
<1>. QED
  BY <1>1, <1>2, <1>5, <1>8, <1>9, <1>10, <1>12, <1>13, <1>14
  DEF IInv, PipelineTyped, RenderKept

\* So is the depth frame, or the camera frame is given back, which is the newest.
LEMMA AcquireDepthStep ==
  ASSUME IInv, AcquireDepth
  PROVE  RenderAside(ref) /\ RenderKept
<1>1. /\ renderPc = "depth" /\ stereo
      /\ UNCHANGED renderLocals /\ ref' = ref /\ UNCHANGED beyondRender
      /\ heldDepthFrames = heldCameraFrames
      /\ ref \in RenderRef /\ ref \notin ToSet(heldCameraFrames)
      /\ gpuEntry[ref] # 0
      /\ ImageOf(gpuEntry[ref], gpuContent) >= rendered.camera
  BY DEF AcquireDepth, RenderAt, IInv, RenderPlace, PipelineTyped, RenderedBefore
<1>2. /\ UNCHANGED <<heldCameraFrames, heldDepthFrames, rendered, projected>>
      /\ renderSequence' = renderSequence
      /\ stereo' = stereo /\ source' = source /\ UNCHANGED cpu
  BY <1>1 DEF renderLocals, beyondRender, kind
<1>3. CpuPool'
  BY <1>2, Untouched DEF IInv
<1>4. /\ \A r \in RenderRef : gpuEntry[r] # 0 <=> r \in ToSet(heldCameraFrames) \/ r = ref
      /\ \A r \in RenderRef : depthEntry[r] # 0 <=> r \in ToSet(heldDepthFrames)
  BY <1>1 DEF IInv, RenderPlace
<1>5. Projected'
  BY <1>2 DEF IInv, Projected, SequenceOf, FrameSequence
<1>6. CASE depthRead = << >>
  <2>1. /\ renderPc' = "idle" /\ UNCHANGED depth /\ Gpu!Destroy(ref)
    BY <1>6 DEF AcquireDepth, RenderAt
  <2>2. UNCHANGED <<depthRead, depthEntry, depthWrite, depthContent>>
    BY <2>1 DEF depth
  <2>3. ~gpuWrite[ref]
    BY <1>1 DEF IInv, RenderPlace
  <2>4. GpuPool' /\ GpuReleases(ref)
    BY <1>1, <2>1, <2>3, RenderKnows, GpuOperations DEF Pools, GpuRescinds, Rescinding
  <2>5. DepthPool' /\ DepthAside(ref)
    BY <2>1, Untouched DEF IInv
  <2>6. RenderAside(ref)
    BY <1>1, <1>3, <2>4, <2>5 DEF RenderAside, Pools, GpuReleases, Releasing, GpuAside
  <2>7. ToSet(heldCameraFrames) = {}
    BY <1>1, <1>4, <1>6, RenderLists, RenderKnows
  <2>8. /\ Newest(gpuRead', gpuContent') = Newest(gpuRead, gpuContent)
        /\ ImagesIn(gpuRead', gpuContent') \subseteq ImagesIn(gpuRead, gpuContent)
    BY <1>1, <1>4, <2>4, <2>7, OldestCameraGoes
  <2>9. /\ gpuEntry'[ref] = 0 /\ ~gpuWrite'[ref]
        /\ \A r \in RenderRef : r # ref =>
             gpuEntry'[r] = gpuEntry[r] /\ gpuWrite'[r] = gpuWrite[r]
    BY <2>4, RenderKnows DEF GpuReleases, Releasing, Aside
  <2>10. RenderPlace'
    BY <1>1, <1>2, <1>4, <2>1, <2>2, <2>7, <2>9 DEF IInv, RenderPlace
  <2>11. \A i \in DOMAIN heldCameraFrames : heldCameraFrames[i] \in ToSet(heldCameraFrames)
    BY DEF ToSet
  <2>12. HeldInOrder'
    BY <1>1, <1>2, <2>1, <2>7, <2>11 DEF HeldInOrder
  <2>13. RenderedBefore'
    BY <1>1, <1>2, <2>1, <2>2, <2>8 DEF IInv, RenderedBefore
  <2>. QED
    BY <1>1, <1>2, <1>5, <2>1, <2>2, <2>6, <2>8, <2>10, <2>12, <2>13
    DEF IInv, PipelineTyped, RenderKept
<1>7. CASE depthRead # << >>
  <2>1. /\ renderPc' = "evict" /\ UNCHANGED gpu /\ Depth!AcquireRead(ref)
    BY <1>7 DEF AcquireDepth, RenderAt
  <2>2. UNCHANGED <<gpuRead, gpuEntry, gpuWrite, gpuContent>>
    BY <2>1 DEF gpu
  <2>3. DepthPool' /\ DepthReads(ref)
    BY <1>1, <2>1, RenderKnows, DepthOperations DEF Pools
  <2>4. GpuPool' /\ GpuAside(ref)
    BY <2>1, Untouched DEF IInv
  <2>5. RenderAside(ref)
    BY <1>1, <1>3, <2>3, <2>4 DEF RenderAside, Pools, DepthReads, Reading, DepthAside
  <2>6. /\ Newest(depthRead', depthContent') = Newest(depthRead, depthContent)
        /\ ImagesIn(depthRead', depthContent') = ImagesIn(depthRead, depthContent)
        /\ depthEntry'[ref] # 0 /\ ~depthWrite'[ref]
        /\ ImageOf(depthEntry'[ref], depthContent') = Newest(depthRead, depthContent)
        /\ \A r \in RenderRef : r # ref =>
             /\ depthEntry'[r] = depthEntry[r] /\ depthWrite'[r] = depthWrite[r]
             /\ ImageOf(depthEntry'[r], depthContent') = ImageOf(depthEntry[r], depthContent)
    BY <2>3, RenderKnows DEF DepthReads, Reading, AsBefore, Aside
  <2>7. RenderPlace'
    BY <1>1, <1>2, <1>4, <2>1, <2>2, <2>6 DEF IInv, RenderPlace
  <2>8. \A r \in ToSet(heldDepthFrames) :
          /\ ImageOf(depthEntry'[r], depthContent') = ImageOf(depthEntry[r], depthContent)
          /\ ImageOf(depthEntry[r], depthContent) <= Newest(depthRead, depthContent)
    BY <1>1, <1>4, <2>6, RenderLists, RenderKnows
  <2>9. HeldInOrder'
    <3>1. \A i \in DOMAIN heldDepthFrames : heldDepthFrames[i] \in ToSet(heldDepthFrames)
      BY DEF ToSet
    <3>. QED BY <1>1, <1>2, <2>1, <2>2, <2>6, <2>8, <3>1 DEF IInv, HeldInOrder
  <2>10. RenderedBefore'
    BY <1>1, <1>2, <2>1, <2>2, <2>6 DEF IInv, RenderedBefore
  <2>. QED
    BY <1>1, <1>2, <1>5, <2>1, <2>2, <2>5, <2>6, <2>7, <2>9, <2>10
    DEF IInv, PipelineTyped, RenderKept
<1>. QED
  BY <1>6, <1>7

\* The camera frame that is evicted is the oldest of those read.
LEMMA EvictCameraFrameStep ==
  ASSUME IInv, EvictCameraFrame
  PROVE  RenderAside(Head(heldCameraFrames)) /\ RenderKept
<1>. DEFINE p == Head(heldCameraFrames)
            held == heldCameraFrames
<1>1. /\ renderPc = "evict" /\ renderPc' = IF stereo THEN "evictDepth" ELSE "evict"
      /\ Len(held) >= HeldFrames /\ Gpu!Destroy(p) /\ heldCameraFrames' = Tail(held)
      /\ UNCHANGED <<depth, ref, heldDepthFrames, rendered, projected, renderSequence>>
      /\ UNCHANGED beyondRender
  BY DEF EvictCameraFrame, RenderAt
<1>2. /\ UNCHANGED <<depthRead, depthEntry, depthWrite, depthContent>>
      /\ stereo' = stereo /\ source' = source /\ UNCHANGED cpu
  BY <1>1 DEF depth, beyondRender, kind
<1>3. /\ held \in Seq(RenderRef) /\ held # << >> /\ NoRepeats(held)
      /\ ref \in RenderRef /\ ref \notin ToSet(held)
      /\ Len(held) <= HeldFrames
      /\ stereo => heldDepthFrames = held
      /\ \A r \in RenderRef : gpuEntry[r] # 0 <=> r \in ToSet(held) \/ r = ref
      /\ \A r \in RenderRef : ~gpuWrite[r]
  <2>1. held # << >>
    BY <1>1 DEF HeldFrames
  <2>. QED BY <1>1, <2>1, RenderLists DEF IInv, RenderPlace
<1>4. /\ p \in RenderRef /\ p \in ToSet(held) /\ p = held[1]
      /\ Tail(held) \in Seq(RenderRef)
      /\ Len(Tail(held)) = Len(held) - 1
      /\ NoRepeats(Tail(held)) /\ ToSet(Tail(held)) = ToSet(held) \ {p}
      /\ \A i \in 1..(Len(held) - 1) : Tail(held)[i] = held[i + 1]
      /\ Len(held) \in Nat /\ DOMAIN held = 1..Len(held)
      /\ DOMAIN Tail(held) = 1..(Len(held) - 1)
  BY <1>3, DropFirst, LenProperties
<1>5. GpuPool' /\ GpuReleases(p)
  BY <1>1, <1>3, <1>4, RenderKnows, GpuOperations DEF Pools, GpuRescinds, Rescinding
<1>6. CpuPool' /\ DepthPool' /\ DepthAside(p)
  BY <1>1, <1>2, Untouched DEF IInv
<1>7. RenderAside(p)
  BY <1>1, <1>5, <1>6 DEF RenderAside, Pools, GpuReleases, Releasing, GpuAside
<1>8. \A r \in RenderRef : r # p /\ gpuEntry[r] # 0 =>
        ImageOf(gpuEntry[p], gpuContent) <= ImageOf(gpuEntry[r], gpuContent)
  <2>1. SUFFICES ASSUME NEW r \in RenderRef, r # p, gpuEntry[r] # 0
                 PROVE  ImageOf(gpuEntry[p], gpuContent) <= ImageOf(gpuEntry[r], gpuContent)
    OBVIOUS
  <2>2. CASE r = ref
    BY <1>1, <1>4, <2>2 DEF IInv, HeldInOrder
  <2>3. CASE r \in ToSet(held)
    <3>1. PICK i \in DOMAIN held : r = held[i]
      BY <2>3 DEF ToSet
    <3>2. 1 < i /\ 1 \in DOMAIN held
      BY <1>4, <2>1, <3>1
    <3>. QED BY <1>4, <3>1, <3>2 DEF IInv, HeldInOrder
  <2>. QED BY <1>3, <2>1, <2>2, <2>3
<1>9. /\ Newest(gpuRead', gpuContent') = Newest(gpuRead, gpuContent)
      /\ ImagesIn(gpuRead', gpuContent') \subseteq ImagesIn(gpuRead, gpuContent)
  BY <1>4, <1>5, <1>8, OldestCameraGoes
<1>10. /\ gpuEntry'[p] = 0 /\ ~gpuWrite'[p]
       /\ \A r \in RenderRef : r # p =>
            /\ gpuEntry'[r] = gpuEntry[r] /\ gpuWrite'[r] = gpuWrite[r]
            /\ ImageOf(gpuEntry'[r], gpuContent') = ImageOf(gpuEntry[r], gpuContent)
  BY <1>5, RenderKnows DEF GpuReleases, Releasing, Aside
<1>11. RenderPlace'
  <2>1. Len(Tail(held)) <= HeldFrames /\ (stereo => heldDepthFrames # << >>)
    BY <1>1, <1>3, <1>4 DEF HeldFrames
  <2>. QED BY <1>1, <1>2, <1>3, <1>4, <1>10, <2>1 DEF IInv, RenderPlace
<1>12. HeldInOrder'
  <2>1. \A i \in DOMAIN Tail(held) :
          /\ i + 1 \in DOMAIN held
          /\ ImageOf(gpuEntry'[Tail(held)[i]], gpuContent')
               = ImageOf(gpuEntry[held[i + 1]], gpuContent)
    <3>1. SUFFICES ASSUME NEW i \in DOMAIN Tail(held)
                   PROVE  /\ i + 1 \in DOMAIN held
                          /\ ImageOf(gpuEntry'[Tail(held)[i]], gpuContent')
                               = ImageOf(gpuEntry[held[i + 1]], gpuContent)
      OBVIOUS
    <3>2. Tail(held)[i] = held[i + 1] /\ i + 1 \in DOMAIN held /\ i + 1 # 1
      BY <1>4
    <3>3. 1 \in DOMAIN held /\ held[i + 1] # p /\ held[i + 1] \in RenderRef
      BY <1>3, <1>4, <3>2, RenderLists DEF NoRepeats, ToSet
    <3>. QED BY <1>10, <3>2, <3>3
  <2>2. \A i, j \in DOMAIN Tail(held) : i < j =>
          ImageOf(gpuEntry'[Tail(held)[i]], gpuContent')
            <= ImageOf(gpuEntry'[Tail(held)[j]], gpuContent')
    <3>1. \A i, j \in DOMAIN Tail(held) : i < j => i + 1 < j + 1
      BY <1>4
    <3>. QED BY <2>1, <3>1 DEF IInv, HeldInOrder
  <2>3. \A r \in ToSet(Tail(held)) :
          ImageOf(gpuEntry'[r], gpuContent') <= ImageOf(gpuEntry'[ref], gpuContent')
    BY <1>1, <1>3, <1>4, <1>10, RenderLists DEF IInv, HeldInOrder
  <2>. QED BY <1>1, <1>2, <2>2, <2>3 DEF IInv, HeldInOrder
<1>13. RenderedBefore'
  BY <1>1, <1>2, <1>3, <1>4, <1>9, <1>10 DEF IInv, RenderedBefore
<1>14. Projected'
  BY <1>1, <1>2 DEF IInv, Projected, SequenceOf, FrameSequence
<1>. QED
  BY <1>1, <1>2, <1>4, <1>7, <1>9, <1>11, <1>12, <1>13, <1>14
  DEF IInv, PipelineTyped, RenderKept

\* So is the depth frame.
LEMMA EvictDepthFrameStep ==
  ASSUME IInv, EvictDepthFrame
  PROVE  RenderAside(Head(heldDepthFrames)) /\ RenderKept
<1>. DEFINE p == Head(heldDepthFrames)
            held == heldDepthFrames
<1>1. /\ renderPc = "evictDepth" /\ renderPc' = "evict"
      /\ Depth!Destroy(p) /\ heldDepthFrames' = Tail(held)
      /\ UNCHANGED <<gpu, ref, heldCameraFrames, rendered, projected, renderSequence>>
      /\ UNCHANGED beyondRender
  BY DEF EvictDepthFrame, RenderAt
<1>2. /\ UNCHANGED <<gpuRead, gpuEntry, gpuWrite, gpuContent>>
      /\ stereo' = stereo /\ source' = source /\ UNCHANGED cpu
  BY <1>1 DEF gpu, beyondRender, kind
<1>3. /\ held \in Seq(RenderRef) /\ held # << >> /\ NoRepeats(held)
      /\ ref \in RenderRef /\ ref \notin ToSet(held)
      /\ Len(held) <= HeldFrames
      /\ stereo /\ heldCameraFrames = Tail(held)
      /\ \A r \in RenderRef : depthEntry[r] # 0 <=> r \in ToSet(held) \/ r = ref
      /\ \A r \in RenderRef : ~depthWrite[r]
  BY <1>1, RenderLists DEF IInv, RenderPlace
<1>4. /\ p \in RenderRef /\ p \in ToSet(held) /\ p = held[1]
      /\ Tail(held) \in Seq(RenderRef)
      /\ Len(Tail(held)) = Len(held) - 1
      /\ NoRepeats(Tail(held)) /\ ToSet(Tail(held)) = ToSet(held) \ {p}
      /\ \A i \in 1..(Len(held) - 1) : Tail(held)[i] = held[i + 1]
      /\ Len(held) \in Nat /\ DOMAIN held = 1..Len(held)
      /\ DOMAIN Tail(held) = 1..(Len(held) - 1)
  BY <1>3, DropFirst, LenProperties
<1>5. DepthPool' /\ DepthReleases(p)
  BY <1>1, <1>3, <1>4, RenderKnows, DepthOperations DEF Pools, DepthRescinds, Rescinding
<1>6. CpuPool' /\ GpuPool' /\ GpuAside(p)
  BY <1>1, <1>2, Untouched DEF IInv
<1>7. RenderAside(p)
  BY <1>1, <1>5, <1>6 DEF RenderAside, Pools, DepthReleases, Releasing, DepthAside
<1>8. \A r \in RenderRef : r # p /\ depthEntry[r] # 0 =>
        ImageOf(depthEntry[p], depthContent) <= ImageOf(depthEntry[r], depthContent)
  <2>1. SUFFICES ASSUME NEW r \in RenderRef, r # p, depthEntry[r] # 0
                 PROVE  ImageOf(depthEntry[p], depthContent)
                          <= ImageOf(depthEntry[r], depthContent)
    OBVIOUS
  <2>2. CASE r = ref
    BY <1>1, <1>3, <1>4, <2>2 DEF IInv, HeldInOrder
  <2>3. CASE r \in ToSet(held)
    <3>1. PICK i \in DOMAIN held : r = held[i]
      BY <2>3 DEF ToSet
    <3>2. 1 < i /\ 1 \in DOMAIN held
      BY <1>4, <2>1, <3>1
    <3>. QED BY <1>4, <3>1, <3>2 DEF IInv, HeldInOrder
  <2>. QED BY <1>3, <2>1, <2>2, <2>3
<1>9. /\ Newest(depthRead', depthContent') = Newest(depthRead, depthContent)
      /\ ImagesIn(depthRead', depthContent') \subseteq ImagesIn(depthRead, depthContent)
  BY <1>4, <1>5, <1>8, OldestDepthGoes
<1>10. /\ depthEntry'[p] = 0 /\ ~depthWrite'[p]
       /\ \A r \in RenderRef : r # p =>
            /\ depthEntry'[r] = depthEntry[r] /\ depthWrite'[r] = depthWrite[r]
            /\ ImageOf(depthEntry'[r], depthContent') = ImageOf(depthEntry[r], depthContent)
  BY <1>5, RenderKnows DEF DepthReleases, Releasing, Aside
<1>11. RenderPlace'
  <2>1. Len(Tail(held)) <= HeldFrames
    BY <1>3, <1>4 DEF HeldFrames
  <2>. QED BY <1>1, <1>2, <1>3, <1>4, <1>10, <2>1, ZenonT(60) DEF IInv, RenderPlace
<1>12. HeldInOrder'
  <2>1. \A i \in DOMAIN Tail(held) :
          /\ i + 1 \in DOMAIN held
          /\ ImageOf(depthEntry'[Tail(held)[i]], depthContent')
               = ImageOf(depthEntry[held[i + 1]], depthContent)
    <3>1. SUFFICES ASSUME NEW i \in DOMAIN Tail(held)
                   PROVE  /\ i + 1 \in DOMAIN held
                          /\ ImageOf(depthEntry'[Tail(held)[i]], depthContent')
                               = ImageOf(depthEntry[held[i + 1]], depthContent)
      OBVIOUS
    <3>2. Tail(held)[i] = held[i + 1] /\ i + 1 \in DOMAIN held /\ i + 1 # 1
      BY <1>4
    <3>3. 1 \in DOMAIN held /\ held[i + 1] # p /\ held[i + 1] \in RenderRef
      BY <1>3, <1>4, <3>2, RenderLists DEF NoRepeats, ToSet
    <3>. QED BY <1>10, <3>2, <3>3
  <2>2. \A i, j \in DOMAIN Tail(held) : i < j =>
          ImageOf(depthEntry'[Tail(held)[i]], depthContent')
            <= ImageOf(depthEntry'[Tail(held)[j]], depthContent')
    <3>1. \A i, j \in DOMAIN Tail(held) : i < j => i + 1 < j + 1
      BY <1>4
    <3>. QED BY <2>1, <3>1 DEF IInv, HeldInOrder
  <2>3. \A r \in ToSet(Tail(held)) :
          ImageOf(depthEntry'[r], depthContent') <= ImageOf(depthEntry'[ref], depthContent')
    BY <1>1, <1>3, <1>4, <1>10, RenderLists DEF IInv, HeldInOrder
  <2>. QED BY <1>1, <1>2, <2>2, <2>3 DEF IInv, HeldInOrder
<1>13. RenderedBefore'
  BY <1>1, <1>2, <1>3, <1>4, <1>9, <1>10 DEF IInv, RenderedBefore
<1>14. Projected'
  BY <1>1, <1>2 DEF IInv, Projected, SequenceOf, FrameSequence
<1>. QED
  BY <1>1, <1>2, <1>4, <1>7, <1>9, <1>11, <1>12, <1>13, <1>14
  DEF IInv, PipelineTyped, RenderKept

\* Rendering moves the reference into the lists; the images do not go back.
LEMMA RenderPassthroughFrameStep ==
  ASSUME IInv, RenderPassthroughFrame
  PROVE  /\ RenderAside(ref) /\ RenderKept
         /\ rendered.camera <= rendered'.camera /\ rendered.depth <= rendered'.depth
<1>. DEFINE camera == ImageOf(gpuEntry[ref], gpuContent)
            depthOf == ImageOf(depthEntry[ref], depthContent)
<1>1. /\ renderPc = "evict" /\ renderPc' = "idle"
      /\ Len(heldCameraFrames) < HeldFrames
      /\ heldCameraFrames' = Append(heldCameraFrames, ref)
      /\ heldDepthFrames' = IF stereo THEN Append(heldDepthFrames, ref)
                            ELSE heldDepthFrames
      /\ rendered' = [camera |-> camera, depth |-> IF stereo THEN depthOf ELSE NoImage]
      /\ CalculateFrameProjection(camera)
      /\ UNCHANGED <<gpu, depth, ref>>
      /\ UNCHANGED beyondRender
  BY DEF RenderPassthroughFrame, RenderAt
<1>2. /\ UNCHANGED <<gpuRead, gpuEntry, gpuWrite, gpuContent>>
      /\ UNCHANGED <<depthRead, depthEntry, depthWrite, depthContent>>
      /\ stereo' = stereo /\ source' = source /\ UNCHANGED cpu
  BY <1>1 DEF gpu, depth, beyondRender, kind
<1>3. RenderAside(ref)
  BY <1>1, <1>2, Untouched DEF IInv, Pools, RenderAside
<1>4. /\ ref \in RenderRef
      /\ ref \notin ToSet(heldCameraFrames) /\ ref \notin ToSet(heldDepthFrames)
      /\ NoRepeats(heldCameraFrames) /\ NoRepeats(heldDepthFrames)
      /\ stereo => heldDepthFrames = heldCameraFrames
      /\ ~stereo => heldDepthFrames = << >>
      /\ gpuEntry[ref] # 0 /\ (stereo => depthEntry[ref] # 0)
      /\ \A r \in RenderRef : ~gpuWrite[r] /\ ~depthWrite[r]
      /\ \A r \in RenderRef : gpuEntry[r] # 0 <=> r \in ToSet(heldCameraFrames) \/ r = ref
      /\ \A r \in RenderRef : depthEntry[r] # 0 <=>
                                \/ r \in ToSet(heldDepthFrames)
                                \/ r = ref /\ stereo
  BY <1>1, RenderLists DEF IInv, RenderPlace
<1>5. /\ camera \in Image /\ camera <= Newest(gpuRead, gpuContent)
      /\ camera \in CameraPublished
      /\ stereo => depthOf \in Image /\ depthOf <= Newest(depthRead, depthContent)
  BY <1>4, RenderKnows
<1>6. ASSUME NEW s \in Seq(RenderRef), NoRepeats(s), ref \notin ToSet(s),
             Len(s) < HeldFrames
      PROVE  /\ Append(s, ref) \in Seq(RenderRef)
             /\ NoRepeats(Append(s, ref)) /\ Len(Append(s, ref)) <= HeldFrames
             /\ ToSet(Append(s, ref)) = ToSet(s) \cup {ref}
             /\ DOMAIN Append(s, ref) = 1..(Len(s) + 1) /\ DOMAIN s = 1..Len(s)
             /\ Len(s) \in Nat
             /\ \A i \in 1..Len(s) : Append(s, ref)[i] = s[i]
             /\ Append(s, ref)[Len(s) + 1] = ref
  <2>1. Len(s) \in Nat /\ DOMAIN s = 1..Len(s)
    BY LenProperties
  <2>2. /\ Append(s, ref) \in Seq(RenderRef)
        /\ Len(Append(s, ref)) = Len(s) + 1
        /\ \A i \in 1..Len(s) : Append(s, ref)[i] = s[i]
        /\ Append(s, ref)[Len(s) + 1] = ref
        /\ ToSet(Append(s, ref)) = ToSet(s) \cup {ref}
        /\ NoRepeats(Append(s, ref))
    BY <1>4, <1>6, AppendElement
  <2>3. DOMAIN Append(s, ref) = 1..(Len(s) + 1)
    BY <2>2, LenProperties
  <2>. QED BY <1>6, <2>1, <2>2, <2>3 DEF HeldFrames
<1>7. /\ heldCameraFrames' \in Seq(RenderRef) /\ NoRepeats(heldCameraFrames')
      /\ Len(heldCameraFrames') <= HeldFrames
      /\ ToSet(heldCameraFrames') = ToSet(heldCameraFrames) \cup {ref}
  BY <1>1, <1>4, <1>6, RenderLists
<1>8. /\ heldDepthFrames' \in Seq(RenderRef) /\ NoRepeats(heldDepthFrames')
      /\ Len(heldDepthFrames') <= HeldFrames
      /\ ToSet(heldDepthFrames') = IF stereo THEN ToSet(heldDepthFrames) \cup {ref}
                                   ELSE ToSet(heldDepthFrames)
      /\ stereo => heldDepthFrames' = heldCameraFrames'
      /\ ~stereo => heldDepthFrames' = << >>
  <2>1. CASE stereo
    BY <1>1, <1>4, <1>7, <2>1
  <2>2. CASE ~stereo
    BY <1>1, <1>4, <2>2, RenderLists DEF IInv, RenderPlace
  <2>. QED BY <2>1, <2>2
<1>9. RenderPlace'
  BY <1>1, <1>2, <1>4, <1>7, <1>8 DEF IInv, RenderPlace
<1>10. HeldInOrder'
  <2>1. ASSUME NEW i \in DOMAIN heldCameraFrames', NEW j \in DOMAIN heldCameraFrames', i < j
        PROVE  ImageOf(gpuEntry[heldCameraFrames'[i]], gpuContent)
                 <= ImageOf(gpuEntry[heldCameraFrames'[j]], gpuContent)
    <3>. DEFINE s == heldCameraFrames
    <3>1. /\ DOMAIN s = 1..Len(s) /\ Len(s) \in Nat
          /\ DOMAIN heldCameraFrames' = 1..(Len(s) + 1)
          /\ \A k \in 1..Len(s) : heldCameraFrames'[k] = s[k]
          /\ heldCameraFrames'[Len(s) + 1] = ref
      BY <1>1, <1>4, <1>6, RenderLists
    <3>2. i \in DOMAIN s /\ heldCameraFrames'[i] = s[i]
      BY <2>1, <3>1
    <3>3. CASE j \in DOMAIN s
      BY <2>1, <3>1, <3>2, <3>3 DEF IInv, HeldInOrder
    <3>4. CASE j = Len(s) + 1
      <4>1. s[i] \in ToSet(s)
        BY <3>2 DEF ToSet
      <4>. QED BY <1>1, <3>1, <3>2, <3>4, <4>1 DEF IInv, HeldInOrder
    <3>. QED BY <3>1, <3>3, <3>4
  <2>2. ASSUME NEW i \in DOMAIN heldDepthFrames', NEW j \in DOMAIN heldDepthFrames', i < j
        PROVE  ImageOf(depthEntry[heldDepthFrames'[i]], depthContent)
                 <= ImageOf(depthEntry[heldDepthFrames'[j]], depthContent)
    <3>. DEFINE s == heldDepthFrames
    <3>0. stereo /\ s = heldCameraFrames
      BY <1>4, <1>8, <2>2
    <3>1. /\ DOMAIN s = 1..Len(s) /\ Len(s) \in Nat
          /\ DOMAIN heldDepthFrames' = 1..(Len(s) + 1)
          /\ \A k \in 1..Len(s) : heldDepthFrames'[k] = s[k]
          /\ heldDepthFrames'[Len(s) + 1] = ref
      BY <3>0, <1>1, <1>4, <1>6, RenderLists
    <3>2. i \in DOMAIN s /\ heldDepthFrames'[i] = s[i]
      BY <2>2, <3>1
    <3>3. CASE j \in DOMAIN s
      BY <2>2, <3>1, <3>2, <3>3 DEF IInv, HeldInOrder
    <3>4. CASE j = Len(s) + 1
      <4>1. s[i] \in ToSet(s)
        BY <3>2 DEF ToSet
      <4>. QED BY <1>1, <3>0, <3>1, <3>2, <3>4, <4>1 DEF IInv, HeldInOrder
    <3>. QED BY <3>1, <3>3, <3>4
  <2>. QED BY <1>1, <1>2, <2>1, <2>2 DEF HeldInOrder
<1>11. /\ rendered'.camera = camera
       /\ rendered'.depth = IF stereo THEN depthOf ELSE NoImage
       /\ rendered' \in [camera : Image \cup {NoImage}, depth : Image \cup {NoImage}]
  BY <1>1, <1>5
<1>12. /\ rendered.camera <= camera
       /\ rendered.depth <= rendered'.depth
       /\ rendered'.depth <= Newest(depthRead, depthContent)
  <2>1. /\ rendered.camera <= camera
        /\ stereo => rendered.depth <= depthOf
        /\ ~stereo => rendered.depth = NoImage
        /\ rendered.depth <= Newest(depthRead, depthContent)
    BY <1>1 DEF IInv, RenderedBefore
  <2>. QED BY <1>5, <1>11, <2>1, Names
<1>13. RenderedBefore'
  BY <1>1, <1>2, <1>5, <1>11, <1>12 DEF RenderedBefore
<1>14. /\ projected' \in Image \cup {NoImage} /\ renderSequence' \in Image
       /\ Projected'
  <2>1. /\ FrameSequence(camera) \in Image
        /\ camera # NoImage /\ (source = "texture" => camera # 0)
    BY <1>5, SequenceType, Names DEF IInv, CameraImages
  <2>2. /\ renderSequence' = FrameSequence(camera)
        /\ IF FrameSequence(camera) # renderSequence THEN projected' = camera
           ELSE projected' = projected
    BY <1>1 DEF CalculateFrameProjection
  <2>3. projected' \in Image \cup {NoImage}
    BY <1>5, <2>2 DEF IInv, PipelineTyped
  <2>4. renderSequence' = SequenceOf(projected')
    BY <2>1, <2>2 DEF IInv, Projected, SequenceOf
  <2>5. renderSequence' = SequenceOf(rendered'.camera)
    BY <1>11, <2>1, <2>2 DEF SequenceOf
  <2>6. source = "texture" => projected' = rendered'.camera /\ projected' # 0
    <3>1. source = "texture" /\ FrameSequence(camera) = renderSequence => projected = camera
      BY <2>1 DEF IInv, Projected, SequenceOf, FrameSequence
    <3>. QED BY <1>11, <2>1, <2>2, <3>1
  <2>7. \A n : SequenceOf(n)' = SequenceOf(n)
    BY <1>2 DEF SequenceOf, FrameSequence
  <2>. QED BY <1>2, <2>1, <2>2, <2>3, <2>4, <2>5, <2>6, <2>7 DEF Projected
<1>. QED
  BY <1>1, <1>2, <1>3, <1>4, <1>7, <1>8, <1>9, <1>10, <1>11, <1>12, <1>13, <1>14
  DEF RenderKept
-----------------------------------------------------------------------------
(* The invariant is inductive.                                             *)

\* The pipeline as it is set up.
LEMMA InitEstablishes ==
  ASSUME Init
  PROVE  IInv
<1>1. /\ source \in {"texture", "buffer"} /\ stereo \in BOOLEAN
      /\ <<source, stereo>> \in Kinds
  <2>1. PICK k \in Kinds : source = k[1] /\ stereo = k[2]
    BY DEF Init
  <2>2. k \in {"texture", "buffer"} \X BOOLEAN
    BY KindsAssumption
  <2>. QED BY <2>1, <2>2
<1>2. 0 \in Image /\ LastImage \in Nat
  BY LastImageAssumption DEF Image
<1>3. GpuPool /\ gpuRead = << >>
      /\ gpuEntry = [p \in GpuRefs |-> 0] /\ gpuWrite = [p \in GpuRefs |-> FALSE]
  <2>1. GpuFrames \in Nat \ {0} /\ GpuRefs = RenderRef \cup {Server}
    BY DEF GpuFrames, GpuRefs
  <2>2. /\ gpuIdle = [i \in 1..GpuFrames |-> i] /\ gpuRead = << >>
        /\ gpuReaders = [f \in Entries(GpuFrames) |-> 0]
        /\ gpuEntry = [p \in GpuRefs |-> 0] /\ gpuWrite = [p \in GpuRefs |-> FALSE]
        /\ gpuContent = [f \in Entries(GpuFrames) |-> 0]
    BY <2>1 DEF Init, Gpu!Init, Gpu!Frame, Gpu!NoFrame, Entries
  <2>3. QueueInv(GpuFrames, GpuRefs, gpuIdle, gpuRead, gpuReaders, gpuEntry, gpuWrite)
    BY <2>1, <2>2, FreshInv
  <2>. QED BY <1>2, <2>2, <2>3 DEF GpuPool, Pool
<1>4. CpuPool /\ cpuRead = << >>
      /\ cpuEntry = [p \in CpuRefs |-> 0] /\ cpuWrite = [p \in CpuRefs |-> FALSE]
  <2>1. CpuFrames \in Nat \ {0} /\ CpuRefs = {Server, DepthThread}
    BY DEF CpuFrames, CpuRefs
  <2>2. /\ cpuIdle = [i \in 1..CpuFrames |-> i] /\ cpuRead = << >>
        /\ cpuReaders = [f \in Entries(CpuFrames) |-> 0]
        /\ cpuEntry = [p \in CpuRefs |-> 0] /\ cpuWrite = [p \in CpuRefs |-> FALSE]
        /\ cpuContent = [f \in Entries(CpuFrames) |-> 0]
    BY <2>1 DEF Init, Cpu!Init, Cpu!Frame, Cpu!NoFrame, Entries
  <2>3. QueueInv(CpuFrames, CpuRefs, cpuIdle, cpuRead, cpuReaders, cpuEntry, cpuWrite)
    BY <2>1, <2>2, FreshInv
  <2>. QED BY <1>2, <2>2, <2>3 DEF CpuPool, Pool
<1>5. DepthPool /\ depthRead = << >>
      /\ depthEntry = [p \in DepthRefs |-> 0]
      /\ depthWrite = [p \in DepthRefs |-> FALSE]
  <2>1. DepthFrames \in Nat \ {0} /\ DepthRefs = RenderRef \cup {DepthThread}
    BY DEF DepthFrames, DepthRefs
  <2>2. /\ depthIdle = [i \in 1..DepthFrames |-> i] /\ depthRead = << >>
        /\ depthReaders = [f \in Entries(DepthFrames) |-> 0]
        /\ depthEntry = [p \in DepthRefs |-> 0]
        /\ depthWrite = [p \in DepthRefs |-> FALSE]
        /\ depthContent = [f \in Entries(DepthFrames) |-> 0]
    BY <2>1 DEF Init, Depth!Init, Depth!Frame, Depth!NoFrame, Entries
  <2>3. QueueInv(DepthFrames, DepthRefs, depthIdle, depthRead, depthReaders,
                 depthEntry, depthWrite)
    BY <2>1, <2>2, FreshInv
  <2>. QED BY <1>2, <2>2, <2>3 DEF DepthPool, Pool
<1>6. /\ servePc = "poll" /\ depthPc = "acquire" /\ renderPc = "idle"
      /\ image = (IF source = "texture" THEN 0 ELSE NoImage)
      /\ served = 0 /\ waiting = TRUE /\ gotCpuFrame = FALSE
      /\ depthSequence \in 0..(LastImage + 1) /\ depthImage = NoImage
      /\ ref \in RenderRef
      /\ heldCameraFrames = << >> /\ heldDepthFrames = << >>
      /\ rendered = [camera |-> NoImage, depth |-> NoImage]
      /\ projected = NoImage /\ renderSequence = 0
  <2>1. ref \in RenderRef
    BY Names DEF Init
  <2>. QED BY <2>1 DEF Init
<1>7. /\ ToSet(heldCameraFrames) = {} /\ ToSet(heldDepthFrames) = {}
      /\ DOMAIN heldCameraFrames = {} /\ DOMAIN heldDepthFrames = {}
      /\ Len(heldCameraFrames) = 0 /\ Len(heldDepthFrames) = 0
      /\ heldCameraFrames \in Seq(RenderRef) /\ heldDepthFrames \in Seq(RenderRef)
  BY <1>6 DEF ToSet
<1>8. /\ rendered.camera = NoImage /\ rendered.depth = NoImage
      /\ rendered \in [camera : Image \cup {NoImage}, depth : Image \cup {NoImage}]
  BY <1>6
<1>9. /\ Newest(gpuRead, gpuContent) = NoImage /\ CameraPublished = {}
      /\ Newest(cpuRead, cpuContent) = NoImage /\ CpuPublished = {}
      /\ Newest(depthRead, depthContent) = NoImage /\ DepthPublished = {}
  BY <1>3, <1>4, <1>5 DEF Newest, ImagesIn, ToSet
<1>10. PipelineTyped
  BY <1>1, <1>2, <1>6, <1>7, <1>8 DEF PipelineTyped
<1>11. ServePlace
  BY <1>3, <1>4, <1>6, Names DEF ServePlace
<1>12. DepthPlace
  BY <1>4, <1>5, <1>6, Names DEF DepthPlace
<1>13. RenderPlace
  <2>1. \A r \in RenderRef : gpuEntry[r] = 0 /\ ~gpuWrite[r]
                             /\ depthEntry[r] = 0 /\ ~depthWrite[r]
    BY <1>3, <1>5, Names
  <2>. QED BY <2>1, <1>6, <1>7, Names DEF RenderPlace, NoRepeats
<1>14. CameraImages /\ CpuImages /\ DepthImages
  <2>1. NoImage \in Int /\ NoImage <= 0 /\ NoImage # 0
    BY Names
  <2>. QED BY <2>1, <1>6, <1>9 DEF CameraImages, CpuImages, DepthImages
<1>15. HeldInOrder
  BY <1>6, <1>7 DEF HeldInOrder
<1>16. RenderedBefore /\ Projected
  BY <1>6, <1>8, <1>9, Names DEF RenderedBefore, Projected, SequenceOf
<1>. QED
  BY <1>3, <1>4, <1>5, <1>10, <1>11, <1>12, <1>13, <1>14, <1>15, <1>16
  DEF IInv, Pools

\* Whose step it is.
LEMMA StepCases ==
  ASSUME IInv, [Next]_vars
  PROVE  \/ /\ NoFrameAvailable \/ PollFrame
         \/ ServeGpu
         \/ ServeCpu
         \/ \/ AcquireForDepth \/ SkipFrame \/ DecodeInputFails \/ Reconstruct
            \/ ReleaseFromDepth
         \/ AcquireDepthFrame \/ BeginRenderFails \/ RenderDepth \/ CommitDepth
         \/ AcquireCameraFrame
         \/ AcquireDepth
         \/ EvictCameraFrame
         \/ EvictDepthFrame
         \/ RenderPassthroughFrame
         \/ UNCHANGED vars
BY DEF Next, ServeTexture, ServeBuffer, RunThread, Render, ServeGpu, ServeCpu

\* No step breaks it.
LEMMA StepPreserves ==
  ASSUME IInv, [Next]_vars
  PROVE  IInv'
<1>1. CASE NoFrameAvailable \/ PollFrame
  BY <1>1, ServePolls, ServeConclude
<1>2. CASE ServeGpu
  BY <1>2, ServeGpuSteps, ServeConclude
<1>3. CASE ServeCpu
  BY <1>3, ServeCpuSteps, ServeConclude
<1>4. CASE \/ AcquireForDepth \/ SkipFrame \/ DecodeInputFails \/ Reconstruct
           \/ ReleaseFromDepth
  BY <1>4, DepthCpuSteps, DepthConclude
<1>5. CASE AcquireDepthFrame \/ BeginRenderFails \/ RenderDepth \/ CommitDepth
  BY <1>5, DepthQueueSteps, DepthConclude
<1>6. CASE AcquireCameraFrame
  BY <1>6, AcquireCameraFrameStep, RenderConclude
<1>7. CASE AcquireDepth
  <2>1. ref \in RenderRef
    BY RenderLists
  <2>. QED BY <1>7, <2>1, AcquireDepthStep, RenderConclude
<1>8. CASE EvictCameraFrame
  <2>1. Head(heldCameraFrames) \in RenderRef
    BY <1>8, RenderLists, HeadTailProperties, EmptySeq
    DEF EvictCameraFrame, HeldFrames
  <2>. QED BY <1>8, <2>1, EvictCameraFrameStep, RenderConclude
<1>9. CASE EvictDepthFrame
  <2>1. heldDepthFrames # << >>
    BY <1>9 DEF EvictDepthFrame, RenderAt, IInv, RenderPlace
  <2>2. Head(heldDepthFrames) \in RenderRef
    BY <2>1, RenderLists, HeadTailProperties
  <2>. QED BY <1>9, <2>2, EvictDepthFrameStep, RenderConclude
<1>10. CASE RenderPassthroughFrame
  <2>1. ref \in RenderRef
    BY RenderLists
  <2>. QED BY <1>10, <2>1, RenderPassthroughFrameStep, RenderConclude
<1>11. CASE UNCHANGED vars
  <2>1. /\ UNCHANGED gpu /\ UNCHANGED cpu /\ UNCHANGED depth /\ UNCHANGED kind
        /\ UNCHANGED serveVars /\ UNCHANGED depthVars /\ UNCHANGED renderVars
    BY <1>11 DEF vars
  <2>2. Pools'
    BY <2>1 DEF IInv, Pools, GpuPool, CpuPool, DepthPool, gpu, cpu, depth
  <2>3. PipelineTyped' /\ ServePlace' /\ DepthPlace' /\ RenderPlace'
    BY <2>1
    DEF IInv, PipelineTyped, ServePlace, DepthPlace, RenderPlace, gpu, cpu, depth,
        kind, serveVars, depthVars, renderVars
  <2>4. CameraImages' /\ CpuImages' /\ DepthImages'
    BY <2>1
    DEF IInv, CameraImages, CpuImages, DepthImages, gpu, cpu, depth,
        kind, serveVars, depthVars, renderVars
  <2>5. HeldInOrder' /\ RenderedBefore' /\ Projected'
    BY <2>1
    DEF IInv, HeldInOrder, RenderedBefore, Projected, SequenceOf, FrameSequence,
        gpu, depth, kind, renderVars
  <2>. QED BY <2>2, <2>3, <2>4, <2>5 DEF IInv
<1>. QED
  BY StepCases, <1>1, <1>2, <1>3, <1>4, <1>5, <1>6, <1>7, <1>8, <1>9, <1>10, <1>11

\* Where the threads are, what they hold and which images that stands for: the
\* inductive invariant holds in every state of the pipeline.
THEOREM PipelineInvariance == Spec => []IInv
<1>1. Init => IInv
  BY InitEstablishes
<1>2. IInv /\ [Next]_vars => IInv'
  BY StepPreserves
<1>. QED
  BY <1>1, <1>2, PTL DEF Spec

-----------------------------------------------------------------------------
(* The safety properties.                                                  *)

\* Every variable has its type in every state, the vectors and counters of the
\* three queues included.
THEOREM PipelineTypeCorrect == Spec => []TypeOK
<1>1. IInv => TypeOK
  <2>. SUFFICES ASSUME IInv PROVE TypeOK
    OBVIOUS
  <2>1. PipelineTyped /\ GpuPool /\ CpuPool /\ DepthPool
    BY DEF IInv, Pools
  <2>2. Gpu!TypeOK
    BY <2>1
    DEF GpuPool, Pool, QueueInv, Typed, Gpu!TypeOK, Gpu!Frame, Gpu!NoFrame, Entries,
        GpuRefs
  <2>3. Cpu!TypeOK
    BY <2>1
    DEF CpuPool, Pool, QueueInv, Typed, Cpu!TypeOK, Cpu!Frame, Cpu!NoFrame, Entries,
        CpuRefs
  <2>4. Depth!TypeOK
    BY <2>1
    DEF DepthPool, Pool, QueueInv, Typed, Depth!TypeOK, Depth!Frame, Depth!NoFrame,
        Entries, DepthRefs
  <2>5. ASSUME NEW s \in Seq(RenderRef), Len(s) <= HeldFrames
        PROVE  s \in SeqOf(RenderRef, HeldFrames)
    <3>1. Len(s) \in Nat /\ s \in [1..Len(s) -> RenderRef]
      BY LenProperties
    <3>2. Len(s) \in 0..HeldFrames
      BY <2>5, <3>1 DEF HeldFrames
    <3>. QED BY <3>1, <3>2 DEF SeqOf
  <2>6. /\ heldCameraFrames \in SeqOf(RenderRef, HeldFrames)
        /\ heldDepthFrames \in SeqOf(RenderRef, HeldFrames)
    BY <2>1, <2>5 DEF IInv, RenderPlace, PipelineTyped
  <2>. QED BY <2>1, <2>2, <2>3, <2>4, <2>6 DEF TypeOK, PipelineTyped, kind
<1>. QED
  BY <1>1, PipelineInvariance, PTL

\* A frame that is neither idle nor the newest published has a reference.
LEMMA FramesInUse ==
  ASSUME Pools
  PROVE  /\ cpuIdle = << >> =>
              \A f \in 1..3 : f # Last(cpuRead) => \E p \in CpuRefs : cpuEntry[p] = f
         /\ gpuIdle = << >> =>
              \A f \in 1..4 : f # Last(gpuRead) => \E p \in GpuRefs : gpuEntry[p] = f
         /\ depthIdle = << >> =>
              \A f \in 1..4 :
                f # Last(depthRead) => \E p \in DepthRefs : depthEntry[p] = f
<1>1. /\ QueueInv(GpuFrames, GpuRefs, gpuIdle, gpuRead, gpuReaders, gpuEntry, gpuWrite)
      /\ GpuFrames \in Nat \ {0} /\ Entries(GpuFrames) = 1..4
  BY DEF Pools, GpuPool, Pool, GpuFrames, Entries
<1>2. /\ QueueInv(CpuFrames, CpuRefs, cpuIdle, cpuRead, cpuReaders, cpuEntry, cpuWrite)
      /\ CpuFrames \in Nat \ {0} /\ Entries(CpuFrames) = 1..3
  BY DEF Pools, CpuPool, Pool, CpuFrames, Entries
<1>3. /\ QueueInv(DepthFrames, DepthRefs, depthIdle, depthRead, depthReaders,
                  depthEntry, depthWrite)
      /\ DepthFrames \in Nat \ {0} /\ Entries(DepthFrames) = 1..4
  BY DEF Pools, DepthPool, Pool, DepthFrames, Entries
<1>4. /\ IsFiniteSet(GpuRefs) /\ IsFiniteSet(CpuRefs) /\ IsFiniteSet(DepthRefs)
  BY RefsFinite
<1>5. ASSUME cpuIdle = << >>, NEW f \in 1..3, f # Last(cpuRead)
      PROVE  \E p \in CpuRefs : cpuEntry[p] = f
  <2>1. f \in Entries(CpuFrames)
    BY <1>2
  <2>. QED BY <1>2, <1>4, <1>5, <2>1, NoneIdle
<1>6. ASSUME gpuIdle = << >>, NEW f \in 1..4, f # Last(gpuRead)
      PROVE  \E p \in GpuRefs : gpuEntry[p] = f
  <2>1. f \in Entries(GpuFrames)
    BY <1>1
  <2>. QED BY <1>1, <1>4, <1>6, <2>1, NoneIdle
<1>7. ASSUME depthIdle = << >>, NEW f \in 1..4, f # Last(depthRead)
      PROVE  \E p \in DepthRefs : depthEntry[p] = f
  <2>1. f \in Entries(DepthFrames)
    BY <1>3
  <2>. QED BY <1>3, <1>4, <1>7, <2>1, NoneIdle
<1>. QED
  BY <1>5, <1>6, <1>7

\* A render thread that holds no more frames than it keeps holds two.
LEMMA AtMostTwoHeld ==
  ASSUME NEW held \in Seq(RenderRef), Len(held) <= HeldFrames
  PROVE  \A r \in ToSet(held) : r = held[1] \/ r = held[2]
BY LenProperties DEF ToSet, HeldFrames

\* The queues are large enough: the CPU queue always has a frame for the image
\* whose texture is taken, and the GPU and depth queues one for their writer
\* as long as the render thread is between two renders.
THEOREM PipelineQueuesSuffice == Spec => []QueuesSuffice
<1>1. IInv => QueuesSuffice
  <2>. SUFFICES ASSUME IInv PROVE QueuesSuffice
    OBVIOUS
  <2>1. Pools /\ ServePlace /\ DepthPlace /\ RenderPlace /\ PipelineTyped
    BY DEF IInv
  <2>2. ASSUME servePc = "pose", cpuIdle = << >> PROVE FALSE
    <3>1. cpuEntry[Server] = 0
      BY <2>1, <2>2 DEF ServePlace
    <3>2. \A f \in 1..3 : f = Last(cpuRead) \/ f = cpuEntry[DepthThread]
      BY <2>1, <2>2, <3>1, FramesInUse, Names
    <3>. QED BY <3>2
  <2>3. ASSUME servePc \in {"acquire", "upload"}, gpuIdle = << >>, renderPc = "idle"
        PROVE  FALSE
    <3>1. gpuEntry[Server] = 0
      BY <2>1, <2>3 DEF ServePlace
    <3>2. \A r \in RenderRef : gpuEntry[r] # 0 <=> r \in ToSet(heldCameraFrames)
      BY <2>1, <2>3 DEF RenderPlace
    <3>3. PICK f \in 1..4 : f # Last(gpuRead)
                            /\ \A r \in ToSet(heldCameraFrames) : gpuEntry[r] # f
      <4>1. heldCameraFrames \in Seq(RenderRef) /\ Len(heldCameraFrames) <= HeldFrames
        BY <2>1 DEF RenderPlace, PipelineTyped
      <4>2. \A r \in ToSet(heldCameraFrames) :
              r = heldCameraFrames[1] \/ r = heldCameraFrames[2]
        BY <4>1, AtMostTwoHeld
      <4>3. \E f \in 1..4 :
              /\ f # Last(gpuRead)
              /\ f # gpuEntry[heldCameraFrames[1]]
              /\ f # gpuEntry[heldCameraFrames[2]]
        OBVIOUS
      <4>. QED BY <4>2, <4>3
    <3>4. PICK p \in GpuRefs : gpuEntry[p] = f
      BY <2>1, <2>3, <3>3, FramesInUse
    <3>5. f # 0 /\ p \in RenderRef
      BY <3>1, <3>4, Names
    <3>. QED BY <3>2, <3>3, <3>4, <3>5
  <2>4. ASSUME depthPc = "output", depthIdle = << >>, renderPc = "idle"
        PROVE  FALSE
    <3>1. depthEntry[DepthThread] = 0
      BY <2>1, <2>4 DEF DepthPlace
    <3>2. \A r \in RenderRef : depthEntry[r] # 0 <=> r \in ToSet(heldDepthFrames)
      BY <2>1, <2>4 DEF RenderPlace
    <3>3. PICK f \in 1..4 : f # Last(depthRead)
                            /\ \A r \in ToSet(heldDepthFrames) : depthEntry[r] # f
      <4>1. heldDepthFrames \in Seq(RenderRef) /\ Len(heldDepthFrames) <= HeldFrames
        BY <2>1 DEF RenderPlace, PipelineTyped
      <4>2. \A r \in ToSet(heldDepthFrames) :
              r = heldDepthFrames[1] \/ r = heldDepthFrames[2]
        BY <4>1, AtMostTwoHeld
      <4>3. \E f \in 1..4 :
              /\ f # Last(depthRead)
              /\ f # depthEntry[heldDepthFrames[1]]
              /\ f # depthEntry[heldDepthFrames[2]]
        OBVIOUS
      <4>. QED BY <4>2, <4>3
    <3>4. PICK p \in DepthRefs : depthEntry[p] = f
      BY <2>1, <2>4, <3>3, FramesInUse
    <3>5. f # 0 /\ p \in RenderRef
      BY <3>1, <3>4, Names
    <3>. QED BY <3>2, <3>3, <3>4, <3>5
  <2>. QED BY <2>2, <2>3, <2>4 DEF QueuesSuffice
<1>. QED
  BY <1>1, PipelineInvariance, PTL

\* Between two renders the render thread has exactly the references of its two
\* lists, which are in step.
THEOREM PipelineRenderLeaksNothing == Spec => []RenderLeaksNothing
<1>1. IInv => RenderLeaksNothing
  <2>. SUFFICES ASSUME IInv, renderPc = "idle"
                PROVE  /\ {r \in RenderRef : gpuEntry[r] # Gpu!NoFrame}
                            = ToSet(heldCameraFrames)
                       /\ {r \in RenderRef : depthEntry[r] # Depth!NoFrame}
                            = ToSet(heldDepthFrames)
                       /\ stereo => heldCameraFrames = heldDepthFrames
    BY DEF RenderLeaksNothing
  <2>1. /\ \A r \in RenderRef :
             /\ gpuEntry[r] # 0 <=> r \in ToSet(heldCameraFrames)
             /\ depthEntry[r] # 0 <=> r \in ToSet(heldDepthFrames)
        /\ stereo => heldDepthFrames = heldCameraFrames
    BY DEF IInv, RenderPlace
  <2>. QED BY <2>1, RenderLists DEF Gpu!NoFrame, Depth!NoFrame
<1>. QED
  BY <1>1, PipelineInvariance, PTL

\* With OpenVR no depth frame is published for an image whose camera frame is
\* not: depth frames follow the image last taken on, which follows the CPU
\* queue, which follows the GPU queue.
THEOREM PipelineDepthHasItsCameraFrame == Spec => []DepthHasItsCameraFrame
<1>1. IInv => DepthHasItsCameraFrame
  <2>. SUFFICES ASSUME IInv, source = "texture"
                PROVE  Newest(depthRead, depthContent) <= Newest(gpuRead, gpuContent)
    BY DEF DepthHasItsCameraFrame
  <2>1. /\ Newest(depthRead, depthContent) <= depthImage
        /\ depthImage <= Newest(cpuRead, cpuContent)
        /\ Newest(cpuRead, cpuContent) <= Newest(gpuRead, gpuContent)
    BY DEF IInv, DepthImages, CpuImages
  <2>2. /\ Newest(depthRead, depthContent) \in Int
        /\ Newest(cpuRead, cpuContent) \in Int
        /\ Newest(gpuRead, gpuContent) \in Int
        /\ depthImage \in Int
    BY ServeKnows, DepthKnows, Names
  <2>. QED BY <2>1, <2>2
<1>. QED
  BY <1>1, PipelineInvariance, PTL

\* A frame is rendered with the projection computed for its image, or from a
\* buffer for one of the same number.
THEOREM PipelineProjectionIsOfFrame == Spec => []ProjectionIsOfFrame
<1>1. IInv => ProjectionIsOfFrame
  BY DEF IInv, Projected, ProjectionIsOfFrame, PipelineTyped
<1>. QED
  BY <1>1, PipelineInvariance, PTL

-----------------------------------------------------------------------------
(* The action properties.                                                  *)

\* What a reference the render thread keeps stands for, through any step.
HeldKept ==
  /\ \A r \in ToSet(heldCameraFrames) :
       r \in ToSet(heldCameraFrames') =>
         ImageOf(gpuEntry'[r], gpuContent') = ImageOf(gpuEntry[r], gpuContent)
  /\ \A r \in ToSet(heldDepthFrames) :
       r \in ToSet(heldDepthFrames') =>
         ImageOf(depthEntry'[r], depthContent') = ImageOf(depthEntry[r], depthContent)

\* An operation of a reference that is not held, or not any more, is harmless.
LEMMA KeptBesideOne ==
  ASSUME IInv, NEW p, NEW q, GpuAside(p), DepthAside(q),
         p \in ToSet(heldCameraFrames) => p \notin ToSet(heldCameraFrames'),
         q \in ToSet(heldDepthFrames) => q \notin ToSet(heldDepthFrames')
  PROVE  HeldKept
<1>1. /\ ToSet(heldCameraFrames) \subseteq GpuRefs
      /\ ToSet(heldDepthFrames) \subseteq DepthRefs
  BY RenderLists, Names
<1>. QED
  BY <1>1 DEF HeldKept, GpuAside, DepthAside, Aside

\* That is all that any step does.
LEMMA HeldThroughStep ==
  ASSUME IInv, [Next]_vars
  PROVE  HeldKept
<1>1. Server \notin ToSet(heldCameraFrames) /\ DepthThread \notin ToSet(heldDepthFrames)
      /\ Server \notin ToSet(heldDepthFrames)
  BY RenderLists, Names
<1>2. CASE ServeAside
  <2>1. GpuAside(Server) /\ UNCHANGED depth
    BY <1>2 DEF ServeAside, beyondServe
  <2>2. DepthAside(DepthThread)
    BY <2>1, Untouched DEF IInv
  <2>. QED BY <1>1, <2>1, <2>2, KeptBesideOne
<1>3. CASE DepthStepAside
  <2>1. DepthAside(DepthThread) /\ UNCHANGED gpu
    BY <1>3 DEF DepthStepAside, beyondDepth
  <2>2. GpuAside(Server)
    BY <2>1, Untouched DEF IInv
  <2>. QED BY <1>1, <2>1, <2>2, KeptBesideOne
<1>4. CASE AcquireCameraFrame
  BY <1>4, AcquireCameraFrameStep, KeptBesideOne DEF RenderAside
<1>5. CASE AcquireDepth
  <2>1. ref \notin ToSet(heldCameraFrames) /\ ref \notin ToSet(heldDepthFrames)
    BY <1>5 DEF IInv, RenderPlace, AcquireDepth, RenderAt
  <2>. QED BY <1>5, <2>1, AcquireDepthStep, KeptBesideOne DEF RenderAside
<1>6. CASE RenderPassthroughFrame
  <2>1. ref \notin ToSet(heldCameraFrames) /\ ref \notin ToSet(heldDepthFrames)
    BY <1>6 DEF IInv, RenderPlace, RenderPassthroughFrame, RenderAt
  <2>. QED BY <1>6, <2>1, RenderPassthroughFrameStep, KeptBesideOne DEF RenderAside
<1>7. CASE EvictCameraFrame
  <2>1. /\ UNCHANGED depth /\ heldCameraFrames' = Tail(heldCameraFrames)
        /\ heldCameraFrames # << >> /\ NoRepeats(heldCameraFrames)
        /\ heldCameraFrames \in Seq(RenderRef)
    BY <1>7, RenderLists, EmptySeq DEF EvictCameraFrame, HeldFrames, IInv, RenderPlace
  <2>2. Head(heldCameraFrames) \notin ToSet(heldCameraFrames')
    BY <2>1, DropFirst
  <2>3. DepthAside(DepthThread)
    BY <2>1, Untouched DEF IInv
  <2>. QED
    BY <1>1, <1>7, <2>2, <2>3, EvictCameraFrameStep, KeptBesideOne DEF RenderAside
<1>8. CASE EvictDepthFrame
  <2>1. /\ UNCHANGED gpu /\ heldDepthFrames' = Tail(heldDepthFrames)
        /\ heldDepthFrames # << >> /\ NoRepeats(heldDepthFrames)
        /\ heldDepthFrames \in Seq(RenderRef)
    BY <1>8, RenderLists DEF EvictDepthFrame, RenderAt, IInv, RenderPlace
  <2>2. Head(heldDepthFrames) \notin ToSet(heldDepthFrames')
    BY <2>1, DropFirst
  <2>3. GpuAside(Server)
    BY <2>1, Untouched DEF IInv
  <2>. QED
    BY <1>1, <1>8, <2>2, <2>3, EvictDepthFrameStep, KeptBesideOne DEF RenderAside
<1>9. CASE UNCHANGED vars
  BY <1>9 DEF vars, HeldKept, gpu, depth
<1>. QED
  BY StepCases, ServePolls, ServeGpuSteps, ServeCpuSteps, DepthCpuSteps,
     DepthQueueSteps, <1>2, <1>3, <1>4, <1>5, <1>6, <1>7, <1>8, <1>9

\* Nothing writes a camera or depth frame while the last two renders may still
\* be reading it.
THEOREM PipelineHeldFramesStable == Spec => HeldFramesStable
<1>1. IInv /\ [Next]_vars =>
        [/\ \A r \in ToSet(heldCameraFrames) :
              r \in ToSet(heldCameraFrames') => GpuImage(r)' = GpuImage(r)
         /\ \A r \in ToSet(heldDepthFrames) :
              r \in ToSet(heldDepthFrames') => DepthImage(r)' = DepthImage(r)]_vars
  BY HeldThroughStep DEF HeldKept
<1>. QED
  BY <1>1, PipelineInvariance, PTL DEF Spec, HeldFramesStable

\* The picture never jumps back: whatever is acquired is at least as new as
\* what was rendered, because what is published never gets older.
THEOREM PipelineNeverRendersOlder == Spec => NeverRendersOlder
<1>1. ASSUME IInv, [Next]_vars
      PROVE  /\ rendered.camera <= rendered'.camera
             /\ rendered.depth <= rendered'.depth
  <2>1. rendered.camera \in Int /\ rendered.depth \in Int
    BY <1>1, Names DEF IInv, PipelineTyped
  <2>2. CASE RenderPassthroughFrame
    BY <1>1, <2>2, RenderPassthroughFrameStep
  <2>3. CASE rendered' = rendered
    BY <2>1, <2>3
  <2>4. CASE ServeAside
    BY <2>3, <2>4 DEF ServeAside, beyondServe, renderVars
  <2>5. CASE DepthStepAside
    BY <2>3, <2>5 DEF DepthStepAside, beyondDepth, renderVars
  <2>6. CASE AcquireCameraFrame \/ AcquireDepth \/ EvictCameraFrame \/ EvictDepthFrame
    BY <2>3, <2>6
    DEF AcquireCameraFrame, AcquireDepth, EvictCameraFrame, EvictDepthFrame, renderLocals
  <2>7. CASE UNCHANGED vars
    BY <2>3, <2>7 DEF vars, renderVars
  <2>. QED
    BY <1>1, StepCases, ServePolls, ServeGpuSteps, ServeCpuSteps, DepthCpuSteps,
       DepthQueueSteps, <2>2, <2>4, <2>5, <2>6, <2>7
<1>2. ASSUME IInv
      PROVE  rendered.camera \in Int /\ rendered.depth \in Int
  BY <1>2, Names DEF IInv, PipelineTyped
<1>3. ASSUME IInv, IInv', [Next]_vars
      PROVE  /\ rendered'.camera >= rendered.camera
             /\ rendered'.depth >= rendered.depth
  <2>1. rendered'.camera \in Int /\ rendered'.depth \in Int
    BY <1>3, Names DEF IInv, PipelineTyped
  <2>. QED BY <1>1, <1>2, <1>3, <2>1
<1>4. IInv /\ IInv' /\ [Next]_vars =>
        [/\ rendered'.camera >= rendered.camera
         /\ rendered'.depth >= rendered.depth]_vars
  BY <1>3
<1>. QED
  BY <1>4, PipelineInvariance, PTL DEF Spec, NeverRendersOlder

\* The newest CPU frame is replaced by an older one only by the serve thread's
\* own release, and then the depth thread reads that older one.
THEOREM PipelineFallsBackOnlyToWork == Spec => FallsBackOnlyToWork
<1>1. ASSUME IInv, [Next]_vars
      PROVE  FallsBack
  <2>1. Newest(cpuRead, cpuContent) \in Int
    BY <1>1, ServeKnows, Names
  <2>2. CASE Newest(cpuRead', cpuContent') = Newest(cpuRead, cpuContent)
    BY <2>1, <2>2 DEF FallsBack
  <2>3. CASE ServeCpu
    BY <1>1, <2>3, ServeCpuSteps
  <2>4. CASE UNCHANGED cpu
    BY <2>2, <2>4 DEF cpu
  <2>5. CASE NoFrameAvailable \/ PollFrame \/ ServeGpu
    BY <2>4, <2>5
    DEF NoFrameAvailable, PollFrame, ServeGpu, AcquireTexture, TextureFails, FillTexture,
        PoseFails, CommitTextureOnly, CommitTexture, AcquireUpload, DecodeBuffer,
        DecodeFails, CommitUpload, AcquireCpuFrame
  <2>6. CASE DepthKept
    BY <2>2, <2>6 DEF DepthKept
  <2>7. CASE \/ AcquireCameraFrame \/ AcquireDepth \/ EvictCameraFrame
             \/ EvictDepthFrame \/ RenderPassthroughFrame
    BY <2>4, <2>7
    DEF AcquireCameraFrame, AcquireDepth, EvictCameraFrame, EvictDepthFrame,
        RenderPassthroughFrame, beyondRender
  <2>8. CASE UNCHANGED vars
    BY <2>4, <2>8 DEF vars
  <2>. QED
    BY <1>1, StepCases, DepthCpuSteps, DepthQueueSteps, <2>3, <2>5, <2>6, <2>7, <2>8
<1>2. IInv /\ [Next]_vars =>
        [NewestCpu' < NewestCpu =>
           cpuRead' # << >> /\ cpuEntry[DepthThread] = Last(cpuRead')]_vars
  BY <1>1 DEF FallsBack
<1>. QED
  BY <1>2, PipelineInvariance, PTL DEF Spec, FallsBackOnlyToWork

-----------------------------------------------------------------------------
(* The queues are used as queues.                                          *)

\* What a thread does to the GPU queue is one operation of the queue, with a
\* reference of that thread.
LEMMA StepOnGpuQueue ==
  ASSUME IInv, [Next]_vars
  PROVE  [Gpu!Next]_Gpu!vars
<1>. SUFFICES ASSUME ~UNCHANGED gpu
              PROVE  Gpu!Next
  BY Zenon DEF gpu, Gpu!vars
<1>1. Server \in GpuRefs /\ \A r \in RenderRef : r \in GpuRefs
  BY Zenon DEF GpuRefs
<1>2. ASSUME NEW p \in GpuRefs,
             \/ Gpu!AcquireRead(p) \/ Gpu!AcquireWrite(p) \/ Gpu!WriteFrame(p)
             \/ Gpu!CommitWrite(p) \/ Gpu!Destroy(p)
      PROVE  Gpu!Next
  BY <1>2, Zenon DEF Gpu!Next, GpuRefs
<1>3. CASE ServeGpu
  <2>1. \/ Gpu!AcquireWrite(Server) \/ Gpu!WriteFrame(Server)
        \/ Gpu!CommitWrite(Server) \/ Gpu!Destroy(Server)
    BY <1>3, Zenon
    DEF ServeGpu, AcquireTexture, TextureFails, FillTexture, PoseFails,
        CommitTextureOnly, CommitTexture, AcquireUpload, DecodeBuffer, DecodeFails,
        CommitUpload, AcquireCpuFrame
  <2>. QED BY <1>1, <1>2, <2>1, Zenon
<1>4. CASE AcquireCameraFrame
  <2>1. Gpu!AcquireRead(ref') /\ ref' \in RenderRef
    BY <1>4, AcquireCameraFrameStep, Zenon DEF AcquireCameraFrame
  <2>. QED BY <1>1, <1>2, <2>1, Zenon
<1>5. CASE AcquireDepth
  <2>1. Gpu!Destroy(ref) /\ ref \in RenderRef
    BY <1>5, RenderLists, Zenon DEF AcquireDepth
  <2>. QED BY <1>1, <1>2, <2>1, Zenon
<1>6. CASE EvictCameraFrame
  <2>1. Gpu!Destroy(Head(heldCameraFrames))
    BY <1>6, Zenon DEF EvictCameraFrame
  <2>2. Head(heldCameraFrames) \in RenderRef
    BY <1>6, RenderLists, HeadTailProperties, EmptySeq
    DEF EvictCameraFrame, HeldFrames
  <2>. QED BY <1>1, <1>2, <2>1, <2>2, Zenon
<1>7. CASE NoFrameAvailable \/ PollFrame \/ ServeCpu
  BY <1>7, Zenon
  DEF NoFrameAvailable, PollFrame, ServeCpu, AcquireCpuFrame, DownloadFrame,
      CommitCpuFrame, AcquireBuffer, ReadBufferFails, ReadBuffer, PublishBuffer,
      ReleaseBuffer, gpu
<1>8. CASE \/ AcquireForDepth \/ SkipFrame \/ DecodeInputFails \/ Reconstruct
           \/ ReleaseFromDepth \/ AcquireDepthFrame \/ BeginRenderFails
           \/ RenderDepth \/ CommitDepth
  <2>1. UNCHANGED beyondDepth
    BY <1>8, Zenon
    DEF AcquireForDepth, SkipFrame, DecodeInputFails, Reconstruct, ReleaseFromDepth,
        AcquireDepthFrame, BeginRenderFails, RenderDepth, CommitDepth
  <2>. QED BY <2>1 DEF beyondDepth
<1>9. CASE EvictDepthFrame \/ RenderPassthroughFrame
  BY <1>9, Zenon DEF EvictDepthFrame, RenderPassthroughFrame, gpu
<1>10. CASE UNCHANGED vars
  BY <1>10 DEF vars
<1>. QED
  BY StepCases, <1>3, <1>4, <1>5, <1>6, <1>7, <1>8, <1>9, <1>10, Zenon

\* The same for the CPU queue, which the render thread never uses.
LEMMA StepOnCpuQueue ==
  ASSUME IInv, [Next]_vars
  PROVE  [Cpu!Next]_Cpu!vars
<1>. SUFFICES ASSUME ~UNCHANGED cpu
              PROVE  Cpu!Next
  BY Zenon DEF cpu, Cpu!vars
<1>1. ASSUME NEW p \in CpuRefs,
             \/ Cpu!AcquireRead(p) \/ Cpu!AcquireWrite(p) \/ Cpu!WriteFrame(p)
             \/ Cpu!CommitWrite(p) \/ Cpu!CommitWriteAndAcquireRead(p)
             \/ Cpu!Destroy(p)
      PROVE  Cpu!Next
  BY <1>1, Zenon DEF Cpu!Next, CpuRefs
<1>2. Server \in CpuRefs /\ DepthThread \in CpuRefs
  BY Zenon DEF CpuRefs
<1>3. CASE ServeCpu
  <2>1. \/ Cpu!AcquireWrite(Server) \/ Cpu!WriteFrame(Server)
        \/ Cpu!CommitWrite(Server) \/ Cpu!CommitWriteAndAcquireRead(Server)
        \/ Cpu!Destroy(Server)
    BY <1>3, Zenon
    DEF ServeCpu, AcquireCpuFrame, DownloadFrame, CommitCpuFrame, AcquireBuffer,
        ReadBufferFails, ReadBuffer, PublishBuffer, ReleaseBuffer
  <2>. QED BY <1>1, <1>2, <2>1, Zenon
<1>4. CASE \/ AcquireForDepth \/ SkipFrame \/ DecodeInputFails \/ Reconstruct
           \/ ReleaseFromDepth
  <2>1. Cpu!AcquireRead(DepthThread) \/ Cpu!Destroy(DepthThread)
    BY <1>4, Zenon
    DEF AcquireForDepth, SkipFrame, DecodeInputFails, Reconstruct, ReleaseFromDepth, cpu
  <2>. QED BY <1>1, <1>2, <2>1, Zenon
<1>5. CASE NoFrameAvailable \/ PollFrame \/ ServeGpu
  BY <1>5, Zenon
  DEF NoFrameAvailable, PollFrame, ServeGpu, AcquireTexture, TextureFails,
      FillTexture, PoseFails, CommitTextureOnly, CommitTexture, AcquireUpload,
      DecodeBuffer, DecodeFails, CommitUpload, AcquireCpuFrame, cpu
<1>6. CASE AcquireDepthFrame \/ BeginRenderFails \/ RenderDepth \/ CommitDepth
  BY <1>6, Zenon
  DEF AcquireDepthFrame, BeginRenderFails, RenderDepth, CommitDepth, cpu
<1>7. CASE \/ AcquireCameraFrame \/ AcquireDepth \/ EvictCameraFrame
           \/ EvictDepthFrame \/ RenderPassthroughFrame
  <2>1. UNCHANGED beyondRender
    BY <1>7, Zenon
    DEF AcquireCameraFrame, AcquireDepth, EvictCameraFrame, EvictDepthFrame,
        RenderPassthroughFrame
  <2>. QED BY <2>1 DEF beyondRender
<1>8. CASE UNCHANGED vars
  BY <1>8 DEF vars
<1>. QED
  BY StepCases, <1>3, <1>4, <1>5, <1>6, <1>7, <1>8, Zenon

\* The same for the depth queue, which the serve thread never uses.
LEMMA StepOnDepthQueue ==
  ASSUME IInv, [Next]_vars
  PROVE  [Depth!Next]_Depth!vars
<1>. SUFFICES ASSUME ~UNCHANGED depth
              PROVE  Depth!Next
  BY Zenon DEF depth, Depth!vars
<1>1. DepthThread \in DepthRefs /\ \A r \in RenderRef : r \in DepthRefs
  BY Zenon DEF DepthRefs
<1>2. ASSUME NEW p \in DepthRefs,
             \/ Depth!AcquireRead(p) \/ Depth!AcquireWrite(p) \/ Depth!WriteFrame(p)
             \/ Depth!CommitWrite(p) \/ Depth!Destroy(p)
      PROVE  Depth!Next
  BY <1>2, Zenon DEF Depth!Next, DepthRefs
<1>3. CASE AcquireDepthFrame \/ BeginRenderFails \/ RenderDepth \/ CommitDepth
  <2>1. \/ Depth!AcquireWrite(DepthThread) \/ Depth!WriteFrame(DepthThread)
        \/ Depth!CommitWrite(DepthThread) \/ Depth!Destroy(DepthThread)
    BY <1>3, Zenon
    DEF AcquireDepthFrame, BeginRenderFails, RenderDepth, CommitDepth
  <2>. QED BY <1>1, <1>2, <2>1, Zenon
<1>4. CASE AcquireDepth
  <2>1. Depth!AcquireRead(ref) /\ ref \in RenderRef
    BY <1>4, RenderLists, Zenon DEF AcquireDepth
  <2>. QED BY <1>1, <1>2, <2>1, Zenon
<1>5. CASE EvictDepthFrame
  <2>1. Depth!Destroy(Head(heldDepthFrames))
    BY <1>5, Zenon DEF EvictDepthFrame
  <2>2. heldDepthFrames # << >>
    BY <1>5 DEF EvictDepthFrame, RenderAt, IInv, RenderPlace
  <2>3. Head(heldDepthFrames) \in RenderRef
    BY <2>2, RenderLists, HeadTailProperties
  <2>. QED BY <1>1, <1>2, <2>1, <2>3, Zenon
<1>6. CASE NoFrameAvailable \/ PollFrame \/ ServeGpu \/ ServeCpu
  <2>1. UNCHANGED beyondServe
    BY <1>6, Zenon
    DEF NoFrameAvailable, PollFrame, ServeGpu, AcquireTexture, TextureFails,
        FillTexture, PoseFails, CommitTextureOnly, CommitTexture, AcquireUpload,
        DecodeBuffer, DecodeFails, CommitUpload, AcquireCpuFrame, ServeCpu,
        DownloadFrame, CommitCpuFrame, AcquireBuffer, ReadBufferFails, ReadBuffer,
        PublishBuffer, ReleaseBuffer
  <2>. QED BY <2>1 DEF beyondServe
<1>7. CASE \/ AcquireForDepth \/ SkipFrame \/ DecodeInputFails \/ Reconstruct
           \/ ReleaseFromDepth
  BY <1>7, Zenon
  DEF AcquireForDepth, SkipFrame, DecodeInputFails, Reconstruct, ReleaseFromDepth,
      depth
<1>8. CASE AcquireCameraFrame \/ EvictCameraFrame \/ RenderPassthroughFrame
  BY <1>8, Zenon
  DEF AcquireCameraFrame, EvictCameraFrame, RenderPassthroughFrame, depth
<1>9. CASE UNCHANGED vars
  BY <1>9 DEF vars
<1>. QED
  BY StepCases, <1>3, <1>4, <1>5, <1>6, <1>7, <1>8, <1>9, Zenon

\* The three threads use each queue through its operations alone: whatever
\* holds of FrameQueue for every way of using it holds of the GPU, the CPU and
\* the depth queue of the pipeline.
THEOREM PipelineUsesItsQueues == Spec => Gpu!Spec /\ Cpu!Spec /\ Depth!Spec
<1>1. Init => Gpu!Init /\ Cpu!Init /\ Depth!Init
  BY Zenon DEF Init
<1>2. IInv /\ [Next]_vars => [Gpu!Next]_Gpu!vars
  BY StepOnGpuQueue
<1>3. IInv /\ [Next]_vars => [Cpu!Next]_Cpu!vars
  BY StepOnCpuQueue
<1>4. IInv /\ [Next]_vars => [Depth!Next]_Depth!vars
  BY StepOnDepthQueue
<1>. QED
  BY <1>1, <1>2, <1>3, <1>4, PipelineInvariance, PTL
  DEF Spec, Gpu!Spec, Cpu!Spec, Depth!Spec

=============================================================================
