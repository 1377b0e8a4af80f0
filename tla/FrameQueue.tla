----------------------------- MODULE FrameQueue -----------------------------
(***************************************************************************)
(* FrameQueue<T> and FramePtr<T> of frame_queue.h: the pool of frames that *)
(* a camera or depth thread writes and that other threads read.            *)
(*                                                                         *)
(* The queue owns NumFrames entries.  An entry sits in the vector          *)
(* m_idleEntries (free to be written), in the vector m_readEntries         *)
(* (published, the newest at the back), or in no vector at all while a     *)
(* write FramePtr holds it.  Every operation takes m_accessMutex, so each  *)
(* one is a single step; between two operations of a thread any other      *)
(* thread may run.                                                         *)
(*                                                                         *)
(* Ptr is the set of references that can exist at the same time: FramePtr  *)
(* objects, and raw frames whose FramePtr was dissolved by                 *)
(* AcquireManualRead.  The latter keep their count in the queue and are    *)
(* given back with the same ReleaseRead, so they need no action here.      *)
(***************************************************************************)
EXTENDS Integers, Sequences, FiniteSets, SequencesExt

CONSTANTS
  NumFrames,  \* constructor argument numFrames
  Ptr,        \* references that can be alive at the same time
  Content     \* what the pixels of a frame can be

ASSUME NumFramesAssumption == NumFrames \in Nat \ {0}
ASSUME PtrAssumption == IsFiniteSet(Ptr)

VARIABLES
  idleEntries,  \* m_idleEntries: a stack of frames
  readEntries,  \* m_readEntries: published frames, oldest first
  numReaders,   \* QueueEntry::NumReaders
  entry,        \* FramePtr::m_entry
  isWrite,      \* FramePtr::m_bIsWrite
  content       \* the T inside the entry

vars == <<idleEntries, readEntries, numReaders, entry, isWrite, content>>

Frame == 1..NumFrames
NoFrame == 0

-----------------------------------------------------------------------------
(* Operators on the vectors.                                               *)

\* The elements of s at the positions in K, in their order in s.
Rank(K, i) == Cardinality({k \in K : k <= i})
Nth(K, j) == CHOOSE i \in K : Rank(K, i) = j
At(s, K) == [j \in 1..Cardinality(K) |-> s[Nth(K, j)]]

\* An operator named after another one with a suffix is that one with a slip:
\* the properties below are stated so that each slip breaks one of them.

\* "stale frames not being read": the positions the loop that starts a
\* commit erases, and those it leaves.
StalePositionsNone == {}
StalePositionsAll == DOMAIN readEntries
StalePositions == {i \in DOMAIN readEntries : numReaders[readEntries[i]] <= 0}
KeptPositions == DOMAIN readEntries \ StalePositions

\* The loop visits the vector from its back.
Evicted == Reverse(At(readEntries, StalePositions))
Kept == At(readEntries, KeptPositions)

\* Destroying a FramePtr, and what m_entry.reset() leaves.
Drop(p) ==
  /\ entry' = [entry EXCEPT ![p] = NoFrame]
  /\ isWrite' = [isWrite EXCEPT ![p] = FALSE]

-----------------------------------------------------------------------------
Init ==
  /\ idleEntries = [i \in 1..NumFrames |-> i]
  /\ readEntries = << >>
  /\ numReaders = [f \in Frame |-> 0]
  /\ entry = [p \in Ptr |-> NoFrame]
  /\ isWrite = [p \in Ptr |-> FALSE]
  /\ \E c \in Content : content = [f \in Frame |-> c]

\* AcquireRead with a slip: the front of m_readEntries instead of the back.
AcquireReadOldest(p) ==
  /\ entry[p] = NoFrame
  /\ readEntries # << >>
  /\ numReaders' = [numReaders EXCEPT ![Head(readEntries)] = @ + 1]
  /\ entry' = [entry EXCEPT ![p] = Head(readEntries)]
  /\ UNCHANGED <<idleEntries, readEntries, isWrite, content>>

\* An empty m_readEntries yields an empty FramePtr and changes nothing.
AcquireRead(p) ==
  /\ entry[p] = NoFrame
  /\ readEntries # << >>
  /\ numReaders' = [numReaders EXCEPT ![Last(readEntries)] = @ + 1]
  /\ entry' = [entry EXCEPT ![p] = Last(readEntries)]
  /\ UNCHANGED <<idleEntries, readEntries, isWrite, content>>

\* Erasing at position i whenever Cond holds, as ReleaseRead does.
ReleaseReadIf(f, Cond(_)) ==
  \E i \in DOMAIN readEntries :
    /\ readEntries[i] = f
    /\ numReaders' = [numReaders EXCEPT ![f] = @ - 1]
    /\ IF Cond(f)
       THEN /\ idleEntries' = Append(idleEntries, f)
            /\ readEntries' = RemoveAt(readEntries, i)
       ELSE UNCHANGED <<idleEntries, readEntries>>
ReleaseReadUncounted(f) == ReleaseReadIf(f, LAMBDA g : Len(readEntries) > 1)
ReleaseReadLast(f) == ReleaseReadIf(f, LAMBDA g : numReaders[g] - 1 <= 0)
ReleaseReadKept(f) == ReleaseReadIf(f, LAMBDA g : FALSE)

\* ReleaseRead of frame f: the entry stays published while it is the only
\* one, or while somebody still reads it.
ReleaseRead(f) ==
  IF f \notin ToSet(readEntries)
  THEN UNCHANGED <<idleEntries, readEntries, numReaders>>
  ELSE \E i \in DOMAIN readEntries :
         /\ readEntries[i] = f
         /\ \A j \in 1..(i - 1) : readEntries[j] # f
         /\ numReaders' = [numReaders EXCEPT ![f] = @ - 1]
         /\ IF Len(readEntries) > 1 /\ numReaders[f] - 1 <= 0
            THEN /\ idleEntries' = Append(idleEntries, f)
                 /\ readEntries' = RemoveAt(readEntries, i)
            ELSE UNCHANGED <<idleEntries, readEntries>>

AcquireWriteShared(p) ==
  /\ entry[p] = NoFrame
  /\ idleEntries # << >>
  /\ entry' = [entry EXCEPT ![p] = Last(idleEntries)]
  /\ isWrite' = [isWrite EXCEPT ![p] = TRUE]
  /\ UNCHANGED <<idleEntries, readEntries, numReaders, content>>

\* An empty m_idleEntries yields an empty FramePtr: the caller sees an
\* underrun and nothing changes.
AcquireWrite(p) ==
  /\ entry[p] = NoFrame
  /\ idleEntries # << >>
  /\ entry' = [entry EXCEPT ![p] = Last(idleEntries)]
  /\ isWrite' = [isWrite EXCEPT ![p] = TRUE]
  /\ idleEntries' = Front(idleEntries)
  /\ UNCHANGED <<readEntries, numReaders, content>>

\* The holder of a write FramePtr fills the frame, without the mutex.
WriteFrame(p) ==
  /\ entry[p] # NoFrame
  /\ isWrite[p]
  /\ \E c \in Content : content' = [content EXCEPT ![entry[p]] = c]
  /\ UNCHANGED <<idleEntries, readEntries, numReaders, entry, isWrite>>

CommitWrite(p) ==
  /\ entry[p] # NoFrame
  /\ isWrite[p]
  /\ idleEntries' = idleEntries \o Evicted
  /\ readEntries' = Append(Kept, entry[p])
  /\ Drop(p)
  /\ UNCHANGED <<numReaders, content>>

CommitWriteAndAcquireReadUncounted(p) ==
  /\ entry[p] # NoFrame
  /\ isWrite[p]
  /\ isWrite' = [isWrite EXCEPT ![p] = FALSE]
  /\ idleEntries' = idleEntries \o Evicted
  /\ readEntries' = Append(Kept, entry[p])
  /\ UNCHANGED <<entry, numReaders, content>>

\* The FramePtr turns into a read of the frame it has just published.
CommitWriteAndAcquireRead(p) ==
  /\ entry[p] # NoFrame
  /\ isWrite[p]
  /\ isWrite' = [isWrite EXCEPT ![p] = FALSE]
  /\ idleEntries' = idleEntries \o Evicted
  /\ readEntries' = Append(Kept, entry[p])
  /\ numReaders' = [numReaders EXCEPT ![entry[p]] = @ + 1]
  /\ UNCHANGED <<entry, content>>

RescindWrite(f) ==
  /\ idleEntries' = Append(idleEntries, f)
  /\ UNCHANGED <<readEntries, numReaders>>

\* ~FramePtr, and the manual ReleaseRead of a frame held without a FramePtr.
Destroy(p) ==
  /\ entry[p] # NoFrame
  /\ IF isWrite[p] THEN RescindWrite(entry[p]) ELSE ReleaseRead(entry[p])
  /\ Drop(p)
  /\ UNCHANGED content

Next ==
  \E p \in Ptr :
    \/ AcquireRead(p)
    \/ AcquireWrite(p)
    \/ WriteFrame(p)
    \/ CommitWrite(p)
    \/ CommitWriteAndAcquireRead(p)
    \/ Destroy(p)

Spec == Init /\ [][Next]_vars

-----------------------------------------------------------------------------
(* Properties.                                                             *)

Readers(f) == {p \in Ptr : entry[p] = f /\ ~isWrite[p]}
Writers(f) == {p \in Ptr : entry[p] = f /\ isWrite[p]}
Referenced == {entry[p] : p \in Ptr} \ {NoFrame}

\* Types of the variables.
TypeOK ==
  /\ idleEntries \in Seq(Frame)
  /\ readEntries \in Seq(Frame)
  /\ numReaders \in [Frame -> Nat]
  /\ entry \in [Ptr -> Frame \cup {NoFrame}]
  /\ isWrite \in [Ptr -> BOOLEAN]
  /\ content \in [Frame -> Content]

\* No entry is lost and none is in two places, whatever the order in which
\* the threads commit, rescind and release: each one is idle, published or
\* with exactly one writer, and neither vector holds it twice.
NoRepeats(s) == \A i, j \in DOMAIN s : s[i] = s[j] => i = j
OnePlace ==
  /\ NoRepeats(idleEntries)
  /\ NoRepeats(readEntries)
  /\ ToSet(idleEntries) \cap ToSet(readEntries) = {}
  /\ \A p, q \in Ptr : isWrite[p] /\ isWrite[q] /\ entry[p] = entry[q] => p = q
  /\ \A p \in Ptr : isWrite[p] =>
       /\ entry[p] # NoFrame
       /\ entry[p] \notin ToSet(idleEntries) \cup ToSet(readEntries)
  /\ \A f \in Frame : f \in ToSet(idleEntries) \cup ToSet(readEntries)
                        \/ \E p \in Ptr : isWrite[p] /\ entry[p] = f

\* A frame somebody reads stays published, and NumReaders counts exactly the
\* references that will each call ReleaseRead once.
ReadersCounted ==
  /\ \A f \in Frame : numReaders[f] = Cardinality(Readers(f))
  /\ \A p \in Ptr : entry[p] # NoFrame /\ ~isWrite[p] =>
                      entry[p] \in ToSet(readEntries)

\* Apart from the newest one, a published frame is there only because
\* somebody reads it: nothing stale is kept back from the writers.
OnlyNewestUnread ==
  \A i \in DOMAIN readEntries :
    i < Len(readEntries) => numReaders[readEntries[i]] > 0

\* The pool is large enough: as long as the references in use leave two
\* frames over, AcquireWrite does not underrun.
WriterFindsFrame ==
  Cardinality(Referenced) + 1 < NumFrames => idleEntries # << >>

\* What a reader sees does not change under it: no step writes the content
\* of a frame between its AcquireRead and its ReleaseRead.
ReaderSeesStableFrame ==
  [][\A p \in Ptr :
       entry[p] # NoFrame /\ ~isWrite[p] /\ entry'[p] = entry[p]
         => content'[entry[p]] = content[entry[p]]]_vars

\* Once a frame has been published there is always one to read: no commit,
\* release or rescind empties m_readEntries.
AlwaysAFrame == [][readEntries # << >> => readEntries' # << >>]_vars

\* The vectors and counters implement the exchange of frames: every operation
\* has the effect FrameExchange promises of it, or is invisible there.
Exchange ==
  INSTANCE FrameExchange
    WITH published <- ToSet(readEntries),
         newest <- IF readEntries = << >> THEN NoFrame ELSE Last(readEntries)
ImplementsExchange == Exchange!Spec
=============================================================================
