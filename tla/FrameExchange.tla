--------------------------- MODULE FrameExchange ----------------------------
(***************************************************************************)
(* What a frame queue promises to the threads that share it, without its   *)
(* vectors and counters.                                                   *)
(*                                                                         *)
(* A thread that asks for a frame to write gets one that nobody reads or   *)
(* writes.  Publishing it makes it the newest frame, and the only frames   *)
(* that stay published beside it are those somebody holds.  A reader gets  *)
(* the newest frame; a frame nobody holds any more is withdrawn, unless it *)
(* is the only one.                                                        *)
(***************************************************************************)
EXTENDS Integers

CONSTANTS NumFrames, Ptr

VARIABLES
  published,  \* frames a reader may hold
  newest,     \* the frame the next reader gets
  entry,      \* the frame each reference stands for
  isWrite     \* whether it may write it

vars == <<published, newest, entry, isWrite>>

Frame == 1..NumFrames
NoFrame == 0

Held(f) == \E p \in Ptr : entry[p] = f /\ ~isWrite[p]
Written(f) == \E p \in Ptr : entry[p] = f /\ isWrite[p]
Free == {f \in Frame : f \notin published /\ ~Written(f)}

Init ==
  /\ published = {}
  /\ newest = NoFrame
  /\ entry = [p \in Ptr |-> NoFrame]
  /\ isWrite = [p \in Ptr |-> FALSE]

Read(p) ==
  /\ entry[p] = NoFrame
  /\ newest \in published
  /\ entry' = [entry EXCEPT ![p] = newest]
  /\ UNCHANGED <<published, newest, isWrite>>

Claim(p) ==
  /\ entry[p] = NoFrame
  /\ \E f \in Free : entry' = [entry EXCEPT ![p] = f]
  /\ isWrite' = [isWrite EXCEPT ![p] = TRUE]
  /\ UNCHANGED <<published, newest>>

\* The writer may keep a reference to the frame, which then reads it.
Publish(p) ==
  /\ entry[p] # NoFrame
  /\ isWrite[p]
  /\ published' = {f \in published : Held(f)} \cup {entry[p]}
  /\ newest' = entry[p]
  /\ entry' \in {entry, [entry EXCEPT ![p] = NoFrame]}
  /\ isWrite' = [isWrite EXCEPT ![p] = FALSE]

Rescind(p) ==
  /\ entry[p] # NoFrame
  /\ isWrite[p]
  /\ entry' = [entry EXCEPT ![p] = NoFrame]
  /\ isWrite' = [isWrite EXCEPT ![p] = FALSE]
  /\ UNCHANGED <<published, newest>>

\* Withdrawing the newest frame makes one that is still held the newest.
Withdraw(f) ==
  /\ published' = published \ {f}
  /\ IF f = newest THEN newest' \in published' ELSE UNCHANGED newest

Release(p) ==
  /\ entry[p] # NoFrame
  /\ ~isWrite[p]
  /\ entry' = [entry EXCEPT ![p] = NoFrame]
  /\ IF (\E q \in Ptr \ {p} : entry[q] = entry[p]) \/ published = {entry[p]}
     THEN UNCHANGED <<published, newest>>
     ELSE Withdraw(entry[p])
  /\ UNCHANGED isWrite

Next ==
  \E p \in Ptr :
    Read(p) \/ Claim(p) \/ Publish(p) \/ Rescind(p) \/ Release(p)

Spec == Init /\ [][Next]_vars
=============================================================================
