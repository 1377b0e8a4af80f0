---------------------------- MODULE MCFrameQueue ----------------------------
(***************************************************************************)
(* Three frames and four references: enough for a frame that is written    *)
(* while an older one is held twice, for two writers at once and for an    *)
(* underrun.  Two contents tell an overwritten frame from an untouched one.*)
(***************************************************************************)
EXTENDS FrameQueue, TLC

\* References and contents are interchangeable.
Symmetry == Permutations(Ptr) \cup Permutations(Content)
=============================================================================
