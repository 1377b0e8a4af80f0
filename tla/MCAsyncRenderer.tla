--------------------------- MODULE MCAsyncRenderer --------------------------
(***************************************************************************)
(* A small instance of AsyncRenderer.  Two states are the same to TLC when *)
(* they differ only in which entry of the queue plays which part, or in    *)
(* what is overwritten before it is looked at again: the image when the    *)
(* thread has none, and what an idle entry said when it was last used.     *)
(***************************************************************************)
EXTENDS AsyncRenderer

OneReader == {Writer, 1}
Images == 0..LastImage
BothUses == {"decode", "disparity"}

\* What an entry keeps while it is idle or being written.
Keeps(f) == IF use = "decode" THEN <<>> ELSE <<textureIndex[f], named[f]>>

Published(f) ==
  <<content[f], numReaders[f], named[f], frameSize[f], textureIndex[f], f \in unsure>>

\* What a reference stands for.
Stands(p) ==
  IF entry[p] = NoFrame THEN <<>>
  ELSE IF isWrite[p]
       THEN <<Keeps(entry[p]),
              IF pc = "commit" THEN Published(entry[p])
              ELSE IF use = "disparity" /\ pc # "begin" THEN <<frameSize[entry[p]]>>
              ELSE <<>>>>
       ELSE <<{i \in DOMAIN readEntries : readEntries[i] = entry[p]}>>

View ==
  << use, device, [i \in DOMAIN idleEntries |-> Keeps(idleEntries[i])],
     [i \in DOMAIN readEntries |-> Published(readEntries[i])],
     [p \in Ptr |-> Stands(p)],
     slots, input, pipeline, pc, IF pc = "idle" THEN image.number ELSE image,
     jobs, outside >>
=============================================================================
