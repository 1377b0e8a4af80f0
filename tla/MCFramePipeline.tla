--------------------------- MODULE MCFramePipeline --------------------------
(***************************************************************************)
(* The queues have their real sizes; only the number of camera images is   *)
(* bounded.  Two states are the same to TLC when they differ only in which *)
(* entry of a queue plays which part, in what an idle entry contained when *)
(* it was last used, or in the names of the render thread's references:    *)
(* no action and no property distinguishes them.                           *)
(***************************************************************************)
EXTENDS FramePipeline

Textures == {"texture"} \X BOOLEAN
EveryKind == {"texture", "buffer"} \X BOOLEAN

\* What a reference stands for: nothing, a frame being written with its
\* content, or the place of a published frame.
Stands(p, read, entry, isWrite, content) ==
  IF entry[p] = 0 THEN <<"none">>
  ELSE IF isWrite[p] THEN <<"writes", content[entry[p]]>>
  ELSE <<"reads", {i \in DOMAIN read : read[i] = entry[p]}>>

Published(read, readers, content) ==
  [i \in DOMAIN read |-> <<content[read[i]], readers[read[i]]>>]

GpuRef(p) == Stands(p, gpuRead, gpuEntry, gpuWrite, gpuContent)
CpuRef(p) == Stands(p, cpuRead, cpuEntry, cpuWrite, cpuContent)
DepthRef(p) == Stands(p, depthRead, depthEntry, depthWrite, depthContent)

View ==
  << kind, Len(gpuIdle), Published(gpuRead, gpuReaders, gpuContent), GpuRef(Server),
     Len(cpuIdle), Published(cpuRead, cpuReaders, cpuContent), CpuRef(Server),
     CpuRef(DepthThread),
     Len(depthIdle), Published(depthRead, depthReaders, depthContent),
     DepthRef(DepthThread),
     serveVars, depthVars,
     renderPc, rendered, projected, renderSequence,
     IF renderPc = "idle" THEN <<>> ELSE <<GpuRef(ref), DepthRef(ref)>>,
     [i \in DOMAIN heldCameraFrames |-> GpuRef(heldCameraFrames[i])],
     [i \in DOMAIN heldDepthFrames |-> DepthRef(heldDepthFrames[i])] >>
=============================================================================
