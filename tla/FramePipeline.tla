---------------------------- MODULE FramePipeline ---------------------------
(***************************************************************************)
(* How camera frames travel from the camera to the application's frame,    *)
(* through three frame queues shared by three threads:                     *)
(*                                                                         *)
(*   serve thread     ICameraManager::ServeFrames, the only writer of the  *)
(*                    GPU queue and of the CPU queue;                      *)
(*   depth thread     DepthReconstruction::RunThread, reads the CPU queue  *)
(*                    and writes the depth queue;                          *)
(*   render thread    the application's xrEndFrame, reads the GPU and the  *)
(*                    depth queue and keeps the frames of its last two     *)
(*                    renders, since the GPU may still be reading them.    *)
(*                                                                         *)
(* Each thread is a program counter; a step is what a thread does between  *)
(* two operations on a queue, so every interleaving of the locked sections *)
(* of FrameQueue is a behaviour.  The pixels of a frame are the number of  *)
(* the camera image they show; a depth frame has the number of the camera  *)
(* image it was computed from (FrameExposureTimestamp).                    *)
(***************************************************************************)
EXTENDS Integers, Sequences, FiniteSets, SequencesExt

CONSTANTS
  Kinds,      \* the pairs of source and stereo the pipeline is set up for
  StereoFrameSkip,  \* how many images the depth thread leaves out
  LastImage   \* bound: the number of the last image the camera takes

\* "texture": CameraManagerOpenVR::ServeFrames takes a texture for the GPU
\* queue, then a copy of the image for the CPU queue.
\* "buffer": CameraManagerOpenCV::ServeFrames, and ServeBlockQueueFrames when
\* it serves colour, write the CPU frame and upload it to a GPU frame.
ASSUME KindsAssumption ==
  Kinds \in SUBSET ({"texture", "buffer"} \X BOOLEAN) /\ Kinds # {}
ASSUME StereoFrameSkipAssumption == StereoFrameSkip \in Nat
ASSUME LastImageAssumption == LastImage \in Nat \ {0}

VARIABLES
  source,             \* how the serve thread gets a frame, see above
  stereo,             \* m_projectionMode = Projection_StereoReconstruction
  gpuIdle, gpuRead, gpuReaders, gpuEntry, gpuWrite, gpuContent,
  cpuIdle, cpuRead, cpuReaders, cpuEntry, cpuWrite, cpuContent,
  depthIdle, depthRead, depthReaders, depthEntry, depthWrite, depthContent,
  servePc,            \* where the serve thread is
  image,              \* the image it serves: frameHeader, or the image grabbed
  served,             \* lastFrameSequence
  waiting,            \* m_bWaitingForCamera
  gotCpuFrame,        \* bGotCPUFrame
  depthPc,            \* where the depth thread is
  depthSequence,      \* DepthReconstruction::m_lastFrameSequence
  depthImage,         \* frameTimestamp: the image of the last reconstruction
  renderPc,           \* where the render thread is
  ref,                \* its FramePtrs gpuFrame and depthFrame
  heldCameraFrames,   \* m_heldCameraFrames, the oldest first
  heldDepthFrames,    \* m_heldDepthFrames
  rendered,           \* the images RenderPassthroughFrame was last given
  projected,          \* the image m_currentCameraFrame_* was computed for
  renderSequence      \* PassthroughSystem::m_lastFrameSequence

gpu == <<gpuIdle, gpuRead, gpuReaders, gpuEntry, gpuWrite, gpuContent>>
cpu == <<cpuIdle, cpuRead, cpuReaders, cpuEntry, cpuWrite, cpuContent>>
depth ==
  <<depthIdle, depthRead, depthReaders, depthEntry, depthWrite, depthContent>>
serveVars == <<servePc, image, served, waiting, gotCpuFrame>>
depthVars == <<depthPc, depthSequence, depthImage>>
renderVars == <<renderPc, ref, heldCameraFrames, heldDepthFrames, rendered,
                projected, renderSequence>>
serveLocals == <<image, served, waiting, gotCpuFrame>>
depthLocals == <<depthSequence, depthImage>>
renderLocals == <<heldCameraFrames, heldDepthFrames, rendered, projected,
                  renderSequence>>
kind == <<source, stereo>>
beyondServe == <<kind, depth, depthVars, renderVars>>
beyondDepth == <<kind, gpu, serveVars, renderVars>>
beyondRender == <<kind, cpu, serveVars, depthVars>>
vars == <<kind, gpu, cpu, depth, serveVars, depthVars, renderVars>>

-----------------------------------------------------------------------------
(* The three queues and the references the threads can have in them.       *)

GpuFrames == 4
CpuFramesTwo == 2
CpuFrames == 3
DepthFrames == 4

\* How many frames the render thread holds on to from one render to the next.
HeldFrames == 2

Server == 0          \* the serve thread's gpuFrame and cpuFrame
DepthThread == -1    \* the depth thread's two FramePtrs
RenderRef == 1..(HeldFrames + 1)  \* the render thread's: held and current

NoImage == -1
Image == 0..LastImage

Gpu ==
  INSTANCE FrameQueue
    WITH NumFrames <- GpuFrames, Ptr <- RenderRef \cup {Server},
         Content <- Image, idleEntries <- gpuIdle, readEntries <- gpuRead,
         numReaders <- gpuReaders, entry <- gpuEntry, isWrite <- gpuWrite,
         content <- gpuContent
Cpu ==
  INSTANCE FrameQueue
    WITH NumFrames <- CpuFrames, Ptr <- {Server, DepthThread},
         Content <- Image, idleEntries <- cpuIdle, readEntries <- cpuRead,
         numReaders <- cpuReaders, entry <- cpuEntry, isWrite <- cpuWrite,
         content <- cpuContent
Depth ==
  INSTANCE FrameQueue
    WITH NumFrames <- DepthFrames, Ptr <- RenderRef \cup {DepthThread},
         Content <- Image, idleEntries <- depthIdle, readEntries <- depthRead,
         numReaders <- depthReaders, entry <- depthEntry,
         isWrite <- depthWrite, content <- depthContent

\* FrameSequence of an image: the camera's own counter, or a local one.
FrameSequence(n) == IF source = "texture" THEN n ELSE n % 16

\* The image of the frame a reference stands for.
ImageOf(f, content) == IF f = 0 THEN NoImage ELSE content[f]
GpuImage(p) == ImageOf(gpuEntry[p], gpuContent)
CpuImage(p) == ImageOf(cpuEntry[p], cpuContent)
DepthImage(p) == ImageOf(depthEntry[p], depthContent)

Init ==
  /\ \E k \in Kinds : source = k[1] /\ stereo = k[2]
  /\ Gpu!Init /\ gpuContent = [f \in 1..GpuFrames |-> 0]
  /\ Cpu!Init /\ cpuContent = [f \in 1..CpuFrames |-> 0]
  /\ Depth!Init /\ depthContent = [f \in 1..DepthFrames |-> 0]
  /\ servePc = "poll"
  /\ image = IF source = "texture" THEN 0 ELSE NoImage
  /\ served = 0
  /\ waiting = TRUE
  /\ gotCpuFrame = FALSE
  /\ depthPc = "acquire"
  /\ depthSequence \in 0..(LastImage + 1)  \* no constructor sets it
  /\ depthImage = NoImage
  /\ renderPc = "idle"
  /\ ref = CHOOSE r \in RenderRef : TRUE
  /\ heldCameraFrames = << >>
  /\ heldDepthFrames = << >>
  /\ rendered = [camera |-> NoImage, depth |-> NoImage]
  /\ projected = NoImage
  /\ renderSequence = 0

-----------------------------------------------------------------------------
(* Serve thread, from a texture.                                           *)

ServeAt(from, to) == servePc = from /\ servePc' = to

\* GetVideoStreamFrameBuffer has no frame, or one that is too old.
NoFrameAvailable ==
  /\ source = "texture"
  /\ servePc = "poll"
  /\ waiting' = TRUE
  /\ UNCHANGED <<gpu, cpu, servePc, image, served, gotCpuFrame, beyondServe>>

\* The camera never goes back, but may have skipped images, and it offers
\* the same one until it has the next.
PollFrame ==
  /\ source = "texture"
  /\ ServeAt("poll", "acquire")
  /\ \E n \in Image \ {0} :
       /\ n >= image
       /\ waiting \/ n # served
       /\ image' = n
  /\ UNCHANGED <<gpu, cpu, served, waiting, gotCpuFrame, beyondServe>>

\* An underrun gives up on this attempt; the image is still new next time.
AcquireTexture ==
  /\ IF gpuIdle = << >>
     THEN ServeAt("acquire", "poll") /\ UNCHANGED gpu
     ELSE ServeAt("acquire", "fill") /\ Gpu!AcquireWrite(Server)
  /\ UNCHANGED <<cpu, serveLocals, beyondServe>>

\* No renderer, its mutex is taken, or no texture: nothing is remembered.
TextureFails ==
  /\ ServeAt("fill", "poll")
  /\ Gpu!Destroy(Server)
  /\ UNCHANGED <<cpu, serveLocals, beyondServe>>

FillTexture ==
  /\ ServeAt("fill", "pose")
  /\ Gpu!WriteFrame(Server)
  /\ GpuImage(Server)' = image
  /\ waiting' = FALSE
  /\ served' = image
  /\ UNCHANGED <<cpu, image, gotCpuFrame, beyondServe>>

\* No pose for the exposure time: the frame is lost, though it was served.
PoseFails ==
  /\ ServeAt("pose", "poll")
  /\ Gpu!Destroy(Server)
  /\ UNCHANGED <<cpu, serveLocals, beyondServe>>

\* Without stereo reconstruction nobody needs the CPU frame.
CommitTextureOnly ==
  /\ ~stereo
  /\ ServeAt("pose", "poll")
  /\ Gpu!CommitWrite(Server)
  /\ UNCHANGED <<cpu, serveLocals, beyondServe>>

\* An underrun of the CPU queue loses the GPU frame as well.
AcquireCpuFrame ==
  /\ stereo
  /\ IF cpuIdle = << >>
     THEN ServeAt("pose", "poll") /\ Gpu!Destroy(Server) /\ UNCHANGED cpu
     ELSE ServeAt("pose", "download") /\ Cpu!AcquireWrite(Server)
                                      /\ UNCHANGED gpu
  /\ UNCHANGED <<serveLocals, beyondServe>>

\* GetVideoStreamFrameBuffer or DownloadTextureToCPU, which may fail.
DownloadFrame ==
  /\ ServeAt("download", "commit")
  /\ gotCpuFrame' \in BOOLEAN
  /\ IF gotCpuFrame'
     THEN Cpu!WriteFrame(Server) /\ CpuImage(Server)' = image
     ELSE UNCHANGED cpu
  /\ UNCHANGED <<gpu, image, served, waiting, beyondServe>>

CommitTextureForgotten ==
  /\ ServeAt("commit", "commitCpu")
  /\ Gpu!Destroy(Server)
  /\ UNCHANGED <<cpu, serveLocals, beyondServe>>

CommitTexture ==
  /\ ServeAt("commit", "commitCpu")
  /\ Gpu!CommitWrite(Server)
  /\ UNCHANGED <<cpu, serveLocals, beyondServe>>

CommitCpuFrame ==
  /\ ServeAt("commitCpu", "poll")
  /\ IF gotCpuFrame THEN Cpu!CommitWrite(Server) ELSE Cpu!Destroy(Server)
  /\ UNCHANGED <<gpu, serveLocals, beyondServe>>

ServeTexture ==
  \/ NoFrameAvailable \/ PollFrame
  \/ AcquireTexture \/ TextureFails \/ FillTexture
  \/ PoseFails \/ CommitTextureOnly
  \/ AcquireCpuFrame \/ DownloadFrame \/ CommitTexture \/ CommitCpuFrame

-----------------------------------------------------------------------------
(* Serve thread, from a buffer.                                            *)

\* The next image goes to a CPU frame, unless the queue underruns.
AcquireBuffer ==
  /\ source = "buffer"
  /\ image < LastImage
  /\ ServeAt("poll", "read")
  /\ Cpu!AcquireWrite(Server)
  /\ UNCHANGED <<gpu, serveLocals, beyondServe>>

ReadBufferFails ==
  /\ ServeAt("read", "poll")
  /\ Cpu!Destroy(Server)
  /\ UNCHANGED <<gpu, serveLocals, beyondServe>>

ReadBuffer ==
  /\ ServeAt("read", "publish")
  /\ image' = image + 1
  /\ Cpu!WriteFrame(Server)
  /\ CpuImage(Server)' = image'
  /\ UNCHANGED <<gpu, served, waiting, gotCpuFrame, beyondServe>>

PublishBuffer ==
  /\ ServeAt("publish", "upload")
  /\ Cpu!CommitWriteAndAcquireRead(Server)
  /\ UNCHANGED <<gpu, serveLocals, beyondServe>>

\* CopyCPUFrameToGPU takes a GPU frame, or reports an underrun.
AcquireUpload ==
  /\ IF gpuIdle = << >>
     THEN ServeAt("upload", "release") /\ UNCHANGED gpu
     ELSE ServeAt("upload", "decode") /\ Gpu!AcquireWrite(Server)
  /\ UNCHANGED <<cpu, serveLocals, beyondServe>>

\* CopyAndDecodeCameraFrame reads the CPU frame the thread still holds.
DecodeBuffer ==
  /\ ServeAt("decode", "commitUpload")
  /\ Gpu!WriteFrame(Server)
  /\ GpuImage(Server)' = CpuImage(Server)
  /\ UNCHANGED <<cpu, serveLocals, beyondServe>>

DecodeFails ==
  /\ ServeAt("decode", "release")
  /\ Gpu!Destroy(Server)
  /\ UNCHANGED <<cpu, serveLocals, beyondServe>>

CommitUpload ==
  /\ ServeAt("commitUpload", "release")
  /\ Gpu!CommitWrite(Server)
  /\ UNCHANGED <<cpu, serveLocals, beyondServe>>

\* The FramePtr cpuFrame goes out of scope at the end of the loop.
ReleaseBuffer ==
  /\ ServeAt("release", "poll")
  /\ Cpu!Destroy(Server)
  /\ UNCHANGED <<gpu, serveLocals, beyondServe>>

ServeBuffer ==
  \/ AcquireBuffer \/ ReadBufferFails \/ ReadBuffer \/ PublishBuffer
  \/ AcquireUpload \/ DecodeBuffer \/ DecodeFails \/ CommitUpload
  \/ ReleaseBuffer

-----------------------------------------------------------------------------
(* Depth thread.                                                           *)

DepthAt(from, to) == depthPc = from /\ depthPc' = to

\* AcquireCameraCPUFrame; with an empty queue the loop starts over.
AcquireForDepth ==
  /\ DepthAt("acquire", "examine")
  /\ Cpu!AcquireRead(DepthThread)
  /\ UNCHANGED <<depth, depthLocals, beyondDepth>>

\* The images the depth thread takes on: not the last one again, and with
\* StereoFrameSkip only every so many.
WantedIfNewer(sequence) == sequence > depthSequence
Wanted(sequence) ==
  /\ sequence # depthSequence
  /\ sequence % (StereoFrameSkip + 1) = 0

\* The frame is of no use: `continue` destroys the FramePtr.
SkipFrame ==
  /\ DepthAt("examine", "acquire")
  /\ ~(stereo /\ Wanted(FrameSequence(CpuImage(DepthThread))))
  /\ Cpu!Destroy(DepthThread)
  /\ UNCHANGED <<depth, depthLocals, beyondDepth>>

\* The frame is taken as done before its result exists.
TakeOn ==
  /\ stereo /\ Wanted(FrameSequence(CpuImage(DepthThread)))
  /\ depthSequence' = FrameSequence(CpuImage(DepthThread))
  /\ depthImage' = CpuImage(DepthThread)

\* A raw image that cannot be decoded is not tried again.
DecodeInputFails ==
  /\ source = "buffer"
  /\ DepthAt("examine", "acquire")
  /\ TakeOn
  /\ Cpu!Destroy(DepthThread)
  /\ UNCHANGED <<depth, beyondDepth>>

\* Rectifying and matching the two halves of the image cannot fail.
Reconstruct ==
  /\ DepthAt("examine", "output")
  /\ TakeOn
  /\ UNCHANGED <<cpu, depth, beyondDepth>>

\* An underrun drops the reconstruction.
AcquireDepthFrame ==
  /\ IF depthIdle = << >>
     THEN DepthAt("output", "done") /\ UNCHANGED depth
     ELSE DepthAt("output", "render") /\ Depth!AcquireWrite(DepthThread)
  /\ UNCHANGED <<cpu, depthLocals, beyondDepth>>

BeginRenderFails ==
  /\ DepthAt("render", "done")
  /\ Depth!Destroy(DepthThread)
  /\ UNCHANGED <<cpu, depthLocals, beyondDepth>>

RenderDepth ==
  /\ DepthAt("render", "commit")
  /\ Depth!WriteFrame(DepthThread)
  /\ DepthImage(DepthThread)' = depthImage
  /\ UNCHANGED <<cpu, depthLocals, beyondDepth>>

CommitDepth ==
  /\ DepthAt("commit", "done")
  /\ Depth!CommitWrite(DepthThread)
  /\ UNCHANGED <<cpu, depthLocals, beyondDepth>>

\* The CPU frame is held until the iteration ends.
ReleaseFromDepth ==
  /\ DepthAt("done", "acquire")
  /\ Cpu!Destroy(DepthThread)
  /\ UNCHANGED <<depth, depthLocals, beyondDepth>>

RunThread ==
  \/ AcquireForDepth \/ SkipFrame \/ DecodeInputFails \/ Reconstruct
  \/ AcquireDepthFrame \/ BeginRenderFails \/ RenderDepth \/ CommitDepth
  \/ ReleaseFromDepth

-----------------------------------------------------------------------------
(* Render thread: RenderPassthrough2D, or with stereo                      *)
(* RenderPassthroughWithDepth, called by each xrEndFrame.                  *)

RenderAt(from, to) == renderPc = from /\ renderPc' = to

Unreferenced(r) == gpuEntry[r] = Gpu!NoFrame /\ depthEntry[r] = Depth!NoFrame

\* AcquireCameraGPUFrame; with an empty queue nothing is rendered.
AcquireCameraFrame ==
  /\ RenderAt("idle", IF stereo THEN "depth" ELSE "evict")
  /\ ref' = CHOOSE r \in RenderRef : Unreferenced(r)
  /\ Gpu!AcquireRead(ref')
  /\ UNCHANGED <<depth, renderLocals, beyondRender>>

AcquireDepthLeaks ==
  /\ IF depthRead = << >>
     THEN RenderAt("depth", "idle") /\ UNCHANGED <<gpu, depth>>
     ELSE RenderAt("depth", "evict") /\ Depth!AcquireRead(ref) /\ UNCHANGED gpu
  /\ UNCHANGED <<ref, renderLocals, beyondRender>>

\* GetDepthFrame; with an empty queue the camera frame is given back.
AcquireDepth ==
  /\ IF depthRead = << >>
     THEN RenderAt("depth", "idle") /\ Gpu!Destroy(ref) /\ UNCHANGED depth
     ELSE RenderAt("depth", "evict") /\ Depth!AcquireRead(ref) /\ UNCHANGED gpu
  /\ UNCHANGED <<ref, renderLocals, beyondRender>>

EvictCameraFrameNewest ==
  /\ RenderAt("evict", IF stereo THEN "evictDepth" ELSE "evict")
  /\ Len(heldCameraFrames) >= HeldFrames
  /\ Gpu!Destroy(Last(heldCameraFrames))
  /\ heldCameraFrames' = Tail(heldCameraFrames)
  /\ UNCHANGED <<depth, ref, heldDepthFrames, rendered, projected,
                 renderSequence, beyondRender>>

\* Each turn of the loop releases the oldest camera frame, then the depth
\* frame it was rendered with.
EvictCameraFrame ==
  /\ RenderAt("evict", IF stereo THEN "evictDepth" ELSE "evict")
  /\ Len(heldCameraFrames) >= HeldFrames
  /\ Gpu!Destroy(Head(heldCameraFrames))
  /\ heldCameraFrames' = Tail(heldCameraFrames)
  /\ UNCHANGED <<depth, ref, heldDepthFrames, rendered, projected,
                 renderSequence, beyondRender>>

EvictDepthFrame ==
  /\ RenderAt("evictDepth", "evict")
  /\ Depth!Destroy(Head(heldDepthFrames))
  /\ heldDepthFrames' = Tail(heldDepthFrames)
  /\ UNCHANGED <<gpu, ref, heldCameraFrames, rendered, projected,
                 renderSequence, beyondRender>>

CalculateFrameProjectionForgets(n) ==
  /\ renderSequence' = FrameSequence(n)
  /\ UNCHANGED projected

\* CalculateFrameProjection computes the camera's projection once for each
\* frame it takes for a new one.
CalculateFrameProjection(n) ==
  IF FrameSequence(n) # renderSequence
  THEN projected' = n /\ renderSequence' = FrameSequence(n)
  ELSE UNCHANGED <<projected, renderSequence>>

\* AcquireManualRead turns the FramePtrs into held frames: the reference in
\* the queue stays.
RenderPassthroughFrame ==
  /\ RenderAt("evict", "idle")
  /\ Len(heldCameraFrames) < HeldFrames
  /\ heldCameraFrames' = Append(heldCameraFrames, ref)
  /\ heldDepthFrames' =
       IF stereo THEN Append(heldDepthFrames, ref) ELSE heldDepthFrames
  /\ rendered' = [camera |-> GpuImage(ref),
                  depth |-> IF stereo THEN DepthImage(ref) ELSE NoImage]
  /\ CalculateFrameProjection(GpuImage(ref))
  /\ UNCHANGED <<gpu, depth, ref, beyondRender>>

Render ==
  \/ AcquireCameraFrame \/ AcquireDepth
  \/ EvictCameraFrame \/ EvictDepthFrame \/ RenderPassthroughFrame

Next == ServeTexture \/ ServeBuffer \/ RunThread \/ Render

\* The depth thread loops for as long as the pipeline exists, and the
\* application calls xrEndFrame once for every frame it shows.  Nothing is
\* assumed of the camera.
Fairness == WF_vars(RunThread) /\ WF_vars(Render)

Spec == Init /\ [][Next]_vars /\ Fairness

-----------------------------------------------------------------------------
(* Properties.                                                             *)

\* The image of the frame the next reader of a queue gets.
Newest(read, content) ==
  IF read = << >> THEN NoImage ELSE content[Last(read)]
NewestCamera == Newest(gpuRead, gpuContent)
NewestCpu == Newest(cpuRead, cpuContent)
NewestDepth == Newest(depthRead, depthContent)

\* Types of the variables.
TypeOK ==
  /\ kind \in Kinds
  /\ Gpu!TypeOK /\ Cpu!TypeOK /\ Depth!TypeOK
  /\ servePc \in {"poll", "acquire", "fill", "pose", "download", "commit",
                  "commitCpu", "read", "publish", "upload", "decode",
                  "commitUpload", "release"}
  /\ image \in Image \cup {NoImage}
  /\ served \in Image
  /\ waiting \in BOOLEAN
  /\ gotCpuFrame \in BOOLEAN
  /\ depthPc \in {"acquire", "examine", "output", "render", "commit", "done"}
  /\ depthSequence \in 0..(LastImage + 1)
  /\ depthImage \in Image \cup {NoImage}
  /\ renderPc \in {"idle", "depth", "evict", "evictDepth"}
  /\ ref \in RenderRef
  /\ heldCameraFrames \in SeqOf(RenderRef, HeldFrames)
  /\ heldDepthFrames \in SeqOf(RenderRef, HeldFrames)
  /\ rendered \in [camera : Image \cup {NoImage}, depth : Image \cup {NoImage}]
  /\ projected \in Image \cup {NoImage}
  /\ renderSequence \in Image

\* The queues are large enough for the threads that share them.  Three CPU
\* frames: a camera image is never lost, with the texture already taken for
\* it, because of the depth thread, however long that keeps the frame it works
\* on ("Camera CPU frame underrun!" is never logged).  Four GPU and four depth
\* frames: as long as the render thread is between two renders a writer finds
\* one, so that holding two frames never starves the camera or the depth
\* thread, only a render that holds a third one for a moment can.
QueuesSuffice ==
  /\ servePc = "pose" => cpuIdle # << >>
  /\ servePc \in {"acquire", "upload"} /\ gpuIdle = << >> => renderPc # "idle"
  /\ depthPc = "output" /\ depthIdle = << >> => renderPc # "idle"

\* Between two renders the references the render thread has in the queues are
\* those of its two lists and no others, camera and depth frames in step: no
\* early return and no eviction leaks a reference or forgets one.
RenderLeaksNothing ==
  renderPc = "idle" =>
    /\ {r \in RenderRef : gpuEntry[r] # Gpu!NoFrame} = ToSet(heldCameraFrames)
    /\ {r \in RenderRef : depthEntry[r] # Depth!NoFrame}
         = ToSet(heldDepthFrames)
    /\ stereo => heldCameraFrames = heldDepthFrames

\* With OpenVR the texture is published before the copy of the image the depth
\* thread works on: a depth frame on display is never of an image whose camera
\* frame could not be displayed yet.  (From a buffer the order is the other way
\* round, and a failed upload leaves a depth frame without its camera frame.)
DepthHasItsCameraFrame == source = "texture" => NewestDepth <= NewestCamera

\* While the last two renders may still be executing, nothing writes the
\* camera or depth frames they were given.  (The frames are the queues'
\* entries; the textures that uploaded frames and depth frames name belong to
\* the AsyncRenderer and are the subject of module AsyncRenderer.)
HeldFramesStable ==
  [][/\ \A r \in ToSet(heldCameraFrames) :
          r \in ToSet(heldCameraFrames') => GpuImage(r)' = GpuImage(r)
     /\ \A r \in ToSet(heldDepthFrames) :
          r \in ToSet(heldDepthFrames') => DepthImage(r)' = DepthImage(r)]_vars

\* The picture never jumps back to an older camera or depth image.
NeverRendersOlder ==
  [][/\ rendered'.camera >= rendered.camera
     /\ rendered'.depth >= rendered.depth]_vars

\* A frame is rendered with the camera projection computed for its own image
\* (the other branch of CalculateFrameProjection is commented "Previous HMD
\* frame was rendered from the same camera frame").  Images from a buffer are
\* numbered modulo 16 from 0, which is what m_lastFrameSequence starts with: the
\* projection of another image is used when its number is the same, and the
\* first image is rendered with no projection at all.
SequenceOf(n) == IF n = NoImage THEN 0 ELSE FrameSequence(n)
ProjectionIsOfFrame ==
  \/ projected = rendered.camera
  \/ source = "buffer" /\ SequenceOf(projected) = SequenceOf(rendered.camera)

\* Every camera image that is published is displayed, unless a newer one is
\* displayed instead: no eviction, release or underrun lets the newest frame
\* slip away for good.
NewestIsRendered ==
  \A n \in Image :
    NewestCamera = n /\ (stereo => depthRead # << >>) ~> rendered.camera >= n

\* Every image published for the depth thread is taken on by it, unless a
\* newer one is, or the newest has the sequence number the thread remembers.
\* (The thread must want every image, and the serve thread must not read.)
NewestIsReconstructed ==
  \A n \in Image :
    NewestCpu = n
      ~> depthImage >= n \/ depthSequence = FrameSequence(NewestCpu)

\* The serve thread's own read of the CPU frame can make the queue fall back
\* to an older image, but only while the depth thread works on that one.
FallsBackOnlyToWork ==
  [][NewestCpu' < NewestCpu =>
       cpuRead' # << >> /\ cpuEntry[DepthThread] = Last(cpuRead')]_vars
=============================================================================
