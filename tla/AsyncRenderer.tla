---------------------------- MODULE AsyncRenderer ---------------------------
(***************************************************************************)
(* The textures the AsyncRenderer fills on its own Vulkan device and the   *)
(* inline renderer of the application's device draws with.  It is used in  *)
(* two ways, by two threads that share no state in it but the device:      *)
(*                                                                         *)
(*   "decode"     the serve thread of a camera manager uploads a raw image *)
(*                and has it decoded: CopyCPUFrameToGPU;                   *)
(*   "disparity"  the depth thread uploads a disparity map and has it      *)
(*                filtered: the end of DepthReconstruction::RunThread.     *)
(*                                                                         *)
(* Both take an entry of a frame queue, choose one of NumBufferedFrames    *)
(* shared textures, make whatever is missing or has the wrong size, submit *)
(* a job to the GPU, wait for at most 100 ms, and publish the entry.  They *)
(* differ in the choice: the decoder goes round its textures, whatever     *)
(* happens to the entries, whereas an entry for disparities keeps the      *)
(* texture it was given when it was first used.                            *)
(*                                                                         *)
(* The inline renderer makes the textures and never frees one before it is *)
(* destroyed; texture n is the n-th it made.  What a texture shows is the  *)
(* number of the image it was filled from.                                 *)
(*                                                                         *)
(* The queue is FrameQueue, whose operations the steps below contain: its  *)
(* Ptr are a FramePtr of the writing thread and those of the frames the    *)
(* render thread can hold, its Content is the number of the image.         *)
(***************************************************************************)
EXTENDS FrameQueue

CONSTANTS
  Uses,         \* the ways of use a run covers
  Size,         \* the sizes images can have
  Setting,      \* what a pipeline can be specialised for
  LastImage,    \* bound: the number of the last image
  MaxTextures   \* bound: how many textures the inline renderer can make

NumBufferedFrames == 4
Slot == 0..(NumBufferedFrames - 1)
Unassigned == -1
None == 0  \* no texture, no size, no setting

\* The FramePtrs of the writing thread and of the render thread.
Writer == 0
Reader == Ptr \ {Writer}

\* An entry of the queue with disparity maps has a texture of its own: there
\* must be no more of them.
ASSUME UsesAssumption == Uses \subseteq {"decode", "disparity"} /\ Uses # {}
ASSUME TexturesAssumption == NumFrames <= NumBufferedFrames
ASSUME WriterAssumption == Writer \in Ptr
ASSUME SizeAssumption == Size # {} /\ 0 \notin Size
ASSUME SettingAssumption == Setting # {} /\ 0 \notin Setting
ASSUME BoundsAssumption == LastImage \in Nat /\ MaxTextures \in Nat
ASSUME ImagesAssumption == Content = 0..LastImage

VARIABLES
  use,           \* one of Uses, for the whole behaviour
  initialized,   \* m_bIsInitialized
  ready,         \* InitRenderer returned true, AsyncFrameDecoder too
  named,         \* FrameTextureResource, OutputDisparityMapNativeTexture
  frameSize,     \* FrameSize, OutputDisparityTextureSize
  textureIndex,  \* DepthFrame::DisparityTextureIndex
  nextIndex,     \* m_cameraTextureIndex, m_depthFrameIndex
  texture,       \* m_sharedCameraTexture, m_outputTexture
  input,         \* m_rawCameraTexture, m_disparityTexture + m_confidenceTexture
  pipeline,      \* m_specConstants and the pipeline made for them
  pc,            \* where the writing thread is
  image,         \* the image it works on: number, size and setting
  jobs,          \* submitted and not executed: pairs of texture and image
  made,          \* sizes of the textures the inline renderer has made
  picture,       \* what each of them shows
  unsure         \* entries whose job was not seen to have executed

frames == <<named, frameSize, textureIndex>>
device == <<initialized, ready>>
slots == <<nextIndex, texture>>
outside == <<made, picture>>
asyncVars == <<use, device, vars, frames, slots, input, pipeline, pc, image, jobs,
          outside, unsure>>

-----------------------------------------------------------------------------
Written == entry[Writer]

\* A VulkanTexture; one of the inline renderer's can be behind it.
NoTexture == [valid |-> FALSE, size |-> None, native |-> None]

AsyncInit ==
  /\ Init /\ content = [f \in Frame |-> 0]
  /\ use \in Uses
  /\ initialized = FALSE
  /\ ready = FALSE
  /\ named = [f \in Frame |-> None]
  /\ frameSize = [f \in Frame |-> None]
  /\ textureIndex = [f \in Frame |-> Unassigned]
  /\ nextIndex = IF use = "decode" THEN -1 ELSE 0
  /\ texture = [i \in Slot |-> NoTexture]
  /\ input = [valid |-> FALSE, size |-> None, confidence |-> FALSE]
  /\ pipeline = [setting |-> None, live |-> FALSE]
  /\ pc = "idle"
  /\ image = [number |-> 0, size |-> None, setting |-> None]
  /\ jobs = << >>
  /\ made = << >>
  /\ picture = << >>
  /\ unsure = {}

-----------------------------------------------------------------------------
(* InitRenderer holds m_accessMutex alone, all other operations share it.  *)

Initializing ==
  /\ ~initialized /\ pc = "idle"
  /\ UNCHANGED <<use, vars, frames, slots, input, pipeline, pc, image, jobs,
                 outside, unsure>>

\* A buffer that was created says that the renderer is initialized, although
\* the rest of InitRenderer can still fail.
CreateBuffer == initialized' = TRUE

\* AsyncFrameDecoder::Init is the last thing that can fail.
DecoderInit == ready' = TRUE

InitFails == Initializing /\ CreateBuffer /\ UNCHANGED ready

InitRenderer == Initializing /\ CreateBuffer /\ DecoderInit

-----------------------------------------------------------------------------
(* The writing thread.                                                     *)

Goes(from, to) == pc = from /\ pc' = to

\* The thread gives up: the FramePtr is destroyed.
GiveUp == pc' = "idle" /\ Destroy(Writer)

\* The next image, its size and the settings it comes with, for which the
\* thread takes an entry.  The decoder is handed images in any state of the
\* renderer, a depth thread exists only after InitRenderer.
TakeEntry ==
  /\ image.number < LastImage
  /\ use = "disparity" => ready
  /\ Goes("idle", "begin")
  /\ AcquireWrite(Writer)
  /\ \E size \in Size, setting \in Setting :
       image' = [number |-> image.number + 1, size |-> size, setting |-> setting]
  /\ UNCHANGED <<use, device, frames, slots, input, pipeline, jobs, outside,
                 unsure>>

\* CopyAndDecodeCameraFrame returns false for lack of a renderer.
Refuse ==
  /\ use = "decode" /\ pc = "begin"
  /\ ~initialized
  /\ GiveUp
  /\ image' = [image EXCEPT !.number = @ - 1]  \* nothing was tried
  /\ UNCHANGED <<use, device, frames, slots, input, pipeline, jobs, outside,
                 unsure>>

\* An operator named after another one with a suffix is that one with a slip:
\* the properties are stated so that each slip breaks one of them.
NextCameraTextureOfThree == (nextIndex + 1) % 3

\* The camera textures go round, once for every image that is tried.
NextCameraTexture == (nextIndex + 1) % NumBufferedFrames

BeginDecode ==
  /\ use = "decode" /\ initialized
  /\ Goes("begin", "input")
  /\ nextIndex' = NextCameraTexture
  /\ UNCHANGED <<use, device, vars, frames, texture, input, pipeline, image,
                 jobs, outside, unsure>>

AssignOnce ==
  IF textureIndex[Written] = Unassigned
  THEN [textureIndex EXCEPT ![Written] = nextIndex]
  ELSE textureIndex

BeginDisparity ==
  /\ use = "disparity"
  /\ Goes("begin", "pipeline")
  /\ textureIndex' = AssignOnce
  /\ nextIndex' = IF textureIndex' # textureIndex THEN nextIndex + 1 ELSE nextIndex
  /\ frameSize' = [frameSize EXCEPT ![Written] = image.size]
  /\ UNCHANGED <<use, device, vars, named, texture, input, pipeline, image,
                 jobs, outside, unsure>>

\* The texture the job is to fill.
Target == IF use = "decode" THEN nextIndex ELSE textureIndex[Written]

-----------------------------------------------------------------------------
(* What a job needs is made when it is missing or does not fit.            *)

Preparing == UNCHANGED <<use, device, image, jobs, unsure>>

\* The textures that are filled from memory.  The confidence comes after the
\* disparity and is not looked at again when that fits.
InputFits == input.valid /\ input.size = image.size

PrepareInput ==
  /\ \/ InputFits /\ UNCHANGED input
     \/ /\ ~InputFits
        /\ input' = [valid |-> TRUE, size |-> image.size, confidence |-> TRUE]
  /\ Goes("input", "output")
  /\ UNCHANGED <<vars, frames, slots, pipeline, outside>> /\ Preparing

\* CreateTexture destroys the old texture before it tries.
InputFails ==
  /\ pc = "input" /\ ~InputFits
  /\ input' \in [valid : {use = "disparity", FALSE}, size : {image.size},
                 confidence : {FALSE}]
  /\ GiveUp
  /\ UNCHANGED <<frames, slots, pipeline, outside>> /\ Preparing

OutputFitsIfValid == texture[Target].valid
OutputFits == texture[Target].valid /\ texture[Target].size = image.size

\* The inline renderer makes a texture, and CreateSharedTexture opens it.  The
\* entry of a disparity map learns its texture here, and only here.
CreateOutput ==
  /\ ~OutputFits
  /\ Len(made) < MaxTextures
  /\ made' = Append(made, image.size)
  /\ picture' = Append(picture, 0)
  /\ texture' = [texture EXCEPT ![Target] =
                   [valid |-> TRUE, size |-> image.size, native |-> Len(made')]]
  /\ named' = IF use = "disparity"
              THEN [named EXCEPT ![Written] = Len(made')] ELSE named

PrepareOutput ==
  /\ Goes("output", IF use = "decode" THEN "pipeline" ELSE "camera")
  /\ \/ CreateOutput
     \/ OutputFits /\ UNCHANGED <<made, picture, texture, named>>
  /\ UNCHANGED <<vars, frameSize, textureIndex, nextIndex, input, pipeline>>
  /\ Preparing

\* The old texture is destroyed first; the new one is lost, if it was made.
OutputFails ==
  /\ pc = "output" /\ ~OutputFits
  /\ texture' = [texture EXCEPT ![Target] = [NoTexture EXCEPT !.size = image.size]]
  /\ \/ UNCHANGED outside
     \/ /\ Len(made) < MaxTextures
        /\ made' = Append(made, image.size)
        /\ picture' = Append(picture, 0)
  /\ GiveUp
  /\ UNCHANGED <<frames, nextIndex, input, pipeline>> /\ Preparing

\* m_bwRectifiedCameraTexture, of which only the failure matters.
PrepareCamera ==
  /\ Goes("camera", "submit")
  /\ UNCHANGED <<vars, frames, slots, input, pipeline, outside>> /\ Preparing

CameraFails ==
  /\ pc = "camera"
  /\ GiveUp
  /\ UNCHANGED <<frames, slots, input, pipeline, outside>> /\ Preparing

\* A pipeline that could not be made leaves its settings behind: the next
\* image with the same settings goes on without one.
CreatePipeline ==
  /\ pipeline.setting # image.setting
  /\ pipeline' = [setting |-> image.setting, live |-> TRUE]

PreparePipeline ==
  /\ Goes("pipeline", IF use = "decode" THEN "submit" ELSE "input")
  /\ use = "decode" => ready
  /\ \/ CreatePipeline
     \/ pipeline.setting = image.setting /\ UNCHANGED pipeline
  /\ UNCHANGED <<vars, frames, slots, input, outside>> /\ Preparing

PipelineFails ==
  /\ pc = "pipeline"
  /\ \/ use = "decode" /\ ~ready /\ UNCHANGED pipeline
     \/ /\ pipeline.setting # image.setting
        /\ pipeline' = [setting |-> image.setting, live |-> FALSE]
  /\ GiveUp
  /\ UNCHANGED <<frames, slots, input, outside>> /\ Preparing

-----------------------------------------------------------------------------
(* The job.                                                                *)

\* Whether the Vulkan specification says what the job does: it has a pipeline
\* and textures of disparity and confidence.
Defined == pipeline.live /\ (use = "disparity" => input.confidence)

\* The fence is reset and the only command buffer begun again, also when the
\* job before has not executed: it is lost, or executes once more.
Submit ==
  /\ Goes("submit", "wait")
  /\ LET job == [native |-> texture[Target].native, number |-> image.number,
                 defined |-> Defined]
     IN jobs' \in {<<job>>, Append(jobs, job)}
  /\ UNCHANGED <<use, device, vars, frames, slots, input, pipeline, image,
                 outside, unsure>>

\* The GPU executes jobs in their order, an undefined one with any result.
Execute ==
  /\ jobs # << >>
  /\ jobs' = Tail(jobs)
  /\ LET job == Head(jobs)
         shown == [picture EXCEPT ![job.native] = job.number]
     IN picture' \in IF job.defined THEN {shown} ELSE {shown, picture}
  /\ UNCHANGED <<use, device, vars, frames, slots, input, pipeline, pc, image,
                 made, unsure>>

\* vkWaitForFences returns when the job has executed, after 100 ms, or when
\* the fence is signalled by an earlier job; the thread goes on in any case.
FinishWait ==
  /\ Goes("wait", "commit")
  /\ unsure' = IF jobs # << >> \/ ~Defined
               THEN unsure \cup {Written} ELSE unsure \ {Written}
  /\ IF use = "decode"
     THEN /\ named' = [named EXCEPT ![Written] = texture[Target].native]
          /\ frameSize' = [frameSize EXCEPT ![Written] = image.size]
     ELSE UNCHANGED <<named, frameSize>>
  /\ WriteFrame(Writer) /\ content'[Written] = image.number
  /\ UNCHANGED <<use, device, slots, input, pipeline, image, jobs, outside,
                 textureIndex>>

PublishEntry ==
  /\ Goes("commit", "idle")
  /\ CommitWrite(Writer)
  /\ UNCHANGED <<use, device, frames, slots, input, pipeline, image, jobs,
                 outside, unsure>>

CopyAndDecodeCameraFrame == Refuse \/ BeginDecode
BeginRender == BeginDisparity
Prepare ==
  \/ PrepareInput \/ InputFails \/ PrepareOutput \/ OutputFails
  \/ PrepareCamera \/ CameraFails \/ PreparePipeline \/ PipelineFails

-----------------------------------------------------------------------------
(* The render thread takes the newest frame and keeps it while it likes.   *)

Read ==
  /\ \E r \in Reader : AcquireRead(r) \/ Destroy(r)
  /\ UNCHANGED <<use, device, frames, slots, input, pipeline, pc, image, jobs,
                 outside, unsure>>

AsyncNext ==
  \/ InitFails \/ InitRenderer
  \/ TakeEntry \/ CopyAndDecodeCameraFrame \/ BeginRender \/ Prepare
  \/ Submit \/ Execute \/ FinishWait \/ PublishEntry
  \/ Read

AsyncSpec == AsyncInit /\ [][AsyncNext]_asyncVars

-----------------------------------------------------------------------------
(* Properties.                                                             *)

\* The frames of the queue somebody reads or can take to read.
Readable == ToSet(readEntries)

\* A decoded frame is good for as long as fewer images than there are
\* textures were tried after it; a disparity map for as long as it is read.
Fresh(f) == use = "disparity" \/ image.number < content[f] + NumBufferedFrames

\* A published frame names a texture that shows the image the frame was made
\* from, from the moment it is published until its last reader lets go of it,
\* through failures, new sizes and late jobs of other frames: only its own
\* job not having executed in time excuses it, and, for a decoded frame, the
\* camera having gone round all textures while it was read.
FramesShowTheirImage ==
  \A f \in Readable \ unsure :
    Fresh(f) => picture[named[f]] = content[f]

\* A published frame names a texture, and one of the size the frame says.
TexturesFitTheirFrames ==
  \A f \in Readable : named[f] # None /\ made[named[f]] = frameSize[f]
=============================================================================
