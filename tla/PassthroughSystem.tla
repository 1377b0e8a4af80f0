-------------------------- MODULE PassthroughSystem --------------------------
(***************************************************************************)
(* The life of cameras and renderers in PassthroughSystem: set up with the *)
(* session, torn down and set up again when the menu asks for a reset,     *)
(* paused and perhaps closed while the application shows no passthrough,   *)
(* opened again when it does, and shut down with the session.              *)
(*                                                                         *)
(* The application thread runs all of this inside xrCreateSession,         *)
(* xrEndFrame and xrDestroySession, and meets the serve thread of each     *)
(* camera manager in the flags m_bRunThread and m_bIsPaused and when it    *)
(* joins it.  What it still has to do of a call is the sequence todo of    *)
(* pairs <<operation, camera manager>>; one step does the first of them,   *)
(* so that the serve threads and the settings menu come in between.        *)
(*                                                                         *)
(* Opening a camera fails while it is not available, and initialising a    *)
(* renderer may fail at any time.                                          *)
(***************************************************************************)
EXTENDS Integers, Sequences, SequencesExt

CONSTANTS
  Users  \* what a user switches between: settings, pairs of camera provider
         \* and projection mode, and options, pairs of
         \* PauseImageHandlingOnIdle and CloseCameraStreamOnPause

Provider == {"OpenVR", "OpenCV", "Augmented"}
Mode == {"RoomView2D", "Custom2D", "StereoReconstruction"}
ASSUME UsersAssumption ==
  /\ Users \subseteq [settings : SUBSET (Provider \X Mode),
                      options : SUBSET (BOOLEAN \X BOOLEAN)]
  /\ \A u \in Users : u.settings # {} /\ u.options # {}

\* m_cameraManager and m_augmentedCameraManager, and their depth
\* reconstructions m_depthReconstruction and m_augmentedDepthReconstruction.
Manager == {"main", "augmented"}

VARIABLES
  user,        \* one of Users, for the whole behaviour
  setting,     \* the configuration: camera provider and projection mode
  pauses,      \* the configuration: PauseImageHandlingOnIdle
  closes,      \* the configuration: CloseCameraStreamOnPause
  resetPending,  \* m_bRendererResetPending
  available,   \* the cameras that can be opened now
  draws,       \* the application has a layer to show passthrough on
  started,     \* m_fbPassthough.PassthroughStarted, which inhibits idling
  idleLong,    \* IdleTimeSeconds have passed since m_lastRenderTime was started
  session,     \* m_currentSession is set
  todo,        \* what the application thread has to do of the current call
  active,      \* m_cameraProvider and m_projectionMode
  inline,      \* m_inlineRenderer is set
  async,       \* m_asyncRenderer: none, created or initialized
  depth,       \* the depth reconstructions that are set
  isPaused,    \* m_bIsPaused
  camerasInitialized,  \* m_bCamerasInitialized
  camera       \* the camera managers

menu == <<user, setting, pauses, closes>>
outside == <<available, draws, started>>
renderers == <<active, inline, async, depth>>
flags == <<isPaused, camerasInitialized>>
vars == <<menu, resetPending, outside, idleLong, session, todo, renderers,
          flags, camera>>

\* The provider and the mode before the first setup.
Unset == <<"None", "RoomView2D">>

ProviderOf(s) == s[1]
ModeOf(s) == s[2]
Managers(s) ==
  IF ProviderOf(s) = "Augmented" THEN {"main", "augmented"} ELSE {"main"}
Cameras == UNION {Managers(s) : s \in user.settings}

CameraState ==
  [exists : BOOLEAN, initialized : BOOLEAN, run : BOOLEAN, paused : BOOLEAN,
   stream : BOOLEAN, frames : BOOLEAN,
   thread : {"none", "looping", "serving", "ended"}]

\* A manager that does not exist; a new one is the same but for exists.
NoCamera ==
  [exists |-> FALSE, initialized |-> FALSE, run |-> TRUE, paused |-> FALSE,
   stream |-> FALSE, frames |-> FALSE, thread |-> "none"]

Init ==
  /\ user \in Users
  /\ setting \in user.settings
  /\ \E o \in user.options : pauses = o[1] /\ closes = o[2]
  /\ resetPending = FALSE
  /\ available = Cameras
  /\ draws = TRUE
  /\ started = FALSE
  /\ idleLong = FALSE
  /\ session = FALSE
  /\ todo = << >>
  /\ active = Unset
  /\ inline = FALSE
  /\ async = "none"
  /\ depth = {}
  /\ isPaused = FALSE
  /\ camerasInitialized = FALSE
  /\ camera = [m \in Manager |-> NoCamera]

-----------------------------------------------------------------------------
(* The parts of a call of the application, in the order of the code.  An   *)
(* operator named after another one with a suffix is that one with a slip: *)
(* the properties are stated so that each slip breaks one of them.         *)

Do(name) == <<name, "main">>

\* Where the provider is the augmented one both managers are dealt with, the
\* augmented one last when cameras are opened and first everywhere else.
Both(ops(_)) ==
  IF ProviderOf(active) = "Augmented" THEN ops("augmented") \o ops("main")
  ELSE ops("main")

DeinitCameraUnjoined(m) == <<<<"stop", m>>, <<"close", m>>, <<"join", m>>>>
DeinitCameraUnstopped(m) == <<<<"join", m>>, <<"stop", m>>, <<"close", m>>>>

DeinitCamera(m) == <<<<"stop", m>>, <<"join", m>>, <<"close", m>>>>

\* The destructor begins with DeinitCamera.
DestroyManager(m) == Append(DeinitCamera(m), <<"forget", m>>)

DestroyManagersMain == DestroyManager("main")
DestroyManagers == DestroyManager("main") \o DestroyManager("augmented")

OpenCameras(s) ==
  <<<<"init", "main">>>>
    \o (IF ProviderOf(s) = "Augmented" THEN <<<<"init", "augmented">>>> ELSE << >>)
    \o <<Do("initialized")>>

\* What to open is known when the configuration has been read: "configure".
SetupProcessingPipeline ==
  <<Do("drop")>> \o DestroyManagers \o <<Do("configure"), Do("initRenderers")>>

ShutdownRenderer ==
  <<Do("dropInline"), Do("drop")>> \o DestroyManagers \o <<Do("end")>>

PauseOne(m) == <<<<"pause", m>>>>
UnpauseOne(m) == <<<<"unpause", m>>>>
CloseCameras ==
  IF closes THEN Both(DeinitCamera) \o <<Do("closed")>> ELSE << >>

PauseOnlyCloses == CloseCameras
Pause == Both(PauseOne) \o CloseCameras

Unpause ==
  IF ~isPaused THEN << >>
  ELSE Both(UnpauseOne)
         \o (IF camerasInitialized THEN << >> ELSE OpenCameras(active))
         \o <<Do("unpaused")>>

RenderPassthroughOnAppLayer == Unpause \o <<Do("render")>>

-----------------------------------------------------------------------------
(* Calls of the application.                                               *)

Returned == todo = << >>

xrCreateSession ==
  /\ Returned /\ ~session
  /\ session' = TRUE
  /\ inline' = TRUE
  /\ todo' = SetupProcessingPipeline \o <<Do("attached")>>
  /\ UNCHANGED <<menu, resetPending, outside, idleLong, active, async, depth,
                 flags, camera>>

xrDestroySession ==
  /\ Returned /\ session
  /\ todo' = ShutdownRenderer
  /\ UNCHANGED <<menu, resetPending, outside, idleLong, session, renderers,
                 flags, camera>>

\* CheckResetRendererResetPending reads the flag here and clears it in the
\* next step of this thread: a request in between is lost.
xrEndFrame ==
  /\ Returned /\ session
  /\ todo' = <<Do("clearReset")>>
               \o (CASE resetPending -> SetupProcessingPipeline
                    [] ~resetPending /\ draws -> RenderPassthroughOnAppLayer
                    [] OTHER -> <<Do("unrendered")>>)
  /\ UNCHANGED <<menu, resetPending, outside, idleLong, session, renderers,
                 flags, camera>>

-----------------------------------------------------------------------------
(* Steps of the application thread.                                        *)

At(name, m) == todo # << >> /\ Head(todo) = <<name, m>>
Continue == todo' = Tail(todo)

\* A failure to set up: xrCreateSession lets go of the session, and what has
\* been set up stays; xrEndFrame does not look at the result.  A failure to
\* open the cameras again: nothing was rendered.
Fail ==
  /\ todo' = IF Do("render") \in ToSet(todo) THEN <<Do("unrendered")>> ELSE << >>
  /\ session' = (session /\ Do("attached") \notin ToSet(todo))

ClearReset ==
  /\ At("clearReset", "main")
  /\ resetPending' = FALSE
  /\ Continue
  /\ UNCHANGED <<menu, outside, idleLong, session, renderers, flags, camera>>

SetPaused(m) ==
  /\ \/ At("pause", m) /\ camera' = [camera EXCEPT ![m].paused = TRUE]
     \/ At("unpause", m) /\ camera' = [camera EXCEPT ![m].paused = FALSE]
  /\ Continue
  /\ UNCHANGED <<menu, resetPending, outside, idleLong, session, renderers, flags>>

Opened(c) ==
  [c EXCEPT !.initialized = TRUE, !.run = TRUE, !.paused = FALSE,
            !.stream = TRUE, !.thread = IF @ = "none" THEN "looping" ELSE @]

InitCameraOnce(m) ==
  /\ At("init", m)
  /\ IF m \in available /\ ~camera[m].initialized
     THEN camera' = [camera EXCEPT ![m] = Opened(@)] /\ Continue
                                                     /\ UNCHANGED session
     ELSE Fail /\ UNCHANGED camera
  /\ UNCHANGED <<menu, resetPending, outside, idleLong, renderers, flags>>

InitCamera(m) ==
  /\ At("init", m)
  /\ \/ camera[m].initialized /\ Continue /\ UNCHANGED <<camera, session>>
     \/ /\ ~camera[m].initialized /\ m \in available
        /\ camera' = [camera EXCEPT ![m] = Opened(@)]
        /\ Continue /\ UNCHANGED session
     \/ ~camera[m].initialized /\ m \notin available /\ Fail /\ UNCHANGED camera
  /\ UNCHANGED <<menu, resetPending, outside, idleLong, renderers, flags>>

\* m_serveThread.join() waits until ServeFrames has returned.  A camera that
\* is not initialized has no thread and no stream: nothing is done to it.
StepDeinitCamera(m) ==
  /\ \/ At("stop", m)
        /\ camera' = IF camera[m].initialized
                     THEN [camera EXCEPT ![m].initialized = FALSE, ![m].run = FALSE]
                     ELSE camera
     \/ At("join", m) /\ camera[m].thread \in {"none", "ended"}
                      /\ camera' = [camera EXCEPT ![m].thread = "none"]
     \/ At("close", m) /\ camera' = [camera EXCEPT ![m].stream = FALSE]
     \/ At("forget", m) /\ camera' = [camera EXCEPT ![m].exists = FALSE,
                                                   ![m].frames = FALSE]
  /\ Continue
  /\ UNCHANGED <<menu, resetPending, outside, idleLong, session, renderers, flags>>

\* The held frames are released, the renderers go and the depth threads end.
DropPipeline ==
  /\ \/ At("dropInline", "main") /\ inline' = FALSE /\ UNCHANGED <<async, depth>>
     \/ At("drop", "main") /\ async' = "none" /\ depth' = {} /\ UNCHANGED inline
  /\ Continue
  /\ UNCHANGED <<menu, resetPending, outside, idleLong, session, active, flags,
                 camera>>

ConfigurePipelinePaused ==
  /\ At("configure", "main")
  /\ active' = setting
  /\ idleLong' = FALSE
  /\ async' = IF ModeOf(setting) = "RoomView2D" THEN "none" ELSE "created"
  /\ camera' = [m \in Manager |-> IF m \in Managers(setting)
                                  THEN [NoCamera EXCEPT !.exists = TRUE]
                                  ELSE camera[m]]
  /\ todo' = OpenCameras(setting) \o Tail(todo)
  /\ UNCHANGED <<menu, resetPending, outside, session, inline, depth, flags>>

ConfigurePipeline ==
  /\ At("configure", "main")
  /\ active' = setting
  /\ isPaused' = FALSE
  /\ idleLong' = FALSE
  /\ async' = IF ModeOf(setting) = "RoomView2D" THEN "none" ELSE "created"
  /\ camera' = [m \in Manager |-> IF m \in Managers(setting)
                                  THEN [NoCamera EXCEPT !.exists = TRUE]
                                  ELSE camera[m]]
  /\ todo' = OpenCameras(setting) \o Tail(todo)
  /\ UNCHANGED <<menu, resetPending, outside, session, inline, depth,
                 camerasInitialized>>

\* The inline renderer and the asynchronous one may fail to initialize; the
\* depth reconstructions come last.
InitRenderers ==
  /\ At("initRenderers", "main")
  /\ \/ Fail /\ UNCHANGED <<async, depth>>
     \/ /\ Continue /\ UNCHANGED session
        /\ IF async = "none" THEN UNCHANGED <<async, depth>>
           ELSE async' = "initialized" /\ depth' = Managers(active)
  /\ UNCHANGED <<menu, resetPending, outside, idleLong, active, inline, flags,
                 camera>>

SetSystemFlag ==
  /\ \/ At("initialized", "main") /\ camerasInitialized' = TRUE /\ UNCHANGED isPaused
     \/ At("closed", "main") /\ camerasInitialized' = FALSE /\ UNCHANGED isPaused
     \/ At("unpaused", "main") /\ isPaused' = FALSE /\ UNCHANGED camerasInitialized
  /\ Continue
  /\ UNCHANGED <<menu, resetPending, outside, idleLong, session, renderers, camera>>

SetSession ==
  /\ \/ At("attached", "main") /\ UNCHANGED session
     \/ At("end", "main") /\ session' = FALSE
  /\ Continue
  /\ UNCHANGED <<menu, resetPending, outside, idleLong, renderers, flags, camera>>

\* With a depth reconstruction the augmented camera's frames are rendered.
RenderedManager ==
  IF ModeOf(active) = "StereoReconstruction" /\ "main" \in depth
       /\ ProviderOf(active) = "Augmented"
  THEN "augmented" ELSE "main"

\* There is no swapchain, no camera frame or no depth frame.
RenderNothing ==
  /\ At("render", "main")
  /\ todo' = <<Do("unrendered")>>
  /\ UNCHANGED <<menu, resetPending, outside, idleLong, session, renderers,
                 flags, camera>>

\* A published frame stays in the queue, also while the camera is closed.
RenderFrame ==
  /\ At("render", "main")
  /\ camera[RenderedManager].frames
  /\ todo' = <<Do("project")>>
  /\ UNCHANGED <<menu, resetPending, outside, idleLong, session, renderers,
                 flags, camera>>

\* The depth reconstruction CalculateFrameProjection calls.
Projecting ==
  CASE ProviderOf(active) = "Augmented" -> {"augmented"}
    [] ProviderOf(active) # "Augmented" /\ ModeOf(active) # "RoomView2D" -> {"main"}
    [] OTHER -> {}

\* Without it the program ends here.
CalculateFrameProjection ==
  /\ At("project", "main")
  /\ Projecting \subseteq depth
  /\ idleLong' = FALSE
  /\ Continue
  /\ UNCHANGED <<menu, resetPending, outside, session, renderers, flags, camera>>

OnPostRenderFrame ==
  /\ At("unrendered", "main")
  /\ IF ~isPaused /\ ~started /\ pauses /\ idleLong
     THEN isPaused' = TRUE /\ todo' = Pause
     ELSE Continue /\ UNCHANGED isPaused
  /\ UNCHANGED <<menu, resetPending, outside, idleLong, session, renderers,
                 camerasInitialized, camera>>

ApplicationThread ==
  \/ \E m \in Manager : SetPaused(m) \/ InitCamera(m) \/ StepDeinitCamera(m)
  \/ ClearReset \/ DropPipeline \/ ConfigurePipeline \/ InitRenderers
  \/ SetSystemFlag \/ SetSession
  \/ RenderNothing \/ RenderFrame \/ CalculateFrameProjection \/ OnPostRenderFrame

-----------------------------------------------------------------------------
(* The serve thread of a camera manager, ServeFrames.                      *)

InThread == UNCHANGED <<menu, resetPending, outside, idleLong, session, todo,
                        renderers, flags>>

\* It begins to wait for an image of the camera.
StartServing(m) ==
  /\ camera[m].thread = "looping" /\ camera[m].run /\ ~camera[m].paused
  /\ camera' = [camera EXCEPT ![m].thread = "serving"]
  /\ InThread

\* Images of a webcam come to the GPU through the asynchronous renderer.
Webcam(m) == m = "augmented" \/ ProviderOf(active) = "OpenCV"

PublishFrame(m) ==
  /\ camera[m].thread = "serving"
  /\ inline /\ (Webcam(m) => async = "initialized")
  /\ camera' = [camera EXCEPT ![m].thread = "looping", ![m].frames = TRUE]
  /\ InThread

\* The camera, a pool or the renderer fails.
LoseFrame(m) ==
  /\ camera[m].thread = "serving"
  /\ camera' = [camera EXCEPT ![m].thread = "looping"]
  /\ InThread

EndThread(m) ==
  /\ camera[m].thread \in {"looping", "serving"} /\ ~camera[m].run
  /\ camera' = [camera EXCEPT ![m].thread = "ended"]
  /\ InThread

ServeFrames(m) ==
  StartServing(m) \/ PublishFrame(m) \/ LoseFrame(m) \/ EndThread(m)

-----------------------------------------------------------------------------
(* The settings menu, the application, the cameras and time.               *)

ChangeSettings ==
  /\ setting' \in user.settings
  /\ \E o \in user.options : pauses' = o[1] /\ closes' = o[2]
  /\ UNCHANGED <<user, resetPending, outside, idleLong, session, todo, renderers,
                 flags, camera>>

SetRendererResetPending ==
  /\ resetPending' = TRUE
  /\ UNCHANGED <<menu, outside, idleLong, session, todo, renderers, flags, camera>>

WorldChanges ==
  /\ available' \in SUBSET Cameras /\ draws' \in BOOLEAN /\ started' \in BOOLEAN
  /\ UNCHANGED <<menu, resetPending, idleLong, session, todo, renderers, flags,
                 camera>>

IdleTimePasses ==
  /\ ~idleLong
  /\ idleLong' = TRUE
  /\ UNCHANGED <<menu, resetPending, outside, session, todo, renderers, flags,
                 camera>>

Next ==
  \/ xrCreateSession \/ xrEndFrame \/ xrDestroySession
  \/ ApplicationThread
  \/ \E m \in Manager : ServeFrames(m)
  \/ ChangeSettings \/ SetRendererResetPending \/ WorldChanges \/ IdleTimePasses

\* The application goes on ending frames and the threads go on running.
Fairness ==
  /\ WF_vars(xrEndFrame)
  /\ WF_vars(ApplicationThread)
  /\ \A m \in Manager : WF_vars(ServeFrames(m))
  /\ WF_vars(IdleTimePasses)

Spec == Init /\ [][Next]_vars
LiveSpec == Spec /\ Fairness

-----------------------------------------------------------------------------
(* Properties.                                                             *)

\* Type invariant: what each variable may hold; a thread runs only in a
\* manager that exists.
TypeOK ==
  /\ user \in Users /\ setting \in user.settings
  /\ active \in user.settings \cup {Unset}
  /\ {pauses, closes, resetPending, draws, started, idleLong, session, inline,
      isPaused, camerasInitialized} \subseteq BOOLEAN
  /\ available \subseteq Cameras
  /\ async \in {"none", "created", "initialized"}
  /\ depth \subseteq Manager
  /\ camera \in [Manager -> CameraState]
  /\ \A m \in Manager : camera[m].thread # "none" => camera[m].exists

\* The program has ended in CalculateFrameProjection.
Crashed == At("project", "main") /\ ~(Projecting \subseteq depth)

\* A serve thread waits for an image only while the stream it waits on is
\* open, whatever is closed, paused or reset meanwhile.
ThreadUsesOpenStream ==
  \A m \in Manager : camera[m].thread = "serving" => camera[m].stream

\* Between calls a stream is open, a serve thread runs and its manager says it
\* is initialized all at once or not at all, and only in a manager of the
\* active provider: no failure leaves a stream without its thread, a thread
\* that has ended, or one of the previous provider.
NothingLeftRunning ==
  Returned =>
    \A m \in Manager :
      LET c == camera[m] IN
      /\ c.stream = c.initialized
      /\ c.initialized <=> c.thread # "none"
      /\ c.initialized => c.exists /\ c.run /\ m \in Managers(active)

\* No camera is being processed.
Quiet == \A m \in Manager : camera[m].paused \/ ~camera[m].stream

\* A reopening that opened the first of two cameras and not the second returns
\* with the first one processed and the system still paused, so that
\* OnPostRenderFrame, which pauses what is not, leaves it as it is.
HalfReopened ==
  /\ isPaused /\ ~camerasInitialized /\ ProviderOf(active) = "Augmented"
  /\ camera["main"].initialized /\ ~camera["augmented"].initialized

\* Between calls a system that says it is paused processes no camera, also
\* after a reopening that failed or a reset.
PausedIsQuiet == Returned /\ isPaused => Quiet \/ HalfReopened

\* Every call returns: the joins of DeinitCamera do not wait for ever.
CallsReturn == []<>(Returned \/ Crashed)

\* An application that shows no passthrough any more has the processing of
\* the cameras stopped, and stopped for good.
IdleStops ==
  <>[](session /\ ~draws /\ ~started /\ pauses /\ ~resetPending)
    => <>[](Quiet \/ HalfReopened \/ Crashed)

\* A system whose cameras failed to open again leaves the pause once they can
\* be opened and the application draws, also if one of them did open.
ReopenIsRetried ==
  <>[](session /\ draws /\ available = Cameras)
    => []<>(~isPaused \/ Crashed)
=============================================================================
