-------------------------------- MODULE Layer -------------------------------
(***************************************************************************)
(* The whole OpenXR layer as the application meets it (layer.cpp): beside  *)
(* its swapchains, which are those of Swapchains, there are sessions, the  *)
(* extensions XR_FB_passthrough and XR_VARJO_environment_depth_estimation, *)
(* which the layer implements itself, and what xrEndFrame makes of all of  *)
(* them: on which projection layer it draws passthrough, with what.        *)
(*                                                                         *)
(* `asked' is what the application knows, from its own calls and their     *)
(* results alone.  It follows the rules of OpenXR: it uses the handles it  *)
(* was given and has not destroyed, and the objects of a session are gone  *)
(* with it.                                                                *)
(*                                                                         *)
(* Not modelled: sessions the layer failed to attach to, reference spaces, *)
(* the extensions not enabled, layers of an unsupported purpose, and the   *)
(* geometry calls, which change nothing.                                   *)
(***************************************************************************)
EXTENDS Swapchains

CONSTANTS
  Scopes,       \* "images", "layers": what a behaviour is about
  MaxSessions,  \* bound on the sessions of the instance
  MaxQueued,    \* bound on the queue of a swapchain from the second one on
  MaxLayers,    \* bound on the layers of XR_FB_passthrough alive
  MaxHandle     \* bound on their handles

ASSUME LayerAssumption ==
  /\ Scopes \subseteq {"images", "layers"}
  /\ {MaxSessions, MaxQueued, MaxLayers, MaxHandle} \subseteq Nat

VARIABLES
  scope,         \* chosen for the whole behaviour
  sessions,      \* sessions so far
  inSession,     \* m_currentSession # XR_NULL_HANDLE
  fbPassthrough, \* m_fbPassthough
  varjoDepth,    \* m_bVarjoDepthEnabled
  asked,         \* what the application has asked for
  shown,         \* what xrEndFrame, the last call, drew, and what was asked
  spinning       \* a call of the application does not return

extensionVars == <<fbPassthrough, varjoDepth, asked>>
layerVars == <<scope, sessions, inSession, extensionVars, shown, spinning>>

Nothing == [layer |-> 0]
NotShown == [drawn |-> Nothing, asked |-> Nothing, byLayers |-> Nothing,
             staysActive |-> TRUE, started |-> FALSE, varjoLeftOver |-> FALSE,
             modesOff |-> FALSE]
NothingAsked ==
  [passthrough |-> FALSE, started |-> FALSE, layers |-> <<>>, varjo |-> FALSE]

LayerInit ==
  /\ Init
  /\ scope \in Scopes
  /\ sessions = 0
  /\ inSession = FALSE
  /\ fbPassthrough =
       [created |-> FALSE, started |-> FALSE, layers |-> <<>>, lastHandle |-> 0]
  /\ varjoDepth = FALSE
  /\ asked = NothingAsked
  /\ shown = NotShown
  /\ spinning = FALSE

-----------------------------------------------------------------------------
xrCreateSession ==
  /\ ~inSession /\ sessions < MaxSessions
  /\ sessions' = sessions + 1
  /\ inSession' = TRUE
  /\ usePassthrough' \in BOOLEAN
  /\ drawn' = {} /\ rejected' = {} /\ shown' = NotShown
  /\ UNCHANGED <<runtime, app, alive, tracked, acquired, waited, held, leftVars,
                 beginframeCalled, scope, extensionVars, spinning>>

\* The swapchains and the passthrough of the session go with it; the layer
\* keeps what it knows of them.
xrDestroySession ==
  /\ inSession
  /\ EndSession
  /\ inSession' = FALSE
  /\ asked' = NothingAsked
  /\ shown' = NotShown
  /\ UNCHANGED <<scope, sessions, fbPassthrough, varjoDepth, spinning>>

\* How a frame is to be drawn does not depend on the images it is drawn into: a
\* behaviour about the one leaves out the calls of the other.
SwapchainCall(s) ==
  /\ inSession /\ scope = "images"
  /\ \/ xrCreateSwapchain(s)
     \/ xrDestroySwapchain(s)
     \/ /\ sessions > 1 => Len(acquired[s]) < MaxQueued
        /\ xrAcquireSwapchainImage(s)
     \/ xrWaitSwapchainImage(s)
     \/ xrReleaseSwapchainImage(s)
  /\ shown' = NotShown
  /\ UNCHANGED <<scope, sessions, inSession, extensionVars, spinning>>

-----------------------------------------------------------------------------
\* The calls of the extensions change none of the images.
ExtensionCall ==
  /\ inSession /\ scope = "layers"
  /\ shown' = NotShown
  /\ UNCHANGED <<vars, scope, sessions, inSession>>

xrSetEnvironmentDepthEstimationVARJO ==
  /\ \E enabled \in BOOLEAN :
       /\ varjoDepth' = enabled
       /\ asked' = [asked EXCEPT !.varjo = enabled]
  /\ ExtensionCall /\ UNCHANGED <<fbPassthrough, spinning>>

\* There is one XrPassthroughFB at most; a second one is refused.
xrCreatePassthroughFB ==
  /\ IF fbPassthrough.created THEN UNCHANGED <<fbPassthrough, asked>>
     ELSE \E running \in BOOLEAN :
            /\ fbPassthrough' = [created |-> TRUE, started |-> running,
                                 layers |-> <<>>, lastHandle |-> 0]
            /\ asked' = [asked EXCEPT !.passthrough = TRUE, !.started = running,
                                      !.layers = <<>>]
  /\ ExtensionCall /\ UNCHANGED <<varjoDepth, spinning>>

xrDestroyPassthroughFB ==
  /\ asked.passthrough
  /\ fbPassthrough' = [fbPassthrough EXCEPT !.created = FALSE, !.layers = <<>>,
                                            !.lastHandle = 0]
  /\ asked' = [NothingAsked EXCEPT !.varjo = asked.varjo]
  /\ ExtensionCall /\ UNCHANGED <<varjoDepth, spinning>>

\* xrPassthroughStartFB and xrPassthroughPauseFB.
xrPassthroughStartFB(start) ==
  /\ asked.passthrough
  /\ fbPassthrough' = [fbPassthrough EXCEPT !.started = start]
  /\ asked' = [asked EXCEPT !.started = start]
  /\ ExtensionCall /\ UNCHANGED <<varjoDepth, spinning>>

\* The layers are searched in their order for the one with the handle.
IndexOf(h) == SelectInSeq(fbPassthrough.layers, LAMBDA l : l.handle = h)

\* A mutant: handles are numbered by the layers there are.
NewHandleByCount == Len(fbPassthrough.layers) + 1

NewHandle == fbPassthrough.lastHandle + 1

xrCreatePassthroughLayerFB ==
  /\ asked.passthrough
  /\ Len(fbPassthrough.layers) < MaxLayers /\ NewHandle <= MaxHandle
  /\ \E running, depth \in BOOLEAN :
       LET l == [started |-> running, depth |-> depth, style |-> 0]
       IN  /\ fbPassthrough' =
                [fbPassthrough EXCEPT
                   !.layers = Append(@, [handle |-> NewHandle, settings |-> l]),
                   !.lastHandle = NewHandle]
           /\ asked' = [asked EXCEPT !.layers =
                         [h \in DOMAIN @ \cup {NewHandle} |->
                            IF h = NewHandle THEN l ELSE @[h]]]
  /\ ExtensionCall /\ UNCHANGED <<varjoDepth, spinning>>

\* The loop does not advance past a layer that is another one.
xrDestroyPassthroughLayerFB(h) ==
  /\ IF IndexOf(h) = 1
     THEN /\ fbPassthrough' = [fbPassthrough EXCEPT !.layers = Tail(@)]
          /\ asked' = [asked EXCEPT !.layers = Restrict(@, DOMAIN @ \ {h})]
          /\ UNCHANGED spinning
     ELSE /\ spinning' = TRUE
          /\ UNCHANGED <<fbPassthrough, asked>>
  /\ ExtensionCall /\ UNCHANGED varjoDepth

\* xrPassthroughLayerPauseFB, xrPassthroughLayerResumeFB and
\* xrPassthroughLayerSetStyleFB.
ChangeLayer(h, field, value) ==
  /\ fbPassthrough' =
       [fbPassthrough EXCEPT !.layers[IndexOf(h)].settings[field] = value]
  /\ asked' = [asked EXCEPT !.layers[h][field] = value]
  /\ ExtensionCall /\ UNCHANGED <<varjoDepth, spinning>>

xrPassthroughLayerPauseFB(h) == ChangeLayer(h, "started", FALSE)
xrPassthroughLayerResumeFB(h) == ChangeLayer(h, "started", TRUE)
xrPassthroughLayerSetStyleFB(h) == \E style \in {0, 1} : ChangeLayer(h, "style", style)

-----------------------------------------------------------------------------
(***************************************************************************)
(* xrEndFrame.  The application submits a list of composition layers; each *)
(* is the passthrough layer with a handle, or a projection layer, which    *)
(* may have the flag that makes its alpha count.                           *)
(***************************************************************************)
Underlay(h) == [handle |-> h, alpha |-> FALSE]
Projection(alpha) == [handle |-> 0, alpha |-> alpha]

Submissions ==
  LET H == DOMAIN asked.layers
  IN  {<<Projection(a)>> : a \in BOOLEAN}
        \cup {<<Underlay(h), Projection(TRUE)>> : h \in H}
        \cup {<<Projection(FALSE), Underlay(h), Projection(TRUE)>> : h \in H}
        \cup {<<Underlay(p[1]), Underlay(p[2]), Projection(TRUE)>> : p \in H \X H}
        \cup {<<Projection(TRUE), Underlay(h)>> : h \in H}

\* Whether passthrough by blend mode is on, the modes that are enabled, and
\* whether one is forced.
Setting(on, enabled, force) == [on |-> on, enabled |-> enabled, force |-> force]
Settings ==
  {Setting(on, {"alpha", "additive"}, "alpha") : on \in BOOLEAN}
    \cup {Setting(p[1], p[2], "no") : p \in BOOLEAN \X SUBSET {"alpha", "additive"}}

\* xrEnumerateEnvironmentBlendModes: the modes offered, also when passthrough
\* by them is off.  It sorts them by the user's preference, on which nothing
\* here depends.
BlendModes(setting) == setting.enabled \cup {"opaque"}

\* A frame submitted, by an application that uses a mode it was offered.  One
\* that is to draw is enough where the images are what matters.
Frames ==
  IF scope = "images"
  THEN {[layers |-> <<Projection(FALSE)>>, blendMode |-> "additive",
         setting |-> Setting(TRUE, {"alpha", "additive"}, "no")]}
  ELSE UNION {[layers : Submissions, blendMode : BlendModes(setting),
               setting : {setting}] : setting \in Settings}

\* IsBlendModeEnabled.
IsBlendModeEnabled(frame, projection) ==
  /\ frame.setting.on
  /\ \/ frame.setting.force # "no"
     \/ /\ frame.blendMode \in frame.setting.enabled
        /\ frame.blendMode = "alpha" => projection.alpha

\* The application counts on the modes it was offered.
AskedBlendMode(frame, projection) ==
  \/ frame.setting.force # "no"
  \/ frame.blendMode = "additive"
  \/ frame.blendMode = "alpha" /\ projection.alpha

\* The passthrough layers of the list below its layer i, of those running.
Under(list, running, i) == {j \in 1 .. i - 1 : list[j].handle \in DOMAIN running}

\* Whether one of them is to show through layer i.
ByLayer(list, running, i) == Under(list, running, i) # {} /\ list[i].alpha

\* The settings of passthrough for layer i: those of the last layer below it.
FBSettings(list, running, i) ==
  IF ByLayer(list, running, i) THEN running[list[Max(Under(list, running, i))].handle]
  ELSE [depth |-> FALSE, style |-> 0]

\* What xrEndFrame draws, and RenderPassthroughOnAppLayer's choice of how, when
\* the blend mode is enabled for these of the layers of the frame, and these are
\* the settings of the passthrough layers that are running.
Drawing(frame, enabled, running, varjo) ==
  LET list == frame.layers
      able == {i \in DOMAIN list : /\ list[i].handle = 0
                                   /\ i \in enabled \/ ByLayer(list, running, i)}
  IN  IF able = {} THEN Nothing
      ELSE LET i == Min(able)
               fb == FBSettings(list, running, i)
               mode == IF frame.setting.force # "no" THEN frame.setting.force
                       ELSE IF ByLayer(list, running, i) THEN "alpha" ELSE frame.blendMode
           IN  [layer |-> i, mode |-> mode, style |-> fb.style,
                depth |-> fb.depth \/ (varjo /\ mode = "alpha")]

\* The layers the code finds running, the first with a handle being the one.
Running ==
  IF ~fbPassthrough.started THEN <<>>
  ELSE LET started == {h \in {l.handle : l \in ToSet(fbPassthrough.layers)} :
                         fbPassthrough.layers[IndexOf(h)].settings.started}
       IN  [h \in started |-> fbPassthrough.layers[IndexOf(h)].settings]

\* The layers that are running as the application sees it.
AskedRunning ==
  IF ~asked.started THEN <<>>
  ELSE Restrict(asked.layers, {h \in DOMAIN asked.layers : asked.layers[h].started})

\* While a reset of the renderer is pending, nothing is drawn and the system is
\* not told of the frame.
EndFrame ==
  /\ inSession
  /\ \/ shown' = NotShown
     \/ \E frame \in Frames :
          LET list == frame.layers
              draws == usePassthrough /\ beginframeCalled
              enabled == {i \in DOMAIN list : IsBlendModeEnabled(frame, list[i])}
              askedFor == {i \in DOMAIN list : AskedBlendMode(frame, list[i])}
              What(drawing) == IF draws THEN drawing ELSE Nothing
          IN  shown' = [drawn |-> What(Drawing(frame, enabled, Running, varjoDepth)),
                        asked |-> What(Drawing(frame, askedFor, AskedRunning, asked.varjo)),
                        byLayers |-> What(Drawing(frame, {}, AskedRunning, asked.varjo)),
                        staysActive |-> fbPassthrough.started,
                        started |-> asked.started,
                        varjoLeftOver |-> varjoDepth # asked.varjo,
                        modesOff |-> ~frame.setting.on]
  /\ xrEndFrame
  /\ drawn' # {} => shown'.drawn # Nothing
  /\ UNCHANGED <<scope, sessions, inSession, extensionVars, spinning>>

BeginFrame ==
  /\ inSession
  /\ xrBeginFrame
  /\ shown' = NotShown
  /\ UNCHANGED <<scope, sessions, inSession, extensionVars, spinning>>

LayerNext ==
  /\ ~spinning
  /\ \/ xrCreateSession \/ xrDestroySession
     \/ \E s \in Swapchain : SwapchainCall(s)
     \/ BeginFrame \/ EndFrame
     \/ xrSetEnvironmentDepthEstimationVARJO
     \/ xrCreatePassthroughFB \/ xrDestroyPassthroughFB
     \/ \E start \in BOOLEAN : xrPassthroughStartFB(start)
     \/ xrCreatePassthroughLayerFB
     \/ \E h \in DOMAIN asked.layers :
          \/ xrDestroyPassthroughLayerFB(h)
          \/ xrPassthroughLayerPauseFB(h)
          \/ xrPassthroughLayerResumeFB(h)
          \/ xrPassthroughLayerSetStyleFB(h)

LayerSpec == LayerInit /\ [][LayerNext]_<<vars, layerVars>>

-----------------------------------------------------------------------------
\* The setting of XR_VARJO_environment_depth_estimation outlives the session it
\* was made in.
VarjoDepthLeftOver == shown.varjoLeftOver

\* The blend modes are offered although the user has switched passthrough by
\* them off.
OffersWhatIsOff == shown.modesOff

\* However the application has created, destroyed, started and styled its
\* passthrough layers, in this session and the ones before, a frame is drawn as
\* if the layer knew just what the application knows: the mode it submits, of
\* those it was offered, is honoured, and while they are switched off its
\* passthrough layers still are.  And "never consider idle as long as FB
\* passthrough is unpaused".
DrawsWhatWasAsked ==
  /\ shown.drawn # (IF OffersWhatIsOff THEN shown.byLayers ELSE shown.asked)
       => VarjoDepthLeftOver
  /\ shown.started => shown.staysActive
=============================================================================
