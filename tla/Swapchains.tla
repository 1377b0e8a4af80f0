----------------------------- MODULE Swapchains -----------------------------
(***************************************************************************)
(* How the layer stands between an application and the OpenXR runtime for  *)
(* the images of the application's swapchains (layer.cpp).                 *)
(*                                                                         *)
(* The runtime takes the image back when it is released, but passthrough   *)
(* is drawn into it later, in xrEndFrame.  So the layer answers            *)
(* xrReleaseSwapchainImage itself, holds the image, and releases it to the *)
(* runtime in xrEndFrame, or when the application waits for the next image *)
(* of that swapchain.                                                      *)
(*                                                                         *)
(* The application is one that follows the OpenXR rules as far as it can   *)
(* see.  One call of the application is one step: the layer relies on the  *)
(* calls not overlapping.                                                  *)
(*                                                                         *)
(* A session takes its swapchains with it, without a call for each; what   *)
(* the layer has noted of them stays, and is taken for that of a later     *)
(* swapchain with the same handle.                                         *)
(***************************************************************************)
EXTENDS Integers, Sequences, SequencesExt

CONSTANTS
  Swapchain,  \* handles a swapchain may have
  NumImages   \* images of each swapchain

ASSUME NumImagesAssumption == NumImages \in Nat \ {0}

VARIABLES
  runtime,           \* each swapchain, as the runtime sees it
  app,               \* each swapchain, as the application sees it
  alive,             \* the handles that are those of a swapchain
  tracked,           \* the keys of m_swapchainProperties
  acquired,          \* m_acquiredSwapchains
  waited,            \* m_waitedSwapchains, FALSE where there is no entry
  held,              \* m_heldSwapchains, empty where there is no entry
  usePassthrough,    \* m_bUsePassthrough
  beginframeCalled,  \* m_bBeginframeCalled
  drawn,             \* what the last xrEndFrame drew into
  rejected,          \* of which the last call made the runtime refuse a wait
                     \* or a release
  leftAcquired,      \* where m_acquiredSwapchains has, and m_heldSwapchains
  leftHeld           \* has, images of a swapchain that its session took

leftVars == <<leftAcquired, leftHeld>>
vars == <<runtime, app, alive, tracked, acquired, waited, held, usePassthrough,
          beginframeCalled, drawn, rejected, leftVars>>

Image == 0..(NumImages - 1)

-----------------------------------------------------------------------------
(* The rules of OpenXR for one swapchain: the images acquired and not yet  *)
(* released, the oldest first, and whether that one has been waited for.   *)

Unused == [images |-> << >>, waited |-> FALSE]

Acquirable(w) == Len(w.images) < NumImages
Waitable(w) == w.images # << >> /\ ~w.waited
Releasable(w) == w.images # << >> /\ w.waited

Acquire(w, i) == [images |-> Append(w.images, i), waited |-> w.waited]
Wait(w) == [images |-> w.images, waited |-> TRUE]
Release(w) == [images |-> Tail(w.images), waited |-> FALSE]

\* What a release call leaves, which the runtime may have to refuse.
AfterRelease(w) == IF Releasable(w) THEN Release(w) ELSE w

-----------------------------------------------------------------------------
Init ==
  /\ runtime = [s \in Swapchain |-> Unused]
  /\ app = [s \in Swapchain |-> Unused]
  /\ alive = {}
  /\ tracked = {}
  /\ acquired = [s \in Swapchain |-> << >>]
  /\ waited = [s \in Swapchain |-> FALSE]
  /\ held = [s \in Swapchain |-> << >>]
  /\ usePassthrough \in BOOLEAN  \* xrCreateSession reads the configuration
  /\ beginframeCalled = FALSE
  /\ drawn = {}
  /\ rejected = {}
  /\ leftAcquired = {} /\ leftHeld = {}

frameVars == <<usePassthrough, beginframeCalled, drawn>>

\* An operator named after another one with a suffix is that one with a slip:
\* the properties below are stated so that each slip breaks one of them.

xrCreateSwapchain(s) ==
  /\ s \notin alive
  /\ alive' = alive \cup {s}
  /\ tracked' = tracked \cup {s}
  /\ rejected' = {}
  /\ UNCHANGED <<runtime, app, acquired, waited, held, frameVars, leftVars>>

xrDestroySwapchainHeld(s) ==
  /\ s \in alive
  /\ alive' = alive \ {s}
  /\ tracked' = tracked \ {s}
  /\ acquired' = [acquired EXCEPT ![s] = << >>]
  /\ waited' = [waited EXCEPT ![s] = FALSE]
  /\ runtime' = [runtime EXCEPT ![s] = Unused]
  /\ app' = [app EXCEPT ![s] = Unused]
  /\ leftAcquired' = leftAcquired \ {s} /\ leftHeld' = leftHeld \ {s}
  /\ rejected' = {}
  /\ UNCHANGED <<held, frameVars>>

\* The handle may come back as that of another swapchain.
xrDestroySwapchain(s) ==
  /\ s \in alive
  /\ alive' = alive \ {s}
  /\ tracked' = tracked \ {s}
  /\ acquired' = [acquired EXCEPT ![s] = << >>]
  /\ waited' = [waited EXCEPT ![s] = FALSE]
  /\ held' = [held EXCEPT ![s] = << >>]
  /\ runtime' = [runtime EXCEPT ![s] = Unused]
  /\ app' = [app EXCEPT ![s] = Unused]
  /\ leftAcquired' = leftAcquired \ {s} /\ leftHeld' = leftHeld \ {s}
  /\ rejected' = {}
  /\ UNCHANGED frameVars

\* xrDestroySession: the swapchains are gone, and the layer has been told of
\* none of them.
EndSession ==
  /\ runtime' = [s \in Swapchain |-> Unused]
  /\ app' = [s \in Swapchain |-> Unused]
  /\ alive' = {}
  /\ leftAcquired' = {s \in Swapchain : acquired[s] # << >>}
  /\ leftHeld' = {s \in Swapchain : held[s] # << >>}
  /\ rejected' = {}
  /\ UNCHANGED <<tracked, acquired, waited, held, frameVars>>

\* The runtime picks an image that is not in use.  It has to refuse when the
\* image the layer holds is the one that is missing; the application gets the
\* error and the layer notes nothing.
xrAcquireSwapchainImage(s) ==
  /\ s \in alive
  /\ Acquirable(app[s])
  /\ Acquirable(runtime[s])
  /\ \E i \in Image :
       /\ i \notin ToSet(runtime[s].images)
       /\ runtime' = [runtime EXCEPT ![s] = Acquire(@, i)]
       /\ app' = [app EXCEPT ![s] = Acquire(@, i)]
       /\ acquired' = [acquired EXCEPT ![s] = Append(@, i)]
  /\ waited' = [waited EXCEPT ![s] = @ /\ acquired[s] # << >>]
  /\ rejected' = {}
  /\ UNCHANGED <<alive, tracked, held, frameVars, leftVars>>

xrWaitSwapchainImageHeld(s) ==
  /\ s \in alive
  /\ Waitable(app[s])
  /\ rejected' = IF Waitable(runtime[s]) THEN {} ELSE {s}
  /\ runtime' = [runtime EXCEPT ![s] = Wait(@)]
  /\ app' = [app EXCEPT ![s] = Wait(@)]
  /\ waited' = [waited EXCEPT ![s] = TRUE]
  /\ UNCHANGED <<alive, tracked, acquired, held, frameVars, leftVars>>

\* A held image is given back first.  A wait that times out is a success to
\* the layer, and the application waits again.
xrWaitSwapchainImage(s) ==
  /\ s \in alive
  /\ Waitable(app[s])
  /\ LET mustRelease == held[s] # << >>
         ready == IF mustRelease THEN AfterRelease(runtime[s]) ELSE runtime[s]
     IN /\ held' = [held EXCEPT ![s] = IF mustRelease THEN Tail(@) ELSE @]
        /\ rejected' = IF /\ mustRelease => Releasable(runtime[s])
                          /\ Waitable(ready)
                       THEN {} ELSE {s}
        /\ \E inTime \in BOOLEAN :
             IF inTime /\ Waitable(ready)
             THEN /\ runtime' = [runtime EXCEPT ![s] = Wait(ready)]
                  /\ app' = [app EXCEPT ![s] = Wait(@)]
             ELSE /\ runtime' = [runtime EXCEPT ![s] = ready]
                  /\ UNCHANGED app
        /\ waited' = [waited EXCEPT ![s] = @ \/ Waitable(ready)]
  /\ leftHeld' = leftHeld \ {s}
  /\ UNCHANGED <<alive, tracked, acquired, frameVars, leftAcquired>>

xrReleaseSwapchainImageUnpopped(s) ==
  /\ s \in alive
  /\ Releasable(app[s])
  /\ acquired[s] # << >> /\ usePassthrough /\ waited[s]
  /\ app' = [app EXCEPT ![s] = Release(@)]
  /\ waited' = [waited EXCEPT ![s] = FALSE]
  /\ held' = [held EXCEPT ![s] = Append(@, Head(acquired[s]))]
  /\ rejected' = {}
  /\ UNCHANGED <<runtime, acquired, alive, tracked, frameVars, leftVars>>

\* Delay the release until passthrough has been drawn, unless it is disabled
\* or the image was not waited for.
xrReleaseSwapchainImage(s) ==
  /\ s \in alive
  /\ Releasable(app[s])
  /\ app' = [app EXCEPT ![s] = Release(@)]
  /\ acquired' = [acquired EXCEPT ![s] = IF @ # << >> THEN Tail(@) ELSE @]
  /\ IF acquired[s] # << >> /\ usePassthrough /\ waited[s]
     THEN /\ waited' = [waited EXCEPT ![s] = FALSE]
          /\ held' = [held EXCEPT ![s] = Append(@, Head(acquired[s]))]
          /\ rejected' = {}
          /\ UNCHANGED runtime
     ELSE /\ runtime' = [runtime EXCEPT ![s] = AfterRelease(@)]
          /\ rejected' = IF Releasable(runtime[s]) THEN {} ELSE {s}
          /\ UNCHANGED <<waited, held>>
  /\ UNCHANGED <<alive, tracked, frameVars, leftVars>>

\* The setting may change with every frame.  The runtime may discard the
\* frame that was begun before, which is not XR_SUCCESS.
xrBeginFrame ==
  /\ usePassthrough' \in BOOLEAN
  /\ beginframeCalled' \in {beginframeCalled, TRUE}
  /\ drawn' = {}
  /\ rejected' = {}
  /\ UNCHANGED <<runtime, app, alive, tracked, acquired, waited, held, leftVars>>

\* The held images of the swapchains in S are released and the others are
\* forgotten.  One release call for each image: only the first can be in order.
ReleaseHeld(S) ==
  /\ held' = [s \in Swapchain |-> << >>]
  /\ runtime' = [s \in Swapchain |->
                   IF s \in S /\ held[s] # << >>
                   THEN AfterRelease(runtime[s]) ELSE runtime[s]]
  /\ waited' = [s \in Swapchain |-> waited[s] /\ held[s] = << >>]
  /\ rejected' = {s \in S : /\ held[s] # << >>
                            /\ Len(held[s]) > 1 \/ ~Releasable(runtime[s])}

ReleaseHeldSwapchainImagesDrawn == ReleaseHeld({d[1] : d \in drawn'})
ReleaseHeldSwapchainImages == ReleaseHeld(Swapchain)

\* What UpdateSwapchains finds to draw into: the last image held of each
\* eye's swapchain, and nothing when one of them has none.
RenderTargetsAcquired(eyes) ==
  IF \A s \in eyes : s \in tracked /\ acquired[s] # << >>
  THEN {<<s, Last(acquired[s])>> : s \in eyes} ELSE {}
RenderTargets(eyes) ==
  IF \A s \in eyes : s \in tracked /\ held[s] # << >>
  THEN {<<s, Last(held[s])>> : s \in eyes} ELSE {}

\* The eyes' swapchains are those of the projection layer the application
\* submits.  Whether it asks for passthrough, and whether there is a camera
\* frame to draw, is left open.
xrEndFrame ==
  /\ \/ drawn' = {}
     \/ /\ usePassthrough /\ beginframeCalled
        /\ \E left, right \in alive : drawn' = RenderTargets({left, right})
  /\ beginframeCalled' = FALSE
  /\ ReleaseHeldSwapchainImages
  /\ leftHeld' = {}
  /\ UNCHANGED <<app, alive, tracked, acquired, usePassthrough, leftAcquired>>

Next ==
  \/ \E s \in Swapchain :
       \/ xrCreateSwapchain(s)
       \/ xrDestroySwapchain(s)
       \/ xrAcquireSwapchainImage(s)
       \/ xrWaitSwapchainImage(s)
       \/ xrReleaseSwapchainImage(s)
  \/ xrBeginFrame
  \/ xrEndFrame
  \/ EndSession

Spec == Init /\ [][Next]_vars

-----------------------------------------------------------------------------
(* Properties.                                                             *)

Window == [images : Seq(Image), waited : BOOLEAN]

\* Types of the variables; and no record of the layer outgrows the swapchain,
\* unless a session has left something in it.
TypeOK ==
  /\ runtime \in [Swapchain -> Window]
  /\ app \in [Swapchain -> Window]
  /\ alive \subseteq tracked
  /\ tracked \in SUBSET Swapchain
  /\ acquired \in [Swapchain -> Seq(Image)]
  /\ held \in [Swapchain -> Seq(Image)]
  /\ \A s \in Swapchain \ (leftAcquired \cup leftHeld) :
       Len(acquired[s]) + Len(held[s]) <= NumImages
  /\ waited \in [Swapchain -> BOOLEAN]
  /\ usePassthrough \in BOOLEAN
  /\ beginframeCalled \in BOOLEAN
  /\ drawn \subseteq Swapchain \X Image
  /\ rejected \subseteq Swapchain
  /\ leftAcquired \subseteq Swapchain
  /\ leftHeld \subseteq Swapchain

\* The layer owes the runtime a release: the image it holds is one of the
\* swapchain that has the handle now.
Owed(s) == held[s] # << >> /\ s \notin leftHeld

\* The layer owes the runtime an image just when the runtime has one acquired
\* that the application has released: none gets lost between the two,
\* whenever passthrough is switched on or off and whenever sessions end.  And
\* the layer knows which images those are, unless a session has left others
\* in its queue.
RuntimeInSync ==
  \A s \in Swapchain :
    /\ IF Owed(s) THEN /\ runtime[s].images # << >>
                       /\ Tail(runtime[s].images) = app[s].images
       ELSE runtime[s].images = app[s].images
    /\ runtime[s].waited <=> Owed(s) \/ app[s].waited
    /\ s \notin leftAcquired =>
         /\ acquired[s] = app[s].images
         /\ Owed(s) => held[s] = <<Head(runtime[s].images)>>

\* "in order to comply to spec": as long as the application follows the
\* order of calls OpenXR asks for, so does what the layer makes of them.  The
\* runtime has no wait to refuse, and no release but that of an image held
\* for a swapchain that its session took.
NothingRejected == [][rejected' \subseteq leftHeld]_vars

\* At most one image of a swapchain is held, and never while the application
\* has waited for the next one.
OneHeld ==
  \A s \in Swapchain :
    held[s] # << >> => Len(held[s]) = 1 /\ ~app[s].waited

\* Passthrough is drawn only into an image that the runtime has handed over
\* and that has not been released to it: into the one it will show next.  Not
\* so where a session has left images under the handle, which are then drawn
\* into as if they were those of the new swapchain.
DrawsOnWaitedImage ==
  [][\A d \in drawn' \ drawn : d[1] \notin leftHeld =>
       /\ Releasable(runtime[d[1]])
       /\ d[1] \notin leftAcquired => Head(runtime[d[1]].images) = d[2]]_vars
=============================================================================
