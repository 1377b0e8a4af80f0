---------------------------- MODULE InlineRenderer ---------------------------
(***************************************************************************)
(* How a frame of the application gets its passthrough: from xrEndFrame in *)
(* layer.cpp, which finds out which images are to be drawn into, to the    *)
(* GPU queues, which draw.  There is an inline renderer for each graphics  *)
(* API an application can use:                                             *)
(*                                                                         *)
(*   "D3D11", "D3D12"  draws into the application's images;                *)
(*   "VulkanLegacy"    too, with command buffers of its own;               *)
(*   "Vulkan"          copies the images into textures that Direct3D 11    *)
(*                     shares, draws there, and copies them back;          *)
(*   "OpenGL"          the same without command buffers.                   *)
(*                                                                         *)
(* The last two hand the textures over between the application's queue and *)
(* that of Direct3D 11 by a semaphore which counts up.                     *)
(*                                                                         *)
(* One call of xrEndFrame is one step, for nothing else runs on its thread *)
(* and a GPU only gets ahead; what the queues execute are steps of theirs. *)
(* The application gets an image only when no queue works on it any more,  *)
(* which is what xrWaitSwapchainImage is for.                              *)
(***************************************************************************)
EXTENDS Integers, Sequences, FiniteSets, SequencesExt

CONSTANTS
  Setups,          \* the graphics APIs and layers a run covers
  Handle,          \* handles a swapchain may have
  NUM_SWAPCHAINS,  \* images of a swapchain, and most that are supported
  LastFrame,       \* bound: frames that are submitted
  MaxSwapchains,   \* bound: swapchains that are created
  MaxTakeovers,    \* bound: frames that change a swapchain
  MaxFailures,     \* bound: things that fail
  MaxResets        \* bound: resets of the renderer and new sessions

Api == {"D3D11", "D3D12", "VulkanLegacy", "Vulkan", "OpenGL"}

\* The right eye has a depth image as well, which is treated like the left's,
\* and a setup may leave the right eye out, for what becomes of an attachment
\* depends on another one only where Vulkan goes by the index of the left.
Attachment == {"left", "right", "depth"}

ASSUME SetupsAssumption ==
  \A s \in Setups :
    /\ s.api \in Api
    /\ s.attachments \subseteq Attachment /\ "left" \in s.attachments
    /\ s.api = "VulkanLegacy" => "depth" \notin s.attachments
ASSUME HandleAssumption == "none" \notin Handle
ASSUME NumSwapchainsAssumption == NUM_SWAPCHAINS \in Nat \ {0}

VARIABLES
  api, attachments,  \* chosen for the whole behaviour
  swapchain,         \* the swapchain that has each handle
  created,           \* number of swapchains there have been
  stored,            \* m_swapChainLeft, m_swapChainRight, m_depthSwapChainLeft
  named,             \* m_swapchainsLeft and so on: images to copy
  local,             \* m_localRendertargetsLeft and so on: shared textures
  target,            \* renderTarget.Texture of m_viewData, m_renderTargets
  commandIndex,      \* m_frameIndex of the legacy renderer
  semaphoreValue,    \* m_semaphoreValue
  signalled,         \* the value of the semaphore
  completed,         \* whether m_vulkanRenderCompleteFence is signalled
  appQueue,          \* what the application's queue has yet to execute
  d3dQueue,          \* and the queue of Direct3D 11
  picture,           \* what textures in use show
  frame,             \* number of the last frame
  shown,             \* what became of the last frame that was executed
  takeovers, failures, resets,
  reused,            \* attachments whose stored handle was given out again
  broken,            \* targets that could not be made
  abandoned,         \* whether a reset kept a frame from being executed
  timedOut           \* whether a reset waited 10 ms in vain

layer == <<api, attachments, swapchain, created, stored, reused>>
tables == <<named, local, target, broken>>
semaphore == <<semaphoreValue, signalled, completed>>
gpu == <<appQueue, d3dQueue, picture, shown>>
counters == <<takeovers, failures, resets>>
resetting == <<abandoned, timedOut>>
vars == <<layer, tables, commandIndex, semaphore, gpu, frame, counters, resetting>>

-----------------------------------------------------------------------------
NoHandle == "none"
NoSwapchain == 0
NoTexture == << >>
NoBuffer == -1

Index == 0..(NUM_SWAPCHAINS - 1)

Image(s, i) == <<s, i>>
SharedTexture(n, a, i) == <<n, a, i>>

Shares == api \in {"Vulkan", "OpenGL"}

Table(t) == [a \in attachments |-> [i \in Index |-> t]]

\* Where each of the images of a layer is taken from and which one it is.
Views == {v \in [attachments -> Handle] :
            "depth" \in attachments => v["depth"] # v["left"]}
Images == [Handle -> Index]

\* What a queue executes: drawing and copying, between a wait for a value of
\* the semaphore and a signal of another (0 for none).  The last job of a frame
\* says what to expect of it: the images it is for, whether it was drawn, and
\* whether there is a reason to expect nothing.
Job == [draws |-> {}, copies |-> {}, wait |-> 0, signal |-> 0,
        buffer |-> NoBuffer, source |-> NoSwapchain, last |-> FALSE,
        frame |-> 0, goal |-> {}, drawn |-> FALSE, spoiled |-> FALSE]

Init ==
  /\ \E s \in Setups : api = s.api /\ attachments = s.attachments
  /\ swapchain = [h \in Handle |-> NoSwapchain]
  /\ created = 0
  /\ stored = [a \in attachments |-> NoHandle]
  /\ named = Table(NoTexture)
  /\ local = Table(NoTexture)
  /\ target = Table(NoTexture)
  /\ commandIndex = 0
  /\ semaphoreValue = 1 /\ signalled = 1 /\ completed = FALSE
  /\ appQueue = << >> /\ d3dQueue = << >>
  /\ picture = << >>
  /\ frame = 0
  /\ shown = [frame |-> 0, drawn |-> FALSE, spoiled |-> FALSE, pictures |-> {}]
  /\ takeovers = 0 /\ failures = 0 /\ resets = 0
  /\ reused = {} /\ broken = {}
  /\ abandoned = FALSE /\ timedOut = FALSE

-----------------------------------------------------------------------------
(* The application's swapchains.                                           *)

xrCreateSwapchain(h) ==
  /\ swapchain[h] = NoSwapchain
  /\ created < MaxSwapchains
  /\ swapchain' = [swapchain EXCEPT ![h] = created + 1]
  /\ created' = created + 1
  /\ reused' = reused \cup {a \in attachments : stored[a] = h}
  /\ UNCHANGED <<api, attachments, stored, tables, commandIndex, semaphore,
                 gpu, frame, counters, resetting>>

\* Textures the queues work on.
Touched(job) == job.draws \cup UNION {{c[1], c[2]} : c \in job.copies}
Pending == ToSet(appQueue) \cup ToSet(d3dQueue)
Busy == UNION {Touched(job) : job \in Pending}

\* OpenXR wants no queue to use the images any more.
xrDestroySwapchain(h) ==
  /\ swapchain[h] # NoSwapchain
  /\ \A i \in Index : Image(swapchain[h], i) \notin Busy
  /\ swapchain' = [swapchain EXCEPT ![h] = NoSwapchain]
  /\ UNCHANGED <<api, attachments, created, stored, reused, tables,
                 commandIndex, semaphore, gpu, frame, counters, resetting>>

-----------------------------------------------------------------------------
(* UpdateSwapchains.                                                       *)

\* The attachments whose swapchain is another one than before, except where
\* the runtime does not list its images.
Taken(views, refused) ==
  {a \in attachments \ refused : views[a] # stored[a]}

StoreSwapchains(views, taken) ==
  stored' = [a \in attachments |-> IF a \in taken THEN views[a] ELSE stored[a]]

\* The texture shared by Direct3D 11 and the other API, in place of an earlier
\* one: it is new even if the swapchain is not.  When it cannot be made there is
\* none to copy to, except that the earlier one stays in use if it was Direct3D
\* that failed, which is left out.
CreateLocalTextureVulkan(a, i, fails) ==
  IF fails THEN NoTexture ELSE SharedTexture(takeovers + 1, a, i)

CreateLocalTextureOpenGL(a, i, fails) ==
  IF fails THEN NoTexture ELSE SharedTexture(takeovers + 1, a, i)

CreateLocalTexture(a, i, fails) ==
  IF api = "Vulkan" THEN CreateLocalTextureVulkan(a, i, fails)
  ELSE IF api = "OpenGL" THEN CreateLocalTextureOpenGL(a, i, fails)
  ELSE local[a][i]

\* What Direct3D 11 gets to draw into: the image or the shared texture.
Wrapped(a, i, image, fails) ==
  IF Shares THEN CreateLocalTexture(a, i, fails) ELSE image

\* A view that cannot be made leaves the slot with the one before.
ColorView(a, i, texture, fails) == IF fails THEN target[a][i] ELSE texture
DepthView(a, i, texture, fails) == IF fails THEN target[a][i] ELSE texture

\* The legacy renderer keeps the view of an image it knows, and destroys any
\* other one before it makes the new one.
LegacyView(a, i, image, fails) ==
  IF fails /\ target[a][i] # image THEN NoTexture ELSE image

InitRenderTarget(a, i, image, fails) ==
  IF api = "VulkanLegacy" THEN LegacyView(a, i, image, fails)
  ELSE ColorView(a, i, Wrapped(a, i, image, fails), fails)

InitDepthBuffer(a, i, image, fails) ==
  DepthView(a, i, Wrapped(a, i, image, fails), fails)

\* The tables once the swapchains that were taken over are through.
InitTargets(views, taken, failing) ==
  LET NewImage(a, i) == Image(swapchain[views[a]], i)
      NewTarget(a, i) ==
        LET fails == <<a, i>> \in failing
        IN  IF a = "depth" THEN InitDepthBuffer(a, i, NewImage(a, i), fails)
            ELSE InitRenderTarget(a, i, NewImage(a, i), fails)
      NewLocal(a, i) == CreateLocalTexture(a, i, <<a, i>> \in failing)
      Refill(table, New(_, _)) ==
        [a \in attachments |->
           IF a \in taken THEN [i \in Index |-> New(a, i)] ELSE table[a]]
  IN  /\ target' = Refill(target, NewTarget)
      /\ local' = Refill(local, NewLocal)
      /\ named' = IF Shares THEN Refill(named, NewImage) ELSE named
      /\ broken' = {b \in broken : b[1] \notin taken} \cup
                     {b \in failing : b[1] \in taken}

-----------------------------------------------------------------------------
(* RenderPassthroughFrame of the renderers: what is submitted.  A renderer *)
(* may give a frame up, for lack of a camera image for example.            *)

\* Vulkan goes by the index of the left image alone.
CopyIndex(index, a) == IF api = "Vulkan" THEN index["left"] ELSE index[a]

\* The pairs of images and shared textures of a frame.
Copies(index) ==
  {c \in {<<named'[a][CopyIndex(index, a)], local'[a][CopyIndex(index, a)]>> :
            a \in attachments} : NoTexture \notin {c[1], c[2]}}

Back(copies) == {<<c[2], c[1]>> : c \in copies}

Targets(index) == {target'[a][index[a]] : a \in attachments} \ {NoTexture}

CopyInVulkan(index) ==
  [Job EXCEPT !.copies = Copies(index), !.signal = semaphoreValue + 1,
              !.buffer = index["left"]]

CopyOutVulkan(index, whole) ==
  [whole EXCEPT !.copies = Back(Copies(index)), !.wait = semaphoreValue + 2,
                !.buffer = index["left"] + NUM_SWAPCHAINS]

CopyInOpenGL(index) ==
  [Job EXCEPT !.copies = Copies(index), !.signal = semaphoreValue + 1]

CopyOutOpenGL(index, whole) ==
  [whole EXCEPT !.copies = Back(Copies(index)), !.wait = semaphoreValue + 2]

\* A slip: who gives a frame up signals nothing.
DrawOrReturn(index, drawn) ==
  [Job EXCEPT !.draws = IF drawn THEN Targets(index) ELSE {},
              !.wait = semaphoreValue + 1,
              !.signal = IF drawn THEN semaphoreValue + 2 ELSE 0]

\* The values are counted up and signalled whether or not the frame was given
\* up in between.
Draw(index, drawn) ==
  [Job EXCEPT !.draws = IF drawn THEN Targets(index) ELSE {},
              !.wait = semaphoreValue + 1, !.signal = semaphoreValue + 2]

\* A command buffer recorded again while a queue has yet to execute it: what
\* it was recorded for first does not happen.  The application must have
\* changed its swapchains, or the legacy renderer have given up a frame, for
\* the images come round no faster than the buffers otherwise.
Record(queue, job) ==
  LET changed == \E k \in DOMAIN queue : queue[k].source # job.source
      Lost(j) ==
        [j EXCEPT !.copies = {}, !.draws = {},
                  !.spoiled = @ \/ changed \/ failures > 0]
      Kept(j) ==
        IF job.buffer # NoBuffer /\ j.buffer = job.buffer THEN Lost(j) ELSE j
  IN  Append([k \in DOMAIN queue |-> Kept(queue[k])], job)

DrawDirectly(index, whole, buffer) ==
  /\ appQueue' = IF whole.drawn
                 THEN Record(appQueue, [whole EXCEPT !.draws = Targets(index),
                                                     !.buffer = buffer])
                 ELSE appQueue
  /\ UNCHANGED <<d3dQueue, semaphoreValue, completed>>

DrawShared(index, whole, copyIn, copyOut) ==
  /\ appQueue' = Record(Record(appQueue, [copyIn EXCEPT !.source = whole.source]),
                        copyOut)
  /\ d3dQueue' = Append(d3dQueue, Draw(index, whole.drawn))
  /\ semaphoreValue' = semaphoreValue + 2

RenderLegacy(index, whole) ==
  /\ DrawDirectly(index, whole, commandIndex)
  /\ commandIndex' = (commandIndex + 1) % NUM_SWAPCHAINS

RenderD3D11(index, whole) ==
  DrawDirectly(index, whole, NoBuffer) /\ UNCHANGED commandIndex

\* The images are acquired from and released to Direct3D 12 around it.
RenderD3D12(index, whole) ==
  DrawDirectly(index, whole, NoBuffer) /\ UNCHANGED commandIndex

\* vkResetFences is called whatever the fence is in use for.
RenderVulkan(index, whole) ==
  /\ DrawShared(index, whole, CopyInVulkan(index), CopyOutVulkan(index, whole))
  /\ completed' = FALSE
  /\ UNCHANGED commandIndex

RenderOpenGL(index, whole) ==
  /\ DrawShared(index, whole, CopyInOpenGL(index), CopyOutOpenGL(index, whole))
  /\ UNCHANGED <<completed, commandIndex>>

RenderPassthroughFrame(index, whole) ==
  CASE api = "VulkanLegacy" -> RenderLegacy(index, whole)
    [] api = "D3D11" -> RenderD3D11(index, whole)
    [] api = "D3D12" -> RenderD3D12(index, whole)
    [] api = "Vulkan" -> RenderVulkan(index, whole)
    [] api = "OpenGL" -> RenderOpenGL(index, whole)

-----------------------------------------------------------------------------
(* xrEndFrame, for a layer whose images are held.                          *)

\* Reasons not to expect that the images of the frame show its passthrough:
\* a swapchain that goes by the handle of one that is gone, a target that
\* could not be made, and images of Vulkan swapchains that got out of step.
Spoiled(index) ==
  \/ \E a \in attachments : a \in reused' \/ <<a, index[a]>> \in broken'
  \/ \E a \in attachments : index[a] # CopyIndex(index, a)

\* What becomes of the frame: the renderer draws it, or gives it up, or is not
\* called at all, for lack of a camera image or of an image to draw into.
Outcome == {"drawn", "nothing", "not rendered"}

xrEndFrame(views, image, refused, failing, outcome) ==
  LET taken == Taken(views, refused)
      index == [a \in attachments |-> image[views[a]]]
      goal == {Image(swapchain[views[a]], index[a]) : a \in attachments}
      whole == [Job EXCEPT !.last = TRUE, !.frame = frame + 1, !.goal = goal,
                           !.drawn = (outcome = "drawn"),
                           !.spoiled = Spoiled(index),
                           !.source = swapchain[views["left"]]]
      fails == Cardinality(refused) + Cardinality(failing) +
                 (IF refused = {} /\ outcome # "drawn" THEN 1 ELSE 0)
  IN  /\ frame < LastFrame /\ frame' = frame + 1
      /\ \A a \in attachments : swapchain[views[a]] # NoSwapchain
      /\ goal \cap Busy = {}
      /\ failures' = failures + fails /\ failures' <= MaxFailures
      /\ taken # {} => takeovers < MaxTakeovers
      /\ takeovers' = takeovers + IF taken # {} THEN 1 ELSE 0
      /\ StoreSwapchains(views, taken)
      /\ reused' = reused \ taken
      /\ InitTargets(views, taken, failing)
      /\ refused # {} => outcome = "not rendered"
      /\ IF outcome # "not rendered" THEN RenderPassthroughFrame(index, whole)
         ELSE UNCHANGED <<appQueue, d3dQueue, semaphoreValue, completed, commandIndex>>
      /\ LET new == goal \cap UNION {Touched(j) : j \in ToSet(appQueue')}
         IN  picture' = [t \in new \cup DOMAIN picture |->
                           IF t \in new THEN [frame |-> frame', drawn |-> FALSE]
                           ELSE picture[t]]
      /\ UNCHANGED <<api, attachments, swapchain, created, signalled, shown,
                     resets, resetting>>

\* The colour swapchain, if any, whose images the runtime does not list.
Refusable(views) ==
  {{}} \cup {{a} : a \in {b \in attachments \ {"depth"} : views[b] # stored[b]}}

\* That the images of a depth swapchain are not listed is left out.
Submit ==
  \E views \in Views, image \in Images, outcome \in Outcome :
    \E refused \in Refusable(views) :
      \E failing \in {{}} \cup {{<<a, image[views[a]]>>} :
                                  a \in Taken(views, refused)} :
        xrEndFrame(views, image, refused, failing, outcome)

-----------------------------------------------------------------------------
(* What the queues do.                                                     *)

Blank == [frame |-> 0, drawn |-> FALSE]

Picture(t) == IF t \in DOMAIN picture THEN picture[t] ELSE Blank

\* What a texture shows after a job.
After(job, t) ==
  IF t \in job.draws THEN [Picture(t) EXCEPT !.drawn = TRUE]
  ELSE IF \E c \in job.copies : c[2] = t
       THEN Picture((CHOOSE c \in job.copies : c[2] = t)[1])
       ELSE Picture(t)

Execute(job) ==
  LET results == [t \in DOMAIN picture \cup Touched(job) |-> After(job, t)]
  IN  /\ job.wait <= signalled
      /\ signalled' = IF job.signal > 0 THEN job.signal ELSE signalled
      /\ IF job.last
         THEN /\ shown' = [frame |-> job.frame, drawn |-> job.drawn,
                        spoiled |-> job.spoiled,
                        pictures |-> {After(job, t) : t \in job.goal}]
              /\ completed' = (api = "Vulkan")
         ELSE UNCHANGED <<shown, completed>>
      /\ picture' =
           Restrict(results,
                    DOMAIN results \cap
                      UNION {Touched(j) : j \in ToSet(appQueue') \cup ToSet(d3dQueue')})

outside == <<layer, tables, commandIndex, semaphoreValue, frame, counters, resetting>>

ExecuteApp ==
  /\ appQueue # << >> /\ appQueue' = Tail(appQueue)
  /\ UNCHANGED <<d3dQueue, outside>>
  /\ Execute(Head(appQueue))

ExecuteD3D ==
  /\ d3dQueue # << >> /\ d3dQueue' = Tail(d3dQueue)
  /\ UNCHANGED <<appQueue, outside>>
  /\ Execute(Head(d3dQueue))

-----------------------------------------------------------------------------
(* A reset of the renderer that the settings ask for, in an xrEndFrame that *)
(* draws nothing, and a new session.                                       *)

\* A slip: the layer believes that the renderer still has its targets.
KeepSwapchains == UNCHANGED stored

ForgetSwapchains == stored' = [a \in attachments |-> NoHandle]

\* The wait for m_vulkanRenderCompleteFence ends with the last job, or after
\* 10 ms.  What was not executed by then is for textures and a semaphore that
\* are destroyed.
ResetVulkan ==
  /\ \/ (completed \/ Pending = {}) /\ UNCHANGED timedOut
     \/ ~completed /\ Pending # {} /\ timedOut' = TRUE
  /\ abandoned' = (abandoned \/ Pending # {})
  /\ target' = Table(NoTexture) /\ local' = Table(NoTexture)
  /\ appQueue' = << >> /\ d3dQueue' = << >> /\ picture' = << >>

\* The new semaphore starts with 1, though m_semaphoreValue goes on counting.
InitVulkan == signalled' = 1 /\ completed' = FALSE

\* The other renderers destroy nothing that a queue could use.  The legacy
\* renderer keeps its targets and gets new command buffers, the one for
\* Direct3D 11 keeps its targets, too.
ResetOthers ==
  /\ target' = IF api \in {"D3D11", "VulkanLegacy"} THEN target ELSE Table(NoTexture)
  /\ appQueue' = [k \in DOMAIN appQueue |-> [appQueue[k] EXCEPT !.buffer = NoBuffer]]
  /\ UNCHANGED <<local, d3dQueue, picture, signalled, completed, resetting>>

ResetRenderer ==
  /\ resets < MaxResets /\ resets' = resets + 1
  /\ ForgetSwapchains
  /\ reused' = {}
  /\ broken' = {}
  /\ IF api = "Vulkan" THEN ResetVulkan /\ InitVulkan ELSE ResetOthers
  /\ UNCHANGED <<api, attachments, swapchain, created, named, commandIndex,
                 semaphoreValue, shown, frame, takeovers, failures>>

\* xrDestroySession takes the renderer and all swapchains along, but the layer
\* does not forget which ones it had taken over.  xrCreateSession makes a new
\* renderer.  The application has waited for its queue in between.
NewSession ==
  /\ resets < MaxResets /\ resets' = resets + 1
  /\ Pending = {}
  /\ swapchain' = [h \in Handle |-> NoSwapchain]
  /\ named' = Table(NoTexture) /\ local' = Table(NoTexture)
  /\ target' = Table(NoTexture)
  /\ broken' = {}
  /\ commandIndex' = 0
  /\ semaphoreValue' = 1 /\ InitVulkan
  /\ UNCHANGED <<api, attachments, created, stored, reused, gpu, frame,
                 takeovers, failures, resetting>>

Next ==
  \/ \E h \in Handle : xrCreateSwapchain(h) \/ xrDestroySwapchain(h)
  \/ Submit
  \/ ResetRenderer \/ NewSession
  \/ ExecuteApp \/ ExecuteD3D

Spec == Init /\ [][Next]_vars

-----------------------------------------------------------------------------
(* Properties.                                                             *)

\* Once the queues are through with a frame, each image the application
\* submitted shows that frame, and passthrough in it if the renderer did not
\* give the frame up: taking over swapchains in layer.cpp, the tables of the
\* renderer, the copies to and from shared textures and the values of the
\* semaphore work together.  Nothing is claimed of a frame with a target that
\* could not be made, with a swapchain that goes by the handle of one that is
\* gone, with Vulkan images out of step, or whose command buffer was recorded
\* again for other swapchains.
FramesGetTheirPassthrough ==
  ~shown.spoiled =>
    \A p \in shown.pictures : p = [frame |-> shown.frame, drawn |-> shown.drawn]

\* The queues never wait for each other, nor for a value nobody signals,
\* whether or not the renderer gives a frame up half-way, and whatever happens
\* to swapchains, the renderer and the session in between.
CanExecute(queue) == queue # << >> /\ Head(queue).wait <= signalled

QueuesNeverStuck == Pending # {} => CanExecute(appQueue) \/ CanExecute(d3dQueue)

\* passthrough_renderer_dx11_interop.cpp:114: "Wait for queue to complete before
\* freeing objects", which leaves nothing to abandon if the wait is long enough.
ResetWaitsForQueue == abandoned => timedOut
=============================================================================
