# Verification of openxr-steamvr-passthrough in TLA+

The repository is an OpenXR API layer that draws camera passthrough behind an
application's picture, with two programs beside it: a menu that runs as its own
process and a calibration tool. This directory holds TLA+ modules translated
from the C++ source, the TLC configurations that model-check them on small
instances, and theorems about most of those modules that TLAPS proves for every
value of the constants.

Below, `L/` stands for `src/XR_APILAYER_NOVENDOR_steamvr_passthrough/`.

## 1. The system

### Components

| Component | State it keeps | Operations | Modelled |
|---|---|---|---|
| Frame queues, `L/frame_queue.h` | a pool of entries in two vectors, a reader count for each, the references (`FramePtr`) of the threads | acquire read/write, commit, commit and keep reading, rescind, release, manual read | `FrameQueue`, complete |
| Camera managers, `L/camera_manager*.{h,cpp}` | the two queues of GPU and CPU frames, the serve thread's sequence counters and flags, the provider's initialised and paused flags | `InitCamera`, `DeinitCamera`, `SetPaused`, `ServeFrames`, `ServeBlockQueueFrames`, acquire/release of frames | serve threads in `FramePipeline`, start, pause and stop in `PassthroughSystem` |
| Depth reconstruction, `L/depth_reconstruction.*` | the queue of depth frames, the last sequence number it took on | `RunThread`, `GetDepthFrame` | `FramePipeline` |
| Passthrough system, `L/passthrough_system.*` | the frames held for the last two renders, the projection of the last camera frame, which managers and renderers exist, whether cameras are initialised and paused | session setup, `RenderPassthroughOnAppLayer`, pause when idle, reset, shutdown | rendering in `FramePipeline`, the life cycle in `PassthroughSystem` |
| OpenXR layer, `L/layer.cpp` | the images of each swapchain that are acquired, waited for and held; flags of the frame loop | the swapchain calls, `xrBeginFrame`, `xrEndFrame`, session and instance calls, extension calls | swapchains in `Swapchains`; sessions, extensions and the choice of what to draw in `Layer` |
| FB, Varjo and Android extensions, `L/layer.cpp` | handles of passthroughs and passthrough layers, flags | create, destroy, start, pause, resume, style; `xrGetSystemProperties` | FB and Varjo in `Layer` |
| Async renderer and frame decoder, `L/async_renderer.*`, `L/async_frame_decoder.*` | Vulkan device, command buffers and fences, a ring of shared textures, one pipeline | upload, decode, filter disparities | both uses in `AsyncRenderer` |
| Inline renderers, `L/passthrough_renderer_*` | Direct3D or Vulkan objects for each image of the application; histories of filters; a semaphore and a fence between two queues | initialise, take over an image, render a frame, reset | taking over, hand-over and resets in `InlineRenderer`; what a frame draws with in `Renderers` and `RendererVulkan`; passes over a pixel in `Blending` |
| Shaders, `L/shaders/` | – | pixel shaders of each pass | their alpha in `Blending` |
| Menu IPC, `src/shared/menu_ipc*`, `L/menu_handler.*` | named pipes, one write buffer for each, what was sent, pending flags of the configuration | connect, read, write, broadcast, time out, disconnect | the server in `MenuIPC`, the client in `MenuIPCClient` |
| Menu application, `src/passthrough-menu/` | the list of clients and what each reported | callbacks of the IPC server, user interface | the list of clients and its lock in `MenuIPC` |
| Configuration, `src/shared/config_manager.*` | settings and their file, the debug texture | read, write, update flags | the reset flag in `PassthroughSystem`, the debug texture in `Renderers`, the other flags left open in `MenuIPC` |
| OpenVR managers, setup program, calibration program, layer framework, utilities, vendored code | – | – | no: wrappers of external calls, pure I/O, numeric code, generated or third-party code |

### Interaction

```
   camera ──> serve thread ──GPU queue (4)──────────────> render thread ──> runtime
                   │                                        ^     (xrEndFrame)
                   └──CPU queue (3)──> depth thread ──depth queue (4)┘
   serve, depth thread ──jobs──> async renderer's device ──shared textures──> inline renderer
   inline renderer ──jobs──> application's queue <──semaphore──> queue of Direct3D 11
   application ──swapchain calls──> layer ──> runtime
   menu process <──named pipes──> menu handler thread of the layer
```

Three threads share three frame queues: the camera manager's serve thread, the
depth reconstruction thread and the application thread that calls `xrEndFrame`.
The queues' mutexes are all that orders them. The application's swapchain calls
go through the layer, which keeps back each released image until it has drawn
into it. The textures that the frames in the queues name are filled on a Vulkan
device of the layer's own and drawn with on the application's; with a Vulkan or
OpenGL application the drawing goes through a third device. The menu talks to the
layer by messages over named pipes.

### What is hard

* the three threads interleave at every queue operation; frames are held across
  renders because the GPU may still be reading them, and the pools are small;
* each loop of the serve and the depth thread has several early exits, each of
  which has to give back what it holds;
* sequence numbers wrap and start with values that look like real ones;
* the layer delays calls of the application and must still make a legal
  sequence of calls to the runtime out of them, with the setting that decides
  about it changing at any frame;
* pausing, resuming and resetting the cameras can fail half way;
* several GPU queues work behind the program's back: waits for them time out, a
  fence or command buffer may be used again too early, and what they use must
  not be destroyed;
* a renderer keeps a dozen resources from frame to frame, each with its own idea
  of when it is out of date, and filters with what an earlier frame drew;
* the alpha of a pixel goes through up to three passes chosen by independent
  conditions;
* pipes use overlapped I/O with one buffer and one event for both directions,
  shared by two threads at either end.

`PROJECT.json` lists each hazard at its line with the properties that cover it.

### What makes each component correct

* Frame queues: no entry lost or in two places, reader counts exact, no frame
  changed under a reader, nothing stale kept from the writers, always a frame to
  read once one was published; in short, they implement `FrameExchange`.
* Pipeline: the pools suffice, no path leaks a reference, held frames are
  stable, the picture never goes back in time, each new image is shown or
  overtaken, a depth image never precedes its camera image.
* Layer: whatever legal calls the application makes, the runtime sees legal
  calls, layer and runtime agree on the images, passthrough is drawn into an
  image that is the layer's to draw into, and drawn as the application asked, in
  this session and not in one before.
* Life cycle: a camera is processed only while it should be, a failed start is
  retried, no stream is left without its thread, no thread uses a stream that is
  closed, every call returns.
* Async renderer: a published frame names a texture that fits it and shows its
  image.
* Inline renderers: a frame ends up with passthrough in the images it was
  submitted with, the queues never wait for each other, a reset destroys nothing
  in use; a frame draws with what it wants, filters with what was drawn at the
  pose it assumes, and each pixel is what the blend mode says.
* Menu IPC: what a row shows came from the connection of the same index, clients
  come and go without exhausting the pipes, every client is attended to, a
  broadcast returns; the client connects again and tells each menu what it has to
  say.

## 2. Modules

| Module | Models | Proved in |
|---|---|---|
| `FrameExchange` | abstract: a writer publishes frames, readers get the newest there is | |
| `FrameQueue` | `FrameQueue` and `FramePtr`, implements `FrameExchange` | `FrameQueueProofs` |
| `FramePipeline` | the serve, depth and render threads around three instances of `FrameQueue` | `FramePipelineProofs` |
| `Swapchains` | application, layer and runtime around the images of swapchains | `LayerProofs` |
| `Layer` | extends `Swapchains` by sessions, the extensions and the choice of what `xrEndFrame` draws | `LayerProofs` |
| `PassthroughSystem` | sessions, resets, pauses, camera threads | `PassthroughSystemProofs` |
| `AsyncRenderer` | the shared textures and the thread that fills them, extends `FrameQueue` by them | `AsyncRendererProofs` |
| `InlineRenderer` | from `xrEndFrame` to the GPU queues, for each graphics API | `InlineRendererProofs` |
| `Blending` | one pixel through the passes of a frame, a pure function of its case | |
| `RendererVulkan` | what the legacy Vulkan renderer keeps from frame to frame: operators on its state | |
| `Renderers` | the same for the D3D11 renderer, and the frames of either; extends the last two | `RenderersProofs` |
| `MenuIPC` | the menu's IPC server, its clients, the menu thread | `MenuIPCProofs` |
| `MenuIPCClient` | the layer's end of the pipe: the listen thread and a thread that writes | |

A module `MCx` extends `x` and gives its constants the values of a small
instance; a `.cfg` is one question asked of it. `PROJECT.json` names, for each
definition, the lines of the source it is translated from.

**Slips.** Some operators are named after another one with a suffix
(`AcceptClientUncounted`, `WriteFileUnsignalled`, ...), or commented as a mutant.
They are no part of any specification: each is the original with a plausible slip, and TLC finds the
property listed with it in `PROJECT.json` violated when it takes the original's
place. They show that a property depends on the code and not on the shape of
the model.

**Departures.** Where the code does something else than a property says, in a case
that is narrow and understood, the property excepts that case by a definition of
its own, named for what happens (`HalfReopened`, `MaskIsTooSmall`, `DeadPipe`,
...). Section 5 has each of them. TLC finds the property violated without the
exception, so none of them is idle.

### FrameQueue and FrameExchange

`idle` and `read` are `m_idleEntries` and `m_readEntries`, in order, holding
the numbers of the entries; `readers` is `NumReaders`; `entry` and `isWrite` are
the members of each `FramePtr`, and `content` is what the writer last put into
the entry. Every operation runs under the queue's mutex and is one step; writing
the frame's data is a step of its own, outside the lock (`WriteFrame`), so that
a write under a reader would show. Any reference may make any call that its
state permits, whichever thread it belongs to.

`FrameExchange` promises what callers rely on: published frames have an order,
a reader gets the newest, a frame held by a reader does not change. The
refinement maps the published frames to `read` and forgets the pool.

### FramePipeline

`Gpu`, `Cpu` and `Depth` are instances of `FrameQueue` with the sizes of the
code (4, 3, 4). A thread is a program counter, and a step is what the thread
does between two operations on a queue, with the error exit of each call into
OpenVR, OpenCV or Vulkan as an alternative. A frame's pixels are the number of
the camera image they show. "texture" is the OpenVR manager with its shared
textures, "buffer" the OpenCV manager and the colour mode of the block queue,
which publish the CPU frame first, then read it back to upload it. The depth thread
takes an image as done before its result exists, also when the raw image then turns out
not to be decodable (`DecodeInputFails`). The Augmented provider, with a manager and
a depth thread for each of two cameras, is not in this module. The render
thread holds the frames of its last two renders; `AcquireManualRead` is the move
from `ref` to the two lists.

### Swapchains and Layer

For each swapchain there are three views: what the runtime has handed out
(`runtime`), what the application believes (`app`), and the layer's maps
(`acquired`, `waited`, `held`). The application makes any call that the OpenXR
specification allows it from what it sees; the runtime refuses what is out of
order, and `rejected` is what it refused in the last call. Passthrough may be on or
off at each call. `alive` are the handles that name a swapchain, `tracked` those the
layer thinks do. The two part when a session ends: `xrDestroySession` takes its
swapchains with it, at any time and whatever they have acquired or held, and the layer
is told of none (`EndSession`). What its maps then have is kept, and is taken for that
of the swapchain that gets the handle next. `leftAcquired` and `leftHeld` remember of
which handles that is so, for the properties; no action depends on them.

`Layer` adds sessions, which leave some of the layer's state behind, and the
calls of `XR_FB_passthrough` and `XR_VARJO_environment_depth_estimation`.
`fbPassthrough` and `varjoDepth` are what the layer remembers; `asked` is what the
application knows from its own calls and the results they returned. `EndFrame`
computes what the code draws from the first and what should be drawn from the
second: which projection layer, in which blend mode, with which style and with or
without depth. The two meet in `DrawsWhatWasAsked`. The images and the extensions
have nothing to do with each other but for the moment of drawing, so a behaviour
is about one or the other (`scope`); where the images matter, one frame that is to
draw stands for all. A setting of the menu has the blend modes that are enabled, which
are the ones offered (`BlendModes`), the one that is forced, and whether passthrough by
blend mode is on at all (`CorePassthroughEnable`), which only `IsBlendModeEnabled`
looks at. The order in which modes are preferred, which only the application's choice
among them depends on, is left out.

### PassthroughSystem

The application thread is inside one call at a time. `todo` is what is left of
the call, a sequence of operations, the first of which is the next step; the
serve threads and the menu come in between. An operation that finds a failure
replaces the rest of the call by what the code does then. A camera manager is
its flags, its stream, whether it has published a frame, and where its thread
is: before its loop test, inside the body, ended. `Settings` are the pairs of
provider and mode the menu allows (settings_menu.cpp:877), `Options` the two
pause options. `Users` are what a user switches between. Cameras become available and unavailable, and renderers fail to
initialise, at any time. When `CalculateFrameProjection` would call a depth
reconstruction that does not exist the program is over (`Crashed`), and the
properties speak of what comes before. A reset that is requested between the
test of the flag and its clearing is lost in the model as in the code.

### AsyncRenderer

The writing thread is either a serve thread, which has raw images decoded, or a
depth thread, which has disparity maps filtered; `use` says which. `pc` follows it
from the frame it acquires to the one it commits, each failure ending in
`GiveUp`. `made` are the textures the inline renderer has created, which it never
frees before a reset, and `picture` what each shows. `jobs` is what the GPU has
yet to execute; `FinishWait` may happen before that, since the wait of 100 ms only
logs that it ran out, and `Submit` may replace a job, since there is one command
buffer. The module extends `FrameQueue`: the frames are its entries, with the fields
the code attaches to them (`named`, `frameSize`, `textureIndex`).

### InlineRenderer

`xrEndFrame` is one step: `UpdateSwapchains` of the passthrough system takes over
swapchains that are new (`stored`), the renderer makes targets for their images
(`named`, `local`, `target`), and a frame is submitted as jobs to the queues. A
GPU executes one job at a time, in order, when the semaphore has the value it
waits for. `shown` is what became of the last frame whose jobs were executed. A
reset waits for a fence, for 10 ms at most. `failures` counts what went wrong: a
swapchain whose images the runtime does not list, a target that cannot be made, a
frame that is given up half-way or not rendered at all.

### Blending, Renderers and RendererVulkan

`Blending` is a function from a case (what the passes are chosen by) to a pixel:
how much of the application's and of the camera's colour it has, and its alpha, in
parts of `One`; `g_alphaTestThreshold` is the constant of the shader in the same
parts. A colour is in parts of `Full`, the fourth power of `One`, so that no case
divides with a remainder: what eight bits would round is left out. `Cases` are the
cases there are. The blend states are those the renderers create, and `Blend` is what
Direct3D and Vulkan do with one. `Asked` says what each mode promises.

`Renderers` is a sequence of frames between which something changes. The state of
a renderer is a record, and each function of the code that sets something up is an
operator from record to record; a frame is their composition in the order of
`RenderPassthroughFrame`. A surface has the number of the frame it was drawn in,
and so has a pose, which makes "drawn at the pose it is projected from" an
equation. The debug texture is filled by a depth thread or, where it is the test
image, by the frame that finds it missing. Each frame also draws one pixel of any
case.

### MenuIPC

A connection is one element of `m_clientConnections` with its event and the
state of its pipe in Windows. The listen thread waits for an event, serves the
lowest index that is signalled, and calls back into the menu under the locks it
holds in the code. The menu thread draws and broadcasts: taking the shared lock,
checking a connection, and writing to it are steps of their own. One opening of
the pipe is one client, which may write, read, close at any time, or say nothing
more. What Windows does is taken from how the code uses it: an event is reset
when an operation starts and set when one completes, and a pipe that a client
has closed fails reads once its messages are used up, and writes. Whether a write
finds room, and which settings are pending, are left open.

### MenuIPCClient

The other end, by the same rules of Windows. `listen` is the thread that connects,
calls the menu handler back, reads and sends keep-alives; `writer` is a thread of
the application, which sends its names once and its values with each frame.
`mutex` is `m_mutex` where it is held over a step; the flags that are reset and
the callback after connecting are outside it, as in the code. `sent` is what the
menu handler remembers to have sent, `known` what the menu of the moment has
received. Menus come, go, read and write.

## 3. Runs

| Run | Instance | Shows |
|---|---|---|
| `frame_queue` | 3 entries, 4 references, 2 contents | every property of the queue and that it implements `FrameExchange` |
| `pipeline` | 4 images, textures and buffers, mono and stereo, in stereo one image in two reconstructed | pools suffice, nothing leaks, held frames stable, a depth image never before its camera image, the projection is of the image shown, the picture never goes back |
| `pipeline_live` | 2 images, textures, all reconstructed | each published image is rendered and reconstructed, or overtaken |
| `lifecycle` | a webcam with all four pairs of options; one camera or two with both options on | no thread on a closed stream, a paused system is quiet, nothing left running, calls return, idling stops the cameras, reopening is retried |
| `swapchains` | 2 swapchains of 3 images, 2 sessions, which end at any point, 2 passthrough layers, every setting of blend modes | layer, runtime and application agree, nothing refused but what a session left, draws into the layer's own image, draws what was asked for |
| `async_renderer` | decoding and filtering, images of 2 sizes, 5 images, 1 frame held | a published frame names a texture of its size that shows its image |
| `inline_renderer` | D3D11, D3D12, OpenGL, Vulkan by interop and legacy Vulkan; 3 frames | frames get their passthrough, the queues never wait for each other |
| `inline_reset` | Vulkan by interop | finding 2 |
| `renderers` | D3D11 and legacy Vulkan; up to 5 frames; every case of a pixel | histories are of the poses they are projected from, a frame draws with what it wants, each pixel is as its mode asks |
| `menu_ipc` | 2 clients, one of which may come early, a message each, a broadcast per drawing | rows and connections agree, a pipe is left for the next client, every client is attended to |
| `menu_ipc_locks` | 1 client, two broadcasts per drawing | finding 1 |
| `menu_client` | 2 menus that go away, one message of each | a menu that stays knows the client and its last values |

`TypeOK` of `FramePipeline`, `PassthroughSystem` and `MenuIPC` says what their
variables range over, for the reader; it is checked by no run, since the other
properties of those modules would not survive a value of the wrong kind.

### Bounds and why they are enough

* *Frame queue.* Entries and references are interchangeable, so the case that
  matters is a frame written while an older one is read twice, two writers at
  once, and an underrun: three entries and four references have all of them.
  The theorems have no bound.
* *Images (`LastImage`).* Only this is bounded in the pipeline; the queues have
  their real sizes. Four images fill the GPU queue with a frame written, one
  published and two held, and have an eviction of a held frame behind them. The
  sequence numbers of a buffer wrap at 16 (`FrameSequence`), which four images do
  not reach: that an image looks like the one before because sixteen came between
  them is not in these runs. For liveness two images are enough for one to be
  overtaken and one to be the last.
* *Views.* The pipeline's runs take two states for the same when they differ in
  which entry of a queue plays which part, in what an idle entry contained, or in
  the names of the render thread's references. Every action treats these alike,
  and every property speaks of published, held or written frames only, so that a
  permutation of entries or of references maps behaviours to behaviours, and the
  content of an idle entry is written before it can be read. The view of
  `MCAsyncRenderer` does the same for its one queue, and leaves out the image at
  hand while there is none.
* *Symmetry* is of references and contents (`frame_queue`), of swapchains
  (`swapchains`) and of handles (`inline_renderer`, `inline_reset`), none of which
  the modules tell apart; it is used with safety properties and step properties
  only.
* *Swapchains.* The layer treats each swapchain by itself except in `xrEndFrame`,
  which knows two of them, left and right. Three images let one be held, one
  acquired and one asked for. The theorems have no bound. Two sessions show what
  the first leaves behind (`MaxSessions`). What is left in the queue of a handle makes
  it that much longer for as long as the handle is used, so that in the second session
  it may have more images than the swapchain; with `MaxQueued`, no image is acquired
  there once it has three. One image left and two acquired are within that. Of passthrough layers, two make
  one to be searched past, and a third handle is one that is new after one has gone.
* *Life cycle.* Two managers are all there are. Each user has the settings that
  make the largest difference: a webcam with each pair of options, and the change
  between one camera and two with both options on. No counter needs a bound.
* *Async renderer.* The ring has four textures, so that the fifth image is the
  first that may meet a frame that is still read. Two sizes make every change of
  size; a second setting would only change the pipeline once more.
* *Inline renderer.* Three frames are one before, one during and one after
  whatever happens, on each of two images. One failure and one reset can each meet
  every moment; two handles with three swapchains have one handle given out again.
* *Renderers.* A history needs two frames of the same kind, and to go wrong a change
  between them and one that hides it: one change after any of four frames, or two
  between three. The settings are changed singly. `debug texture` has runs of
  its own with up to four changes, since it is asked for, filled, resized and
  taken away. Each case of a pixel is drawn in a single frame, since it depends on
  nothing before, and in halves: with none, all or some of each part. The theorem is
  for every scale. In the legacy renderer the interesting cycle is that of its command
  buffers, of which two stand for the three of the code; five frames go round them
  twice. The theorem is for any number.
* *Menu IPC.* Two clients make an index shift and one client keep the listen
  thread from the other. A client that has used up `MaxMessages` falls silent,
  which is also how a client comes to time out. `MaxCalls` is how many broadcasts
  one drawing of the menu makes: with two, the menu thread can meet the deadlock
  in the middle of a drawing as well as at its start. A client that comes again is
  a new one, so that with two the list shrinks and grows again. For the client,
  two menus go away before the one that stays.
* *Deadlock* is checked in `frame_queue`, `pipeline`, `pipeline_live`, `lifecycle`
  and `menu_client`. In the two runs of `MenuIPC` the threads may wait for each
  other for ever, which is what `menu_ipc_locks` shows, and all clients may have
  come and gone; in `swapchains` a call may not return (`spinning`); in the others
  a behaviour ends where the frames or images of the instance are used up.

### Fairness and why the code justifies it

* *Pipeline*: `RunThread` and `Render`, weakly. The depth thread loops for as
  long as the pipeline exists, and the application calls `xrEndFrame` for every
  frame. The camera may stop at any time. `NewestIsReconstructed` takes the
  debug option that freezes the reconstruction to be off, as it is by default.
* *Life cycle*: the application goes on ending frames while it has a session,
  a call it is in goes on, serve threads run, and time passes. Cameras that are
  available, a session that stays and an application that draws are hypotheses of
  the properties, never fairness.
* *Menu IPC*: the menu thread runs, weakly. The listen thread is strongly fair:
  it competes with the menu for a lock that the menu gives back after each
  broadcast, and a user does not change settings without a pause. A client reads
  while it has the pipe open, since its own listen thread does nothing else, and
  a client that is silent times out. Nothing is assumed about when a client
  writes or goes.
* *Menu client*: the listen thread and the writing thread are strongly fair where
  they compete for `m_mutex`, which each holds only for a call; the rest is weakly
  fair: the application goes through with a dispatch it has begun and registers its
  reader, and a menu that has the pipe open reads. That a frame begins a dispatch
  is assumed only while there is something left to send, since frames go on.

## 4. Proofs

TLAPS proves, for any number of entries, references, contents, swapchains,
images, sessions and passthrough layers, and any scale of intensities:

* `FrameQueueProofs`. The inductive invariant is
  `IInv == TypeOK /\ OnePlace /\ ReadersCounted /\ OnlyNewestUnread`. None of its
  parts is inductive alone. A release puts an entry back to the idle ones when its
  count comes to zero: that keeps every entry in one place only if the count is
  exact, and the count is exact only if an entry that is read is in `read` once. A
  commit evicts from `read` whatever nobody reads; that it evicts at most the
  previous newest entry is `OnlyNewestUnread` (lemma `Eviction`). From `IInv`
  follow that a writer finds a frame while two are to spare
  (`PoolLargeEnough`, by counting the entries in use), that no step changes a
  frame that is read (`StableWhileRead`), that the queue is never emptied
  (`NeverEmptied`), and that each step is a step of `FrameExchange` or a stutter
  (`ImplementsFrameExchange`).
* `LayerProofs` begins with `Swapchains`. Its inductive invariant is
  `IInv == TypeOK /\ RuntimeInSync /\ OneHeld /\ Bounded /\ LeftIsHeld`. A release that
  was put off is in order when it is made up for because what the layer owes (`Owed`) is
  what the runtime has first, which is `RuntimeInSync`; what it holds for a swapchain
  that is gone it does not owe. Whether anything is left in a queue does not matter to
  that, only to which image the layer takes it for: the runtime is told to release the
  next one, not which. It is proved one swapchain
  at a time (`OneAtATime`, `ToEach`, `FromEach`): a call changes one swapchain,
  `xrEndFrame` releases held images one after the other, and the end of a session turns
  what is held into what is left (`EndSessionIInv`). The layer with its
  sessions and extensions is an implementation of `Swapchains`: each step of `Layer`
  is a step of `Swapchains` or leaves its variables alone (`LayerStep`,
  `LayerImplementsSwapchains`), the end of a session being `EndSession` whatever its
  swapchains have acquired or held. What is proved of the images therefore holds in every
  session of the layer (`LayerIsSafe`), with the exceptions that `leftHeld` and
  `leftAcquired` make in the properties themselves.
  `DrawsAsAsked` is about the extensions: a frame is drawn as the application asked,
  for any number of passthrough layers and sessions and any setting of the blend modes.
  The blend modes agree because those in use are among those offered
  (`EnabledIsAsked`), and where they are off both sides have passthrough layers only.
  The invariant `LayersAgree` does
  not say that the two lists of passthrough layers are the same, for they are not: the
  layer keeps those of a session that is gone. It says that each layer of the
  application is in the layer's list with its settings, and that no handle is there
  twice, so that a search finds the right one (`Found`, `RunningAgree`).
* `AsyncRendererProofs`. It extends `FrameQueueProofs`, whose `IInv` is the first
  conjunct of the invariant. The rest says where the texture of a frame is: a
  decoder's frame has the slot of its image's number, modulo the size of the ring,
  and a filter's keeps the slot its entry was given (`Place`). A job only ever names
  the texture at the slot of the image at hand, and no published frame that is still
  good has its place there. From that `ShownAsMade` (a published frame shows the image
  it was made from), `NamedAndFitting` (in a texture of its size) and `JobsKeepOff`.
  That `AsyncRenderer` extends `FrameQueue` is more than a manner of writing it: each of
  its steps is one operation of the queue or leaves it alone, also where a frame is
  given up half-way (`AsyncStep`), so that it implements `FrameQueue`
  (`AsyncImplementsQueue`) and with it `FrameExchange` (`AsyncImplementsExchange`).
* `FramePipelineProofs` begins with what each operation of a queue does to the
  invariant of `FrameQueueProofs`, of values instead of variables, so that it can be
  cited for each of the three queues. What a queue shows to the threads comes next: an
  operation of one reference leaves
  what the others stand for alone, a commit publishes the image written, and a release
  can take the newest frame away only if somebody else reads what remains
  (`Releasing`). The invariant `IInv` ties the program counter of each thread to the
  references it has (`ServePlace`, `DepthPlace`, `RenderPlace`) and orders the images:
  what is published for display is at most the image at hand, the CPU queue's newest is
  at most that of the GPU queue where textures are served, the last image taken on is at
  most the CPU queue's newest and at least the depth queue's, and frames are held in the
  order of their images. That the newest never goes back is the hard part: the render
  thread gives back only the oldest of what it reads, so that a release that takes
  the newest frame away would leave one behind that is newer (`OldestCameraGoes`); and
  when the depth thread gives a CPU frame back, an older one can only remain because
  the serve thread reads it, which reads the newest there has been
  (`DepthThreadReleases`). The serve thread's own release is the case left over, which
  is `FallsBackOnlyToWork`. That the pools suffice is then counting: with nothing idle,
  each entry but the newest has a reference (`NoneIdle`), and there are too few of them.
  Last, the pipeline implements `FrameQueue` three times over, with the references of
  those threads that use the queue (`PipelineUsesItsQueues`). A step uses at most one
  operation of each queue; that it does so with a reference that may be used there needs
  the invariant, for the render thread finds its references in its lists.
* `InlineRendererProofs`. The queues are executed from one end and submitted to at the
  other, so a job is spoken of by its distance from the end, which the queues' own
  steps do not change. `Handshake` gives the value each job waits for and signals as
  `m_semaphoreValue` less twice the number of frames behind it, and says that the
  application's queue is as long as twice that of Direct3D 11, or one job longer or
  shorter; with what the semaphore has reached in each of the three cases, one of the
  queues can go on. That is `QueuesNeverStuck`.
  For `FramesGetTheirPassthrough` more is needed: that no two handles have one
  swapchain and none is given out again unnoticed (`LayerInv`), that the target of each
  image of a swapchain that was taken over is that image, or a shared texture of its
  own that is copied from and to it (`TargetsInv`), and what each image and texture
  shows while a frame is on its way. Where two queues share textures, a frame that
  waits is in one of three states, to be copied in, to be drawn and to be copied back,
  and only the oldest may be in the last two (`SharedFrame`): the frames before it may
  use the same textures, so that nothing can be said of what they show until the frame
  itself has been copied in. Where the application's queue does everything, the images
  show the frame from the beginning and its job draws into all of them (`DirectJob`).
  With the legacy Vulkan renderer that takes a further argument, since a command buffer
  recorded again loses what it was to draw. `LegacyJob` says that the buffers of the
  waiting jobs come round in order. A buffer that is to be recorded while its job waits
  has as many jobs waiting as there are buffers; each draws into an image of its own, and
  there are no more images than buffers, so that every image is in use and the
  application cannot have acquired one (`BuffersComeRound`).
* `RenderersProofs`. A step of a frame takes the state of the renderer and returns
  another, and has a lemma about the two (`StereoParts`, `TemporalFiltersParts`,
  `DrawDepthParts`, ...); a frame is the chain of its steps (`Stages`,
  `DrawnStateParts`). `HistoryIsOfItsPose` needs to know what is left from earlier
  frames. Of the depth maps it is what those of the image drawn last show (`LastMaps`).
  Of the two buffers of colour each is for one of the poses that `PassthroughSystem`
  keeps, the one at hand for the last camera frame and the other for the one before,
  and shows that frame unless it was made since (`Buffers`); the buffers and the poses
  change places in the same frames, those with a new camera frame (`BuffersBegin`).
  `ResourcesFitTheFrame` is what a step leaves, except where it compares only a part of
  what it keeps: the depth maps of an image are of one size, of which it looks at
  the first (`Alike`); a temporary target with the address of the image was made for it
  (`TargetKnown`); and a debug texture of another size says so (`SizeSeen`). In the
  legacy renderer the width kept for the masks of a view is that of one of them
  (`Masks`, `SomeMaskHolds`), and
  the camera image of a command buffer is that of its handle or has been destroyed
  (`CameraImages`), which is why its departures are the only ones.
  `PixelIsDrawnAsAsked` is about a pure function, and its invariant (`PixelRendered`)
  only says that what a frame leaves is `RenderedPixel` of a case. The rest is
  arithmetic on parts of `One` that the provers do not find by themselves. The passes
  divide, and a proof can multiply: `Exact` and the lemmas after it say that what a blend
  divides is a multiple of `One` at each pass, which is why `Full` is its fourth power.
  Then each pass has a lemma: the prepasses of alpha keep the colour
  (`AlphaStatesKeepColour`), what they leave of alpha is one of a few values of the
  case (`Readied...`), and the pass of the camera mixes by that value or tests
  against it (`CameraPass`, `ViewByAlpha`, `PixelByDepth`). What comes out is compared
  with `Asked` mode by mode (`AskedParts`, `DrawnAsAskedDX11`). The legacy renderer
  chooses its states otherwise but draws what the other draws in the same case
  (`LegacyDrawsAlike`).
* `PassthroughSystemProofs`. The first element of `todo` is the program counter of a
  call. The invariant says which element may follow which in each kind of call (`Flow`),
  and what holds of the cameras at each: either all of a camera is there or nothing of
  it, except at the steps that are closing it. Calls that replace the rest of `todo`
  keep `Flow` because chains can be put together (`ChainOfOne` and those after it).
* `MenuIPCProofs`. Connections change in place, and only the listen thread adds and
  removes them. The invariant says which connections each thread may be busy with, with
  which locks; which row belongs to which connection, one index lower while a row is
  about to go (`RowsMatch`); and that the pipes counted as idle are there (`Counted`).

Each theorem is for all values of the constants that the named assumptions of its
module allow: positive numbers of frames and images, finite sets of references, the
kinds of sources there are (`KindsAssumption`), textures for at least as many frames as
the queue has (`TexturesAssumption`, from async_renderer.h), sizes and handles other than
the value for none (`SizesAssumption`, `HandlesAssumption`), a scale of intensities with
the threshold of the alpha test on it (`OneAssumption`, `ThresholdAssumption`), pixels
among the cases there are (`PixelsAssumption`), and bounds that are natural numbers. TLC evaluates these assumptions in each run. The bounds (`LastImage`,
`MaxMessages`, ...) are constants like the others, so that the theorems hold for
behaviours of any length.

Only model-checked: all liveness, which TLAPS cannot prove, and with it the client of the
menu, whose one property is liveness; and the two violations of section 5. Every safety
property that a passing run checks is stated by a theorem.

## 5. Findings

1. *`menu_ipc_locks`, menu_ipc_server.cpp:545.* The listen thread, removing a
   client, holds the lock of the connections and waits for that of the rows; the
   menu thread, drawing, holds the lock of the rows and broadcasts, which waits for
   that of the connections. A broadcast is to wait ten milliseconds at most.
2. *`inline_reset`, passthrough_renderer_dx11_interop.cpp:1194.* "Wait for queue to
   complete before freeing objects": there is one fence, which each frame resets
   although the frame before may still be to signal it. The earlier frame's signal
   then ends the wait of the reset, and what the later frame works with is freed.

### Departures

The properties of the passing runs except these cases, each by a definition named
for it:

* *Pipeline.* The first image from a buffer has number 0, which is what
  `m_lastFrameSequence` starts with: it is rendered with a projection computed for no
  image (passthrough_system.cpp:916). Images from a buffer are numbered modulo 16, and
  one that has the number of the one before is rendered with that one's projection.
  `ProjectionIsOfFrame` allows a frame the projection of an image with its number.
* *Life cycle.* `HalfReopened`: if one of two cameras opens again after a pause and
  the other does not, the system still says it is paused, and the one that did open
  is processed as long as the application stays idle (passthrough_system.cpp:532).
* *Layer.* `xrDestroySession` (layer.cpp:482) leaves to the next session the setting of
  `XR_VARJO_environment_depth_estimation` (`VarjoDepthLeftOver`) and the maps of images.
  `leftHeld`: an image held when a session ended is released by the first `xrEndFrame`
  of the next (772), or by a wait for an image of the swapchain that has the handle,
  and the runtime refuses it. `leftAcquired`: where images were acquired, the front of
  the queue of a swapchain with the same handle is one of those, so that the layer
  holds a wrong index (757) and draws into an image the runtime has not handed over.
  `OffersWhatIsOff`: modes are offered (501) although passthrough by blend mode is
  switched off, and then draw nothing (1002); passthrough layers still do.
* *Async renderer.* `unsure`: a frame whose own job the wait gave up on may show
  what its texture showed before. A frame that is held until the ring of four has
  gone round once shows a later image (`Fresh`).
* *Inline renderer.* `spoiled`: a swapchain with the handle of a destroyed one is
  not taken over (layer.cpp:838); targets that could not be made are not tried again;
  with Vulkan by interop both eyes are drawn into the image of the left one's index
  (passthrough_renderer_dx11_interop.cpp:1192), and a command buffer may be recorded
  again while it waits to be executed.
* *Legacy Vulkan* (passthrough_renderer_vulkan.cpp). `ImportFailed`: a failed import
  leaves the handle of an image that was destroyed (1318). `MaskIsTooSmall`: the
  size of a mask is remembered for each view, and there is a mask for each image
  (against the comment at 1543); the last image of the left eye counts as one of the
  right view (1435). `UploadIsLost`: the debug texture is uploaded in
  the first command buffer, whichever is recorded (879). `DebugTextureIsMissing`: it
  is asked for and not there, and what was bound before, or nothing, is drawn (1466).
* *Blending*, in cases that `Departs` names. `InvertedAlphaTest`: the alpha test
  compares the inverted alpha as it stands. `InvertedBackground`
  (passthrough_renderer_dx11.cpp:2702): with inverted alpha the background of the
  stereo mesh covers everything. `GapIsReplaced`: in gaps of the mesh the camera's
  background replaces the application instead of being added. `KeyIsLost`: masked
  with less than full opacity, the chroma key no longer decides. `OpacityIsIgnored`:
  with inverted alpha, 2D depth blending, a background, or premultiplied alpha.
  `UnknownToVulkan`: settings the legacy renderer does not have.
* *Menu client.* `DeadPipe`: a write to a closed pipe that fails with another error
  than `ERROR_BROKEN_PIPE` leaves the pipe open, against the comment at
  menu_ipc_client.cpp:169. `dropped`: a message that should wait for the pending one
  is given up, as the wait of 10 ms keeps the lock (menu_ipc_client.cpp:70) that the
  thread it waits for needs.

### The models also show

Nothing in the repository contradicts these:

* a reset that fails leaves `m_bCamerasInitialized` as it was, and the session
  without depth reconstructions (`Crashed` is where this leads);
* a camera slower to start than the idle time is closed in each frame and opened by
  the next (passthrough_system.cpp:871);
* a session whose setup failed after the cameras were opened leaves them running
  until the next session;
* after a pause that closed the stream, the first render may show a frame from
  before it;
* a reader that releases the newest frame while an older one is still held by
  another makes the older one the newest (`FallsBackOnlyToWork` says when);
* `xrDestroyPassthroughLayerFB` never returns for a layer that is not the first
  (`spinning`, layer.cpp:1395); `xrDestroyPassthroughFB` leaves the passthrough
  started, so that the system is never idle again;
* a swapchain with more than three images is not taken over;
* the depth thread compares the width of the debug texture with half of it
  (depth_reconstruction.cpp:888) and does not enlarge its buffer (869); the legacy
  renderer makes the debug texture as high as it is wide
  (passthrough_renderer_vulkan.cpp:927);
* the histories of the temporal filter are out of date after frames that were
  skipped, drawn in 2D or as the debug texture: the pose is, too, but the picture is
  of long ago;
* a client that connects before the menu has registered has no row until a later
  one connects, and its messages are dropped;
* a connection whose event stays set is served again and again, without waiting; at
  the client's end this follows each write that completes at once, and stops the
  keep-alives;
* a client that timed out with none of its events set is removed only when
  something else sets its event.

## 6. Not modelled, and why

* Stereo matching, calibration, projection matrices, meshes, the filters of the
  shaders: numeric code.
* The histories of the cameras' validity, which the D3D11 renderer keeps beside those of
  colour and depth (`Renderers`); frames whose two eyes have images of different index,
  or different sizes; whatever else a renderer does for one eye only.
* A driver that gives a new image the handle of one that is gone: the early return of
  `InitRenderTarget` (passthrough_renderer_vulkan.cpp:1006) would then keep a view of
  the old one. In `InlineRenderer` images of different swapchains are different.
* The Augmented provider in `FramePipeline`: its two managers are in
  `PassthroughSystem`, their queues are not composed.
* Image layouts and barriers, failures of Direct3D to make a resource, the
  conversion between coordinate systems: what the drivers make of them is not in
  the source.
* The block queue of OpenVR and its thread, and the OpenVR calls themselves:
  protocols of external interfaces. Their failures are.
* `xrGetSystemProperties`, which takes structures out of a chain and puts them back;
  reference spaces; sessions the layer fails to attach to.
* The destruction of the async renderer while a depth or serve thread uses it: the
  threads are joined first (`PassthroughSystem`).
* In the IPC: contents of messages, shutdown of the server, failing creation of
  pipes and events. A write buffer that two threads fill at once is not
  represented: what the clients make of it is outside the server. A connect that
  fails is modelled only for a pipe that was not counted as idle; one that was
  would stay counted.
* Two overlapping calls of the application on its swapchains: undefined behaviour
  of the layer's maps.
* OpenVR wrappers, setup program, calibration program, the menu's user interface,
  generated dispatch code, vendored headers.

## 7. Plan

Done: all modules of section 2, and the proofs of the safety properties of
`FrameQueue`, `FramePipeline`, `Swapchains`, `Layer`, `AsyncRenderer`, `InlineRenderer`,
`Renderers`, `PassthroughSystem` and `MenuIPC`. What is left, in order of importance:

1. A safety property of `MenuIPCClient` worth proving (what `sent` remembers was sent).
2. `MenuIPC` and `MenuIPCClient` composed, with the real pipe between them.
3. `SystemProperties`: taking property structs out of a chain and putting them
   back, a pure function against a reference definition.
4. The thread of the block queue (camera_manager_openvr.cpp:100) as part of
   `PassthroughSystem`'s camera managers.
