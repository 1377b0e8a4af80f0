------------------------------ MODULE Renderers ------------------------------
(***************************************************************************)
(* What the renderers keep from one frame to the next, and what a frame    *)
(* draws with it: PassthroughRendererDX11, whose steps are below, and      *)
(* PassthroughRendererVulkan, whose steps are in RendererVulkan.           *)
(*                                                                         *)
(* For every eye and image of the application's swapchain the first keeps  *)
(* the image, a temporary target as large as the image, and two depth      *)
(* maps, into which the disparity map of the depth frame is projected; the *)
(* depth maps of the image drawn last are the history the next frame       *)
(* filters with.  For every eye it keeps two buffers with the history of   *)
(* colour, of which a camera frame writes one and reads the other.  All    *)
(* are made when a frame finds them missing or of another size.            *)
(*                                                                         *)
(* A history is projected from where the headset was when it was drawn,    *)
(* and PassthroughSystem says where that is.  A pose is the number of the  *)
(* frame that had it, and so is what a surface shows.                      *)
(*                                                                         *)
(* Both may be asked to show a debug texture in place of the camera, which *)
(* a depth thread fills, or the thread that renders where it is the test   *)
(* image.                                                                  *)
(*                                                                         *)
(* Not modelled: failures of Direct3D to make a resource (the code logs    *)
(* them and goes on), a camera frame with no texture in Direct3D, and the  *)
(* render models.  Both eyes are drawn alike, to the same image of their   *)
(* swapchains, as the code assumes, and the model has one of them.  A      *)
(* texture of the application never has the address of an older one.       *)
(***************************************************************************)
EXTENDS Blending, RendererVulkan, Sequences

CONSTANTS
  Setups,  \* what a behaviour is about: its bounds, and which pixels it draws
  AllPixels, PlainPixels,
  Sizes,   \* sizes of the application's images and of disparity maps
  Handles  \* shared textures of camera frames

ASSUME SetupsAssumption ==
  \A s \in Setups :
    /\ s.vulkan \in BOOLEAN /\ s.frames \in Nat /\ s.changes \in Nat
    /\ s.pixels \in {"all", "plain"}
    /\ s.change \subseteq {"setting", "swapchain", "depth", "field of view", "reset",
                           "debug texture"}
ASSUME PixelsAssumption == AllPixels \subseteq Cases /\ PlainPixels \subseteq Cases
ASSUME SizesAssumption == Sizes \subseteq Nat \ {0}
ASSUME HandlesAssumption == NoImage \notin Handles

VARIABLES
  setup,     \* chosen for the whole behaviour, the renderer included
  changes,   \* number of changes so far
  config,    \* the settings a frame is drawn by
  app,       \* the application's image at each index: its swapchain and size
  source,    \* the depth frame there is: its size, 0 for none; the field of view
  debug,     \* the debug texture: the one asked for, and the one there is
  renderer,  \* the state of PassthroughRendererDX11, and the frame its filters are from
  legacy,    \* the state of PassthroughRendererVulkan
  poses,     \* where PassthroughSystem has the headset at earlier frames
  drew,      \* for each frame, the histories it wrote
  frame,     \* the last frame, and what it was drawn with
  pixel      \* one of its pixels: its case, and what was drawn there

vars ==
  <<setup, changes, config, app, source, debug, renderer, legacy, poses, drew,
    frame, pixel>>

\* passthroughDepthStencil[0] and [1]
Slots == {0, 1}

NoTexture == [swapchain |-> 0, size |-> 0]
NoSurface == [texture |-> FALSE, size |-> 0, shows |-> 0]
Surface(size) == [texture |-> TRUE, size |-> size, shows |-> 0]
NoSurfaces == [s \in Slots |-> NoSurface]
NewSurfaces(size) == [s \in Slots |-> Surface(size)]

-----------------------------------------------------------------------------
(***************************************************************************)
(* The steps of a frame in PassthroughRendererDX11.  Each takes its state r. *)
(***************************************************************************)

\* The data of a frame, made when the first image of that index comes.
CheckInitFrameData(r, image) ==
  [r EXCEPT !.frameCount = Larger(@, image + 1)]

InitRenderTarget(r, image) ==
  [CheckInitFrameData(r, image) EXCEPT
     !.target[image] = app[image],
     !.cameraFilter =
        IF r.target[image] # app[image] /\ ~config.EnableTemporalFiltering
        THEN NoSurfaces ELSE @]

\* SetupTemporalUAV, for both buffers.
SetupTemporalFilters(r, image) ==
  IF config.EnableTemporalFiltering /\ ~r.cameraFilter[0].texture
  THEN [r EXCEPT !.cameraFilter = NewSurfaces(app[image].size),
                 !.filtersMade = Len(drew) + 1]
  ELSE r

\* SetupUVDistortionMap
SetupUVDistortionMap(r, mode) ==
  IF mode # "RoomView2D" /\ (~r.uvMap \/ r.fovScale # source.fovScale)
  THEN [r EXCEPT !.uvMap = TRUE, !.fovScale = source.fovScale] ELSE r

\* SetupDisparityFilter, and the depth maps given up for a new size.
DisparityMapReset(r, image) ==
  \/ r.disparityMapWidth # source.size
  \/ config.StereoUseDisparityTemporalFiltering /\ image \notin r.disparityFilters

ResetDisparityMap(r, image) ==
  IF DisparityMapReset(r, image)
  THEN [r EXCEPT
          !.disparityMapWidth = source.size,
          !.disparityFilters =
             IF config.StereoUseDisparityTemporalFiltering
             THEN 0 .. r.frameCount - 1 ELSE @,
          !.depthStencil = [i \in Images |-> [s \in Slots |->
             [@[i][s] EXCEPT !.texture = FALSE]]]]
  ELSE r

DepthSize == source.size * config.StereoDepthMapScale

\* A mutant: depth maps of another size are kept.
DepthMapsResetIfMissing(r, image) == ~r.depthStencil[image][0].texture

\* SetupPassthroughDepthStencil.  The views of a map go on showing it after
\* its Texture is given up, until there is another.
DepthMapsReset(r, image) ==
  \/ ~r.depthStencil[image][0].texture
  \/ r.depthStencil[image][0].size # DepthSize

SetupDepthStencils(r, image) ==
  IF DepthMapsReset(r, image)
  THEN [r EXCEPT !.depthStencil[image] = NewSurfaces(DepthSize)] ELSE r

\* GenerateDepthMesh
SetupMesh(r, image) ==
  IF \/ r.mesh.hexagons # config.StereoUseHexagonGridMesh
     \/ DisparityMapReset(r, image)
     \/ DepthMapsReset(ResetDisparityMap(r, image), image)
  THEN [r EXCEPT !.mesh = [size |-> DepthSize,
                           hexagons |-> config.StereoUseHexagonGridMesh]]
  ELSE r

SetupStereo(r, image) ==
  SetupDepthStencils(ResetDisparityMap(SetupMesh(r, image), image), image)

\* SetupDebugTexture, where there is none or it is another, and its upload.
SetupDebugTexture(r, texture) ==
  IF texture.asked = "none" \/ texture.asked # texture.current THEN r
  ELSE [r EXCEPT !.debugTexture =
          [asked |-> texture.current, shows |-> texture.content,
           size |-> IF DebugTextureIsAnother(@, texture) THEN texture.size ELSE @.size]]

\* The image the main pass draws, the camera's or the debug texture.
Sampled(r, texture) ==
  IF texture.asked # "none" /\ texture.asked = texture.current
  THEN [debug |-> TRUE, shows |-> r.debugTexture.shows]
  ELSE [debug |-> FALSE, shows |-> NoImage]

\* GetTemporaryRenderTarget: a target belongs to the application's texture it
\* was made for.
GetTemporaryRenderTarget(r, image) ==
  IF r.temporary[image].swapchain = r.target[image].swapchain THEN r
  ELSE [r EXCEPT !.temporary[image] = r.target[image]]

\* RenderDepthPrepassView, into the maps of the image.
DepthSlots == IF config.StereoCutoutEnabled THEN Slots ELSE {0}

DrawDepth(r, image, n) ==
  [r EXCEPT !.depthStencil[image][0].shows = n,
            !.depthStencil[image][1].shows = IF 1 \in DepthSlots THEN n ELSE @]

\* What that reads: the maps of the image drawn last, or nothing when they are
\* the ones it draws into.
DepthHistory(r, image) ==
  [s \in Slots |-> IF r.prevSwapchain = image THEN 0
                   ELSE r.depthStencil[r.prevSwapchain][s].shows]

\* RenderPassthroughView: the temporal shaders read one buffer and, the first
\* time a camera frame is drawn, write the other.
DrawColour(r, first, n) ==
  IF config.EnableTemporalFiltering /\ first
  THEN [r EXCEPT !.cameraFilter[r.currentCameraFilterIndex].shows = n] ELSE r

ColourHistory(r) == r.cameraFilter[1 - r.currentCameraFilterIndex].shows

\* A mutant: the image drawn last is not remembered.
DrawnForgotten(r, image) == r

Drawn(r, image) ==
  [r EXCEPT !.prevSwapchain = image]

\* RenderDebugView shows the alpha or the depth of the application's image, from
\* a copy of it.
RenderDebugView(r, image) == Drawn(GetTemporaryRenderTarget(r, image), image)

-----------------------------------------------------------------------------
NoHistory == [slots |-> {}, colour |-> FALSE]
NoFrame == [number |-> 0, image |-> 0, done |-> FALSE, stereo |-> FALSE]

Init ==
  /\ setup \in Setups
  /\ changes = 0
  /\ config \in [projection : {"RoomView2D", "Custom2D", "StereoReconstruction"},
                 EnableTemporalFiltering : {TRUE},
                 StereoUseDisparityTemporalFiltering : {TRUE},
                 StereoCutoutEnabled : {TRUE},
                 StereoUseHexagonGridMesh : {FALSE},
                 StereoDepthMapScale : {1},
                 debugView : {FALSE}]
  /\ app \in {[i \in Images |-> [swapchain |-> 1, size |-> size]] : size \in Sizes}
  /\ source = [size |-> 0, fovScale |-> 1]
  /\ debug = [asked |-> "none", current |-> "none", size |-> 0, content |-> 0,
              dimensionsUpdated |-> FALSE]
  /\ legacy = NewRendererVulkan
  /\ renderer =
       [frameCount |-> 0, uvMap |-> FALSE, fovScale |-> 0,
        disparityMapWidth |-> 0, disparityFilters |-> {},
        mesh |-> [size |-> 0, hexagons |-> FALSE],
        prevSwapchain |-> 0, currentCameraFilterIndex |-> 0,
        target |-> [i \in Images |-> NoTexture],
        temporary |-> [i \in Images |-> NoTexture],
        depthStencil |-> [i \in Images |-> NoSurfaces],
        cameraFilter |-> NoSurfaces,
        debugTexture |-> [asked |-> "none", size |-> 0, shows |-> 0],
        filtersMade |-> 0]
  /\ poses = [lastHMD |-> 0, lastCamera |-> 0, currentCamera |-> 0]
  /\ drew = <<>>
  /\ frame = NoFrame
  /\ pixel = <<>>

\* Between frames something changes.
Change(what) ==
  /\ changes < setup.changes /\ what \in setup.change
  /\ changes' = changes + 1
  /\ frame' = [frame EXCEPT !.done = FALSE]
  /\ UNCHANGED <<setup, poses, drew, pixel>>

\* A setting is changed in the menu.
ChangeSetting ==
  /\ \/ \E field \in DOMAIN config \ {"projection", "StereoDepthMapScale"} :
          config' = [config EXCEPT ![field] = ~@]
     \/ config' = [config EXCEPT !.StereoDepthMapScale = 3 - @]
  /\ Change("setting") /\ UNCHANGED <<app, source, debug, renderer, legacy>>

\* The application makes its swapchains anew.
TakeNewSwapchain ==
  /\ \E size \in Sizes :
       app' = [i \in Images |-> [swapchain |-> app[i].swapchain + 1, size |-> size]]
  /\ Change("swapchain") /\ UNCHANGED <<config, source, debug, renderer, legacy>>

\* Depth frames come, with disparity maps of a size or of another one.
NewDepthFrame ==
  /\ config.projection = "StereoReconstruction"
  /\ \E size \in Sizes \ {source.size} : source' = [source EXCEPT !.size = size]
  /\ IF source.size = 0
     THEN /\ frame' = [frame EXCEPT !.done = FALSE]
          /\ UNCHANGED <<setup, changes, poses, drew, pixel>>
     ELSE Change("depth")
  /\ UNCHANGED <<config, app, debug, renderer, legacy>>

\* The map of the lens is computed for another field of view.
ChangeFieldOfView ==
  /\ source' = [source EXCEPT !.fovScale = @ + 1]
  /\ Change("field of view") /\ UNCHANGED <<config, app, debug, renderer, legacy>>

\* DestroySharedTextures and InitRenderer, when the processing pipeline is set
\* up anew; the depth frames go with it.
InitRenderer ==
  /\ \E p \in {"RoomView2D", "Custom2D", "StereoReconstruction"} :
       config' = [config EXCEPT !.projection = p]
  /\ source' = [source EXCEPT !.size = 0]
  /\ IF setup.vulkan
     THEN legacy' = InitRendererVulkan(legacy) /\ UNCHANGED renderer
     ELSE /\ renderer' = [renderer EXCEPT !.frameCount = 0, !.disparityFilters = {},
                                          !.uvMap = FALSE, !.disparityMapWidth = 0]
          /\ UNCHANGED legacy
  /\ Change("reset") /\ UNCHANGED <<app, debug>>

\* Another debug texture is asked for in the menu.
AskForDebugTexture ==
  /\ \E asked \in {"none", "TestImage", "Disparity"} \ {debug.asked} :
       debug' = [debug EXCEPT !.asked = asked]
  /\ Change("debug texture") /\ UNCHANGED <<config, app, source, renderer, legacy>>

\* The depth thread fills it.  It compares the width with half of what it was set
\* to, and so takes the size for another one each time.
UpdateDebugTexture ==
  /\ config.projection = "StereoReconstruction" /\ debug.asked = "Disparity"
  /\ \E size \in Sizes :
       debug' = [debug EXCEPT !.current = "Disparity", !.size = size,
                              !.content = @ + 1, !.dimensionsUpdated = TRUE]
  /\ Change("debug texture") /\ UNCHANGED <<config, app, source, renderer, legacy>>

-----------------------------------------------------------------------------
\* GetTestPattern, which a frame calls when it is asked for and not there.
GetTestPattern(texture) ==
  IF texture.asked = "TestImage" /\ texture.current # "TestImage"
  THEN [texture EXCEPT !.current = "TestImage", !.size = 1, !.content = @ + 1,
                       !.dimensionsUpdated = TRUE]
  ELSE texture

\* The renderer has seen the size.
SeenDebugTexture(texture) ==
  [texture EXCEPT !.dimensionsUpdated = @ /\ texture.asked # texture.current]

\* CalculateFrameProjection: where the headset was when the history was drawn.
CalculateFrameProjection(first, n) ==
  [lastHMD |-> n,
   lastCamera |-> IF first THEN poses.currentCamera ELSE poses.lastCamera,
   currentCamera |-> IF first THEN n ELSE poses.currentCamera]

\* RenderSetupView: the poses the shaders project the histories from.
RenderSetupView(earlier, now) ==
  [previous |-> earlier.lastHMD, history |-> now.lastCamera]

\* RenderPassthroughFrame.  There is nothing to draw from an invalid depth
\* frame, and the debug view of alpha draws no camera image.
RenderFrame(image, c, first, valid) ==
  LET n == Len(drew) + 1
      stereo == config.projection = "StereoReconstruction"
      begun ==
        [InitRenderTarget(renderer, image) EXCEPT
           !.currentCameraFilterIndex = IF first THEN 1 - @ ELSE @]
      flat ==
        SetupTemporalFilters(SetupUVDistortionMap(begun, config.projection), image)
      ready == IF stereo THEN SetupStereo(flat, image) ELSE flat
      \* the passes
      projected == IF stereo THEN DrawDepth(ready, image, n) ELSE ready
      tested == IF c.mode \in {"Masked", "AlphaTest"}
                THEN GetTemporaryRenderTarget(projected, image) ELSE projected
      texture == GetTestPattern(debug)
      textured == SetupDebugTexture(tested, texture)
      now == CalculateFrameProjection(first, n)
      view == RenderSetupView(poses, now)
      about == [number |-> n, image |-> image, done |-> FALSE, stereo |-> stereo]
  IN  /\ poses' = now
      /\ IF stereo /\ ~valid
         THEN /\ renderer' = begun /\ debug' = texture
              /\ drew' = Append(drew, NoHistory)
              /\ frame' = about /\ pixel' = <<>>
         ELSE IF config.debugView
         THEN /\ renderer' = RenderDebugView(ready, image) /\ debug' = texture
              /\ drew' = Append(drew, NoHistory)
              /\ frame' = about /\ pixel' = <<>>
         ELSE /\ pixel' = <<c, RenderedPixel(c)>>
              /\ renderer' = Drawn(DrawColour(textured, first, n), image)
              /\ debug' = SeenDebugTexture(texture)
              /\ drew' = Append(drew,
                   [slots |-> IF stereo THEN DepthSlots ELSE {},
                    colour |-> config.EnableTemporalFiltering /\ first])
              /\ frame' =
                   [number |-> n, image |-> image, done |-> TRUE, stereo |-> stereo,
                    other |-> frame.number > 0 /\ frame.image # image,
                    previous |-> view.previous, depth |-> DepthHistory(ready, image),
                    history |-> view.history,
                    colour |-> ColourHistory(flat),
                    sampled |-> Sampled(textured, texture)]

Pixels == IF setup.pixels = "all" THEN AllPixels ELSE PlainPixels

RenderPassthroughFrame ==
  /\ ~setup.vulkan /\ Len(drew) < setup.frames
  /\ config.projection = "StereoReconstruction" => source.size # 0
  /\ \E image \in Images, c \in Pixels, first, valid \in BOOLEAN :
       /\ poses.currentCamera = 0 => first
       /\ ~valid => c.stereo
       /\ ~c.vulkan
       /\ c.stereo <=> config.projection = "StereoReconstruction"
       /\ RenderFrame(image, c, first, valid)
  /\ UNCHANGED <<setup, changes, config, app, source, legacy>>

\* PassthroughRendererVulkan::RenderPassthroughFrame, which gives a frame up that
\* is stereo or has no camera image.
RenderFrameVulkan(image, c, handle, fails) ==
  LET n == Len(drew) + 1
      texture == GetTestPattern(debug)
      textured == SetupDebugTextureVulkan(legacy, texture)
      imported == IF texture.asked = "none" /\ handle # NoImage
                  THEN UpdateCameraFrameResource(textured, handle, fails) ELSE textured
      mapped == SetupUVDistortionMapVulkan(imported, config.projection, source.fovScale)
      masked == IF c.mode = "Masked"
                THEN RenderMaskedPrepassViews(mapped, image, app[image].size)
                ELSE mapped
      givenUp == texture.asked = "none" /\ CameraIsMissing(textured, handle, fails)
      about == [number |-> n, image |-> image, done |-> FALSE, stereo |-> FALSE]
  IN  IF config.projection = "StereoReconstruction"
      THEN frame' = about /\ debug' = texture /\ pixel' = <<>> /\ UNCHANGED legacy
      ELSE /\ debug' = SeenDebugTexture(texture)
           /\ IF givenUp
              THEN frame' = about /\ legacy' = NextFrame(imported) /\ pixel' = <<>>
              ELSE /\ legacy' = NextFrame(masked)
                   /\ pixel' = <<c, RenderedPixel(c)>>
                   /\ frame' = [number |-> n, image |-> image, done |-> TRUE,
                                stereo |-> FALSE, buffer |-> legacy.frameIndex,
                                handle |-> handle, sampled |-> CameraImage(masked, texture)]

RenderPassthroughFrameVulkan ==
  /\ setup.vulkan /\ Len(drew) < setup.frames
  /\ \E image \in Images, c \in Pixels, handle \in Handles \cup {NoImage}, fails \in BOOLEAN :
       c.vulkan /\ RenderFrameVulkan(image, c, handle, fails)
  /\ drew' = Append(drew, NoHistory)
  /\ UNCHANGED <<setup, changes, config, app, source, renderer, poses>>

Next ==
  \/ ChangeSetting \/ TakeNewSwapchain \/ NewDepthFrame \/ ChangeFieldOfView
  \/ InitRenderer \/ AskForDebugTexture \/ UpdateDebugTexture
  \/ RenderPassthroughFrame \/ RenderPassthroughFrameVulkan

Spec == Init /\ [][Next]_vars

-----------------------------------------------------------------------------
\* "Relative to the previous rendered frame" and "relative to the last written
\* history buffer" (layer_structs.h): what a frame filters with was drawn at
\* the pose it is projected from, when anything was drawn at that pose; it is
\* never an older map or buffer that was left there, nor one being drawn into.
HistoryIsOfItsPose ==
  frame.done /\ ~setup.vulkan =>
    /\ frame.stereo /\ config.StereoUseDisparityTemporalFiltering =>
         \A s \in DepthSlots :
           frame.previous > 0 /\ s \in drew[frame.previous].slots =>
             frame.depth[s] = IF frame.other THEN frame.previous ELSE 0
    /\ config.EnableTemporalFiltering
       /\ frame.history > 0 /\ drew[frame.history].colour =>
           frame.colour = IF renderer.filtersMade <= frame.history
                          THEN frame.history ELSE 0

FitDX11 ==
  /\ pixel[1].mode \in {"Masked", "AlphaTest"} =>
       renderer.temporary[frame.image] = app[frame.image]
  /\ frame.stereo =>
       /\ \A s \in DepthSlots :
            renderer.depthStencil[frame.image][s].size = DepthSize
       /\ renderer.mesh.hexagons = config.StereoUseHexagonGridMesh
  /\ config.projection # "RoomView2D" =>
       renderer.uvMap /\ renderer.fovScale = source.fovScale
  /\ debug.asked # "none" /\ debug.asked = debug.current =>
       /\ frame.sampled = [debug |-> TRUE, shows |-> debug.content]
       /\ renderer.debugTexture.size = debug.size

\* Where the legacy renderer draws with something else; the README has each.
ImportFailed == frame.sampled.shows = NoImage
MaskIsTooSmall(index) ==
  \E other \in EyeImages \ {index} :
    ViewOf(other) = ViewOf(index) /\ legacy.mask[other] >= app[frame.image].size
UploadIsLost == frame.buffer # 0
DebugTextureIsMissing == debug.asked # debug.current

FitVulkan ==
  /\ debug.asked = "none" =>
       frame.sampled = [debug |-> FALSE, shows |-> frame.handle] \/ ImportFailed
  /\ debug.asked # "none" =>
       \/ /\ frame.sampled = [debug |-> TRUE, shows |-> debug.content]
          /\ legacy.debugTexture.size = debug.size
       \/ UploadIsLost \/ DebugTextureIsMissing
  /\ config.projection # "RoomView2D" =>
       legacy.uvMap /\ legacy.fovScale = source.fovScale
  /\ pixel[1].mode = "Masked" =>
       \A b \in EyeImagesOf(frame.image) :
         legacy.mask[b] >= app[frame.image].size \/ MaskIsTooSmall(b)

\* What a frame draws with is what that frame wants, and as large as it wants it,
\* whatever has changed since it was made: depth maps and their mesh, temporary
\* targets and masks, the map of the lens, the camera image and the debug
\* texture; but for the four departures of the legacy renderer.
ResourcesFitTheFrame ==
  frame.done => IF setup.vulkan THEN FitVulkan ELSE FitDX11

\* The pixel is drawn as the mode asks, except in the cases of Departs.
PixelIsDrawnAsAsked ==
  pixel # <<>> /\ ~Departs(pixel[1]) => DrawnAs(pixel[1], pixel[2])
=============================================================================
