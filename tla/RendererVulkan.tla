---------------------------- MODULE RendererVulkan ----------------------------
(***************************************************************************)
(* PassthroughRendererVulkan, the legacy renderer: what it keeps from one  *)
(* frame to the next, as a record r, and the steps of a frame, each of     *)
(* which takes that record.                                                *)
(*                                                                         *)
(* A frame has a command buffer, one after the other, and for each there   *)
(* is a camera image: the texture of the camera frame, which another API   *)
(* shares by a handle, imported when the frame using that command buffer   *)
(* last had another one.  The map of the lens and the debug texture are    *)
(* made once, and again when they change.  For each image of either eye    *)
(* there is a mask, which the masked mode draws first; how large they are  *)
(* is remembered for all masks of an eye together, the last image of the   *)
(* left eye counting as one of the right.                                  *)
(*                                                                         *)
(* NoImage is an image that has been destroyed or was never made, and no   *)
(* two textures of the camera have one handle.  Which images a command     *)
(* buffer still reads while it is executed is left to InlineRenderer.      *)
(***************************************************************************)
EXTENDS Integers

CONSTANT NUM_SWAPCHAINS  \* command buffers, and images of a swapchain

ASSUME NumSwapchainsAssumption == NUM_SWAPCHAINS \in Nat \ {0}

Images == 0 .. NUM_SWAPCHAINS - 1

NoImage == 0

\* bufferIndex: the images of the left eye, then those of the right one.  The
\* images of a frame have the same index in both.
EyeImages == 0 .. 2 * NUM_SWAPCHAINS - 1
EyeImagesOf(image) == {image, NUM_SWAPCHAINS + image}

\* InitRenderer, at first and after a reset of the renderer, makes pipelines,
\* buffers and samplers, and leaves alone what frames have made.
InitRendererVulkan(r) == r

NewRendererVulkan ==
  [frameIndex |-> 0,
   cameraFrameRes |-> [i \in Images |-> [handle |-> NoImage, shows |-> NoImage]],
   uvMap |-> FALSE, fovScale |-> 0,
   debugTexture |-> [asked |-> "none", size |-> 0, shows |-> 0],
   mask |-> [b \in EyeImages |-> 0], maskWidth |-> [v \in 0..1 |-> 0]]

NextFrame(r) == [r EXCEPT !.frameIndex = (@ + 1) % NUM_SWAPCHAINS]

-----------------------------------------------------------------------------
\* UploadDebugTexture goes by the first command buffer, whichever is recorded.
UploadDebugTexture(r, debug) ==
  IF r.frameIndex = 0 THEN [r EXCEPT !.debugTexture.shows = debug.content] ELSE r

\* SetupDebugTexture, where there is none or it is another.
DebugTextureIsAnother(kept, debug) ==
  kept.asked # debug.current \/ debug.dimensionsUpdated

SetupDebugTextureVulkan(r, debug) ==
  IF debug.asked = "none" \/ debug.asked # debug.current THEN r
  ELSE UploadDebugTexture(
         IF DebugTextureIsAnother(r.debugTexture, debug)
         THEN [r EXCEPT !.debugTexture =
                 [asked |-> debug.current, size |-> debug.size, shows |-> 0]]
         ELSE r, debug)

\* UpdateCameraFrameResource.  A failure leaves the handle of the image that has
\* been destroyed, and a frame with that handle takes it for still there.
UpdateCameraFrameResource(r, handle, fails) ==
  IF r.cameraFrameRes[r.frameIndex].handle = handle THEN r
  ELSE [r EXCEPT !.cameraFrameRes[r.frameIndex] =
          IF fails THEN [@ EXCEPT !.shows = NoImage]
          ELSE [handle |-> handle, shows |-> handle]]

CameraIsMissing(r, handle, fails) ==
  \/ handle = NoImage
  \/ fails /\ r.cameraFrameRes[r.frameIndex].handle # handle

SetupUVDistortionMapVulkan(r, mode, fovScale) ==
  IF mode # "RoomView2D" /\ (~r.uvMap \/ r.fovScale # fovScale)
  THEN [r EXCEPT !.uvMap = TRUE, !.fovScale = fovScale] ELSE r

\* viewIndex of UpdateDescriptorSets
ViewOf(index) == IF index >= NUM_SWAPCHAINS - 1 THEN 1 ELSE 0

\* "Recreate the intermediate rendertarget if it can't hold the entire viewport"
MaskCannotHold(r, index, size) ==
  r.mask[index] = 0 \/ r.maskWidth[ViewOf(index)] < size

SetupIntermediateRenderTarget(r, index, size) ==
  IF MaskCannotHold(r, index, size)
  THEN [r EXCEPT !.mask[index] = size, !.maskWidth[ViewOf(index)] = size] ELSE r

\* RenderMaskedPrepassView for the left eye and for the right one, which asks for
\* the size of the left one, too.
RenderMaskedPrepassViews(r, image, size) ==
  SetupIntermediateRenderTarget(
    SetupIntermediateRenderTarget(r, image, size), NUM_SWAPCHAINS + image, size)

\* What UpdateDescriptorSets binds as the camera image.
CameraImage(r, debug) ==
  IF debug.asked # "none" THEN [debug |-> TRUE, shows |-> r.debugTexture.shows]
  ELSE [debug |-> FALSE, shows |-> r.cameraFrameRes[r.frameIndex].shows]
=============================================================================
