--------------------------- MODULE RenderersProofs ---------------------------
(***************************************************************************)
(* Proofs about Renderers, for every set of setups, sizes, handles and     *)
(* pixels, every scale of colour and every number of images: what a frame  *)
(* filters with is the history of its pose, what it draws with fits it,    *)
(* and its pixels are what their modes ask for.                            *)
(*                                                                         *)
(* A step of a frame takes the state of the renderer and returns another,  *)
(* so each has a lemma of its own about the two, and a frame is the chain  *)
(* of them.  Of the depth maps it is enough to know what those of the      *)
(* image drawn last show.  Of the buffers of colour it takes an invariant  *)
(* of both, the one at hand and the other: each shows the camera frame of  *)
(* one of the two poses kept, or it is younger than that frame.            *)
(***************************************************************************)
EXTENDS Renderers, SequenceTheorems, TLAPS

-----------------------------------------------------------------------------
(* Types.                                                                  *)

Texture == [swapchain : Nat, size : Nat]
\* A depth map or a buffer of colour.
SurfaceType == [texture : BOOLEAN, size : Nat, shows : Nat]
\* The debug textures there are.
DebugName == {"none", "TestImage", "Disparity"}

\* The debug texture there is, and the one a renderer keeps.
TextureType ==
  [asked : DebugName, current : DebugName, size : Nat, content : Nat,
   dimensionsUpdated : BOOLEAN]
DebugTextureType == [asked : DebugName, size : Nat, shows : Nat]

PosesType == [lastHMD : Nat, lastCamera : Nat, currentCamera : Nat]
HistoryType == [slots : SUBSET Slots, colour : BOOLEAN]

\* The state of PassthroughRendererDX11.
RendererType ==
  [frameCount : Nat, uvMap : BOOLEAN, fovScale : Nat,
   disparityMapWidth : Nat, disparityFilters : SUBSET Int,
   mesh : [size : Nat, hexagons : BOOLEAN],
   prevSwapchain : Images, currentCameraFilterIndex : Slots,
   target : [Images -> Texture], temporary : [Images -> Texture],
   depthStencil : [Images -> [Slots -> SurfaceType]],
   cameraFilter : [Slots -> SurfaceType],
   debugTexture : DebugTextureType,
   filtersMade : Nat]

\* The state of PassthroughRendererVulkan.
LegacyType ==
  [frameIndex : Images,
   cameraFrameRes : [Images -> [handle : Handles \cup {NoImage},
                                shows : Handles \cup {NoImage}]],
   uvMap : BOOLEAN, fovScale : Nat,
   debugTexture : DebugTextureType,
   mask : [EyeImages -> Nat], maskWidth : [0..1 -> Nat]]

\* The settings a frame is drawn by.
ConfigType ==
  [projection : {"RoomView2D", "Custom2D", "StereoReconstruction"},
   EnableTemporalFiltering : BOOLEAN,
   StereoUseDisparityTemporalFiltering : BOOLEAN,
   StereoCutoutEnabled : BOOLEAN,
   StereoUseHexagonGridMesh : BOOLEAN,
   StereoDepthMapScale : {1, 2},
   debugView : BOOLEAN]

\* What the steps of a frame read.
FrameType ==
  /\ config \in ConfigType
  /\ app \in [Images -> [swapchain : Nat \ {0}, size : Sizes]]
  /\ source \in [size : Nat, fovScale : Nat]
  /\ Len(drew) \in Nat

\* The application's image is a texture that is there.
LEMMA AppTexture ==
  ASSUME FrameType, NEW image \in Images
  PROVE  /\ app[image] \in Texture /\ app[image].swapchain > 0
         /\ app[image].size \in Nat /\ app[image].size > 0
<1>1. app[image] \in [swapchain : Nat \ {0}, size : Sizes]
  BY DEF FrameType
<1>2. app[image].size \in Sizes
  BY <1>1
<1>3. app[image].size \in Nat \ {0}
  BY <1>2, SizesAssumption
<1>4. app[image].swapchain \in Nat \ {0}
  BY <1>1
<1>5. app[image] = [swapchain |-> app[image].swapchain, size |-> app[image].size]
  BY <1>1
<1>6. app[image] \in Texture
  BY <1>3, <1>4, <1>5 DEF Texture
<1> QED
  BY <1>3, <1>4, <1>6

-----------------------------------------------------------------------------
(* The resources of a frame in PassthroughRendererDX11, one step at a time.*)

\* A surface shows and measures what it did.
SameSurface(new, old) == new.shows = old.shows /\ new.size = old.size

\* A depth map whose texture is given up shows what it did.
LEMMA TextureGivenUp ==
  ASSUME NEW x \in SurfaceType
  PROVE  /\ [x EXCEPT !.texture = FALSE] \in SurfaceType
         /\ SameSurface([x EXCEPT !.texture = FALSE], x)
BY DEF SurfaceType, SameSurface

\* What setting up for stereo leaves alone.
SameButMaps(s, r) ==
  /\ s \in RendererType
  /\ s.target = r.target /\ s.cameraFilter = r.cameraFilter
  /\ s.temporary = r.temporary
  /\ s.prevSwapchain = r.prevSwapchain
  /\ s.currentCameraFilterIndex = r.currentCameraFilterIndex
  /\ s.debugTexture = r.debugTexture /\ s.filtersMade = r.filtersMade
  /\ s.uvMap = r.uvMap /\ s.fovScale = r.fovScale

\* SetupMesh leaves a mesh of the kind asked for.
LEMMA MeshParts ==
  ASSUME FrameType, NEW r \in RendererType, NEW image \in Images,
         NEW s, s = SetupMesh(r, image)
  PROVE  /\ SameButMaps(s, r) /\ s.depthStencil = r.depthStencil
         /\ s.mesh.hexagons = config.StereoUseHexagonGridMesh
<1>1. DepthSize \in Nat
  BY DEF DepthSize, FrameType, ConfigType
<1>2. s \in RendererType /\ s = [r EXCEPT !.mesh = s.mesh]
  BY <1>1 DEF SetupMesh, RendererType, FrameType, ConfigType
<1>3. s.mesh.hexagons = config.StereoUseHexagonGridMesh
  BY DEF SetupMesh, RendererType
<1> QED
  BY <1>2, <1>3 DEF SameButMaps, RendererType

\* ResetDisparityMap gives textures up and clears no map.
LEMMA DisparityMapParts ==
  ASSUME FrameType, NEW r \in RendererType, NEW image \in Images,
         NEW s, s = ResetDisparityMap(r, image)
  PROVE  /\ SameButMaps(s, r) /\ s.mesh = r.mesh
         /\ \A i \in Images, k \in Slots :
              SameSurface(s.depthStencil[i][k], r.depthStencil[i][k])
<1>1. CASE DisparityMapReset(r, image)
  <2> DEFINE d == [i \in Images |-> [k \in Slots |->
                     [r.depthStencil[i][k] EXCEPT !.texture = FALSE]]]
  <2>1. \A i \in Images, k \in Slots : r.depthStencil[i][k] \in SurfaceType
    BY DEF RendererType
  <2>2. \A i \in Images, k \in Slots :
          d[i][k] \in SurfaceType /\ SameSurface(d[i][k], r.depthStencil[i][k])
    BY <2>1, TextureGivenUp
  <2>3. d \in [Images -> [Slots -> SurfaceType]]
    BY <2>2
  <2>4. PICK f \in SUBSET Int :
          s = [r EXCEPT !.disparityMapWidth = source.size, !.disparityFilters = f,
                        !.depthStencil = d]
    <3>1. (IF config.StereoUseDisparityTemporalFiltering
           THEN 0 .. r.frameCount - 1 ELSE r.disparityFilters) \in SUBSET Int
      BY DEF RendererType
    <3> QED
      BY <1>1, <3>1 DEF ResetDisparityMap
  <2>5. source.size \in Nat
    BY DEF FrameType
  <2> HIDE DEF d
  <2>6. s.depthStencil = d /\ s.mesh = r.mesh
    BY <2>4 DEF RendererType
  <2>7. s \in RendererType
    BY <2>3, <2>4, <2>5 DEF RendererType
  <2>8. SameButMaps(s, r)
    BY <2>4, <2>7 DEF SameButMaps, RendererType
  <2> QED
    BY <2>2, <2>6, <2>8
<1>2. CASE ~DisparityMapReset(r, image)
  <2>1. s = r
    BY <1>2 DEF ResetDisparityMap
  <2> QED
    BY <2>1 DEF SameButMaps, SameSurface
<1> QED
  BY <1>1, <1>2

\* SetupDepthStencils leaves the first map of the image as large as it is wanted.
LEMMA DepthStencilParts ==
  ASSUME FrameType, NEW r \in RendererType, NEW image \in Images,
         NEW s, s = SetupDepthStencils(r, image)
  PROVE  /\ SameButMaps(s, r) /\ s.mesh = r.mesh
         /\ \A i \in Images : i # image => s.depthStencil[i] = r.depthStencil[i]
         /\ s.depthStencil[image][0].size = DepthSize
         /\ \/ s.depthStencil[image][1].size = DepthSize
            \/ s.depthStencil[image] = r.depthStencil[image]
<1>1. CASE DepthMapsReset(r, image)
  <2>1. DepthSize \in Nat
    BY DEF DepthSize, FrameType, ConfigType
  <2> PICK new : new = NewSurfaces(DepthSize)
    OBVIOUS
  <2>2. /\ new \in [Slots -> SurfaceType]
        /\ new[0].size = DepthSize /\ new[1].size = DepthSize
    BY <2>1 DEF NewSurfaces, Surface, SurfaceType, Slots
  <2> PICK d : d = [r.depthStencil EXCEPT ![image] = new]
    OBVIOUS
  <2>3. s = [r EXCEPT !.depthStencil = d]
    BY <1>1 DEF SetupDepthStencils, RendererType
  <2>4. /\ d \in [Images -> [Slots -> SurfaceType]] /\ d[image] = new
        /\ \A i \in Images : i # image => d[i] = r.depthStencil[i]
    BY <2>2 DEF RendererType
  <2>5. s.depthStencil = d /\ s.mesh = r.mesh
    BY <2>3 DEF RendererType
  <2>6. s \in RendererType
    BY <2>3, <2>4 DEF RendererType
  <2>7. SameButMaps(s, r)
    BY <2>3, <2>6 DEF SameButMaps, RendererType
  <2> QED
    BY <2>2, <2>4, <2>5, <2>7
<1>2. CASE ~DepthMapsReset(r, image)
  <2>1. s = r /\ r.depthStencil[image][0].size = DepthSize
    BY <1>2 DEF SetupDepthStencils, DepthMapsReset
  <2> QED
    BY <2>1 DEF SameButMaps
<1> QED
  BY <1>1, <1>2

\* The three together, in their order.
LEMMA StereoParts ==
  ASSUME FrameType, NEW r \in RendererType, NEW image \in Images,
         NEW s, s = SetupStereo(r, image)
  PROVE  /\ SameButMaps(s, r)
         /\ s.mesh.hexagons = config.StereoUseHexagonGridMesh
         /\ \A i \in Images, k \in Slots :
              i # image => SameSurface(s.depthStencil[i][k], r.depthStencil[i][k])
         /\ s.depthStencil[image][0].size = DepthSize
         /\ \/ s.depthStencil[image][1].size = DepthSize
            \/ /\ r.depthStencil[image][0].size = DepthSize
               /\ s.depthStencil[image][1].size = r.depthStencil[image][1].size
<1> PICK a : a = SetupMesh(r, image)
  OBVIOUS
<1> PICK b : b = ResetDisparityMap(a, image)
  OBVIOUS
<1>1. /\ SameButMaps(a, r) /\ a.depthStencil = r.depthStencil
      /\ a.mesh.hexagons = config.StereoUseHexagonGridMesh
  BY MeshParts
<1>2. a \in RendererType
  BY <1>1 DEF SameButMaps
<1>3. /\ SameButMaps(b, a) /\ b.mesh = a.mesh
      /\ \A i \in Images, k \in Slots :
           SameSurface(b.depthStencil[i][k], a.depthStencil[i][k])
  BY <1>2, DisparityMapParts
<1>4. b \in RendererType
  BY <1>3 DEF SameButMaps
<1>5. s = SetupDepthStencils(b, image)
  BY DEF SetupStereo
<1>6. /\ SameButMaps(s, b) /\ s.mesh = b.mesh
      /\ \A i \in Images : i # image => s.depthStencil[i] = b.depthStencil[i]
      /\ s.depthStencil[image][0].size = DepthSize
      /\ \/ s.depthStencil[image][1].size = DepthSize
         \/ s.depthStencil[image] = b.depthStencil[image]
  BY <1>4, <1>5, DepthStencilParts
<1>7. SameButMaps(s, r)
  BY <1>1, <1>3, <1>6 DEF SameButMaps
<1>8. ASSUME NEW i \in Images, NEW k \in Slots, i # image
      PROVE  SameSurface(s.depthStencil[i][k], r.depthStencil[i][k])
  BY <1>1, <1>3, <1>6, <1>8
<1>9. 0 \in Slots /\ 1 \in Slots
  BY DEF Slots
<1>10. \/ s.depthStencil[image][1].size = DepthSize
       \/ /\ r.depthStencil[image][0].size = DepthSize
          /\ s.depthStencil[image][1].size = r.depthStencil[image][1].size
  BY <1>1, <1>3, <1>6, <1>9 DEF SameSurface
<1> QED
  BY <1>1, <1>3, <1>6, <1>7, <1>8, <1>10

\* What a frame with images of colour alone may have done to the renderer.
SameButColour(s, r) ==
  /\ s \in RendererType
  /\ s.temporary = r.temporary /\ s.depthStencil = r.depthStencil
  /\ s.prevSwapchain = r.prevSwapchain /\ s.debugTexture = r.debugTexture

\* InitRenderTarget takes the image, and may drop the buffers of colour.
LEMMA TargetParts ==
  ASSUME FrameType, NEW r \in RendererType, NEW image \in Images,
         NEW s, s = InitRenderTarget(r, image)
  PROVE  /\ SameButColour(s, r)
         /\ s.target[image] = app[image]
         /\ s.cameraFilter = r.cameraFilter \/ s.cameraFilter = NoSurfaces
         /\ s.currentCameraFilterIndex = r.currentCameraFilterIndex
         /\ s.filtersMade = r.filtersMade
<1>1. app[image] \in Texture
  BY AppTexture
<1>2. NoSurfaces \in [Slots -> SurfaceType]
  BY DEF NoSurfaces, NoSurface, SurfaceType
<1>3. Larger(r.frameCount, image + 1) \in Nat
  BY NumSwapchainsAssumption DEF Larger, Images, RendererType
<1>4. s = [r EXCEPT !.frameCount = Larger(r.frameCount, image + 1),
                     !.target[image] = app[image],
                     !.cameraFilter =
                        IF r.target[image] # app[image] /\ ~config.EnableTemporalFiltering
                        THEN NoSurfaces ELSE r.cameraFilter]
  BY DEF InitRenderTarget, CheckInitFrameData, RendererType
<1>5. s \in RendererType
  <2>1. [r.target EXCEPT ![image] = app[image]] \in [Images -> Texture]
    BY <1>1 DEF RendererType
  <2>2. (IF r.target[image] # app[image] /\ ~config.EnableTemporalFiltering
         THEN NoSurfaces ELSE r.cameraFilter) \in [Slots -> SurfaceType]
    BY <1>2 DEF RendererType
  <2> QED
    BY <1>3, <1>4, <2>1, <2>2 DEF RendererType
<1>6. s.target[image] = app[image]
  BY <1>4 DEF RendererType
<1> QED
  BY <1>4, <1>5, <1>6 DEF RendererType, SameButColour

\* SetupUVDistortionMap leaves the map for the field of view there is.
LEMMA DistortionMapParts ==
  ASSUME FrameType, NEW r \in RendererType,
         NEW s, s = SetupUVDistortionMap(r, config.projection)
  PROVE  /\ SameButColour(s, r) /\ s.target = r.target
         /\ s.cameraFilter = r.cameraFilter
         /\ s.currentCameraFilterIndex = r.currentCameraFilterIndex
         /\ s.filtersMade = r.filtersMade
         /\ config.projection # "RoomView2D" =>
              s.uvMap /\ s.fovScale = source.fovScale
<1>1. source.fovScale \in Nat
  BY DEF FrameType
<1>2. CASE config.projection # "RoomView2D" /\ (~r.uvMap \/ r.fovScale # source.fovScale)
  <2>1. s = [r EXCEPT !.uvMap = TRUE, !.fovScale = source.fovScale]
    BY <1>2 DEF SetupUVDistortionMap
  <2>2. s \in RendererType
    BY <1>1, <2>1 DEF RendererType
  <2> QED
    BY <2>1, <2>2 DEF RendererType, SameButColour
<1>3. CASE ~(config.projection # "RoomView2D" /\ (~r.uvMap \/ r.fovScale # source.fovScale))
  BY <1>3 DEF SetupUVDistortionMap, SameButColour
<1> QED
  BY <1>2, <1>3

\* SetupTemporalFilters makes buffers that show nothing, when there are none.
LEMMA TemporalFiltersParts ==
  ASSUME FrameType, NEW r \in RendererType, NEW image \in Images,
         NEW s, s = SetupTemporalFilters(r, image)
  PROVE  /\ SameButColour(s, r) /\ s.target = r.target
         /\ s.uvMap = r.uvMap /\ s.fovScale = r.fovScale
         /\ s.currentCameraFilterIndex = r.currentCameraFilterIndex
         /\ \/ s.cameraFilter = r.cameraFilter /\ s.filtersMade = r.filtersMade
            \/ /\ s.filtersMade = Len(drew) + 1
               /\ s.cameraFilter[0].shows = 0 /\ s.cameraFilter[1].shows = 0
         /\ config.EnableTemporalFiltering => s.cameraFilter[0].texture
<1>1. CASE config.EnableTemporalFiltering /\ ~r.cameraFilter[0].texture
  <2> PICK new : new = NewSurfaces(app[image].size)
    OBVIOUS
  <2>1. app[image].size \in Nat /\ Len(drew) + 1 \in Nat
    BY AppTexture DEF FrameType
  <2>2. /\ new \in [Slots -> SurfaceType] /\ new[0].texture
        /\ new[0].shows = 0 /\ new[1].shows = 0
    BY <2>1 DEF NewSurfaces, Surface, SurfaceType, Slots
  <2>3. s = [r EXCEPT !.cameraFilter = new, !.filtersMade = Len(drew) + 1]
    BY <1>1 DEF SetupTemporalFilters
  <2>4. s \in RendererType
    BY <2>1, <2>2, <2>3 DEF RendererType
  <2>5. SameButColour(s, r)
    BY <2>3, <2>4 DEF SameButColour, RendererType
  <2> QED
    BY <2>2, <2>3, <2>5 DEF RendererType
<1>2. CASE ~(config.EnableTemporalFiltering /\ ~r.cameraFilter[0].texture)
  BY <1>2 DEF SetupTemporalFilters, SameButColour
<1> QED
  BY <1>1, <1>2

\* A temporary target of the image drawn now is as large as the image.
TargetKnown(r, i) ==
  /\ r.temporary[i].swapchain <= app[i].swapchain
  /\ r.temporary[i].swapchain = app[i].swapchain => r.temporary[i] = app[i]

\* GetTemporaryRenderTarget leaves a target as large as the image.
LEMMA TemporaryTargetParts ==
  ASSUME FrameType, NEW r \in RendererType, NEW image \in Images,
         r.target[image] = app[image],
         \A i \in Images : TargetKnown(r, i),
         NEW s, s = GetTemporaryRenderTarget(r, image)
  PROVE  /\ SameButMaps(s, [r EXCEPT !.temporary = s.temporary])
         /\ s.depthStencil = r.depthStencil /\ s.mesh = r.mesh
         /\ s.temporary[image] = app[image]
         /\ \A i \in Images : TargetKnown(s, i)
<1>1. CASE r.temporary[image].swapchain = app[image].swapchain
  <2>1. s = r /\ r.temporary[image] = app[image]
    BY <1>1 DEF GetTemporaryRenderTarget, TargetKnown
  <2>2. [r EXCEPT !.temporary = s.temporary] = r
    BY <2>1 DEF RendererType
  <2> QED
    BY <2>1, <2>2 DEF SameButMaps
<1>2. CASE r.temporary[image].swapchain # app[image].swapchain
  <2>1. app[image] \in Texture /\ app[image].swapchain \in Nat
    BY AppTexture DEF Texture
  <2> PICK t : t = [r.temporary EXCEPT ![image] = app[image]]
    OBVIOUS
  <2>2. /\ t \in [Images -> Texture] /\ t[image] = app[image]
        /\ \A i \in Images : i # image => t[i] = r.temporary[i]
    BY <2>1 DEF RendererType
  <2>3. s = [r EXCEPT !.temporary = t]
    BY <1>2 DEF GetTemporaryRenderTarget, RendererType
  <2>4. s.temporary = t /\ s.depthStencil = r.depthStencil /\ s.mesh = r.mesh
    BY <2>3 DEF RendererType
  <2>5. s \in RendererType
    BY <2>2, <2>3 DEF RendererType
  <2>6. SameButMaps(s, [r EXCEPT !.temporary = s.temporary])
    BY <2>3, <2>4, <2>5 DEF SameButMaps
  <2>7. ASSUME NEW i \in Images PROVE TargetKnown(s, i)
    <3>1. CASE i = image
      BY <2>1, <2>2, <2>4, <3>1 DEF TargetKnown
    <3>2. CASE i # image
      BY <2>2, <2>4, <3>2 DEF TargetKnown
    <3> QED
      BY <3>1, <3>2
  <2> QED
    BY <2>2, <2>4, <2>6, <2>7
<1> QED
  BY <1>1, <1>2

\* The kept debug texture is as large as the one there is, which otherwise says
\* that its size has changed.
SizeSeen(kept, texture) ==
  kept.asked = texture.current /\ ~texture.dimensionsUpdated => kept.size = texture.size

\* Until there is a debug texture its size has not changed.
NothingYet(texture) == texture.current = "none" => ~texture.dimensionsUpdated

\* SetupDebugTexture leaves the debug texture as large as the one there is.
LEMMA DebugTextureParts ==
  ASSUME NEW r \in RendererType, NEW texture \in TextureType,
         SizeSeen(r.debugTexture, texture), NothingYet(texture),
         NEW s, s = SetupDebugTexture(r, texture),
         NEW seen, seen = SeenDebugTexture(texture)
  PROVE  /\ s \in RendererType /\ s = [r EXCEPT !.debugTexture = s.debugTexture]
         /\ seen \in TextureType
         /\ SizeSeen(s.debugTexture, seen) /\ NothingYet(seen)
         /\ seen.asked = texture.asked /\ seen.current = texture.current
         /\ seen.size = texture.size /\ seen.content = texture.content
         /\ texture.asked # "none" /\ texture.asked = texture.current =>
              /\ s.debugTexture.shows = texture.content
              /\ s.debugTexture.size = texture.size
<1>1. /\ seen \in TextureType
      /\ seen.asked = texture.asked /\ seen.current = texture.current
      /\ seen.size = texture.size /\ seen.content = texture.content
      /\ seen.dimensionsUpdated <=> texture.dimensionsUpdated /\ texture.asked # texture.current
  BY DEF SeenDebugTexture, TextureType
<1>2. CASE texture.asked = "none" \/ texture.asked # texture.current
  <2>1. s = r
    BY <1>2 DEF SetupDebugTexture
  <2>2. r = [r EXCEPT !.debugTexture = r.debugTexture]
    BY DEF RendererType
  <2>3. SizeSeen(s.debugTexture, seen) /\ NothingYet(seen)
    BY <1>1, <1>2, <2>1 DEF SizeSeen, NothingYet
  <2> QED
    BY <1>1, <1>2, <2>1, <2>2, <2>3
<1>3. CASE texture.asked # "none" /\ texture.asked = texture.current
  <2> PICK d : d = [asked |-> texture.current, shows |-> texture.content,
                    size |-> IF DebugTextureIsAnother(r.debugTexture, texture)
                             THEN texture.size ELSE r.debugTexture.size]
    OBVIOUS
  <2>1. s = [r EXCEPT !.debugTexture = d]
    BY <1>3 DEF SetupDebugTexture, RendererType
  <2>2. d.size = texture.size
    BY DEF DebugTextureIsAnother, SizeSeen
  <2>3. d \in DebugTextureType
    BY <2>2 DEF DebugTextureType, TextureType
  <2>4. s \in RendererType /\ s.debugTexture = d
    BY <2>1, <2>3 DEF RendererType
  <2> QED
    BY <1>1, <1>3, <2>1, <2>2, <2>4 DEF SizeSeen, NothingYet
<1> QED
  BY <1>2, <1>3

-----------------------------------------------------------------------------
(* The passes of a frame.                                                  *)

\* GetTestPattern says that the size has changed.
LEMMA TestPatternParts ==
  ASSUME NEW old \in TextureType, NEW kept, SizeSeen(kept, old), NothingYet(old),
         NEW texture, texture = GetTestPattern(old)
  PROVE  /\ texture \in TextureType /\ texture.asked = old.asked
         /\ SizeSeen(kept, texture) /\ NothingYet(texture)
<1>1. CASE old.asked = "TestImage" /\ old.current # "TestImage"
  <2>1. texture = [old EXCEPT !.current = "TestImage", !.size = 1,
                              !.content = old.content + 1, !.dimensionsUpdated = TRUE]
    BY <1>1 DEF GetTestPattern, TextureType
  <2>2. texture \in TextureType
    <3>1. "TestImage" \in DebugName /\ old.content + 1 \in Nat /\ 1 \in Nat
      BY DEF DebugName, TextureType
    <3> QED
      BY <2>1, <3>1 DEF TextureType
  <2>3. texture.asked = old.asked /\ texture.current = "TestImage" /\ texture.dimensionsUpdated
    BY <2>1 DEF TextureType
  <2> QED
    BY <2>2, <2>3 DEF SizeSeen, NothingYet
<1>2. CASE ~(old.asked = "TestImage" /\ old.current # "TestImage")
  BY <1>2, SMTT(30) DEF GetTestPattern
<1> QED
  BY <1>1, <1>2

\* DrawDepth draws into the maps of the image and no other.
LEMMA DrawDepthParts ==
  ASSUME NEW r \in RendererType, NEW image \in Images, NEW n \in Nat,
         NEW s, s = DrawDepth(r, image, n)
  PROVE  /\ SameButMaps(s, r) /\ s.mesh = r.mesh
         /\ \A i \in Images : i # image => s.depthStencil[i] = r.depthStencil[i]
         /\ \A k \in Slots : s.depthStencil[image][k].size = r.depthStencil[image][k].size
         /\ \A k \in DepthSlots : s.depthStencil[image][k].shows = n
<1> PICK old : old = r.depthStencil[image]
  OBVIOUS
<1>1. old \in [Slots -> SurfaceType] /\ 0 \in Slots /\ 1 \in Slots
  BY DEF RendererType, Slots
<1> PICK new : new = [old EXCEPT ![0].shows = n,
                                 ![1].shows = IF 1 \in DepthSlots THEN n ELSE old[1].shows]
  OBVIOUS
<1>2. /\ new \in [Slots -> SurfaceType]
      /\ \A k \in Slots : new[k].size = old[k].size
      /\ \A k \in DepthSlots : new[k].shows = n
  BY <1>1 DEF SurfaceType, Slots, DepthSlots
<1> PICK d : d = [r.depthStencil EXCEPT ![image] = new]
  OBVIOUS
<1>3. s = [r EXCEPT !.depthStencil = d]
  BY <1>1, ZenonT(60) DEF DrawDepth, RendererType, SurfaceType
<1>4. /\ d \in [Images -> [Slots -> SurfaceType]] /\ d[image] = new
      /\ \A i \in Images : i # image => d[i] = r.depthStencil[i]
  BY <1>2 DEF RendererType
<1>5. s \in RendererType /\ s.depthStencil = d /\ s.mesh = r.mesh
  BY <1>3, <1>4 DEF RendererType
<1>6. SameButMaps(s, r)
  BY <1>3, <1>5 DEF SameButMaps, RendererType
<1>7. s.depthStencil[image] = new /\ DepthSlots \subseteq Slots
  BY <1>4, <1>5 DEF DepthSlots, Slots
<1> QED
  BY <1>2, <1>4, <1>5, <1>6, <1>7

\* DrawColour draws into the buffer at hand and not into the other.
LEMMA DrawColourParts ==
  ASSUME NEW r \in RendererType, NEW first, NEW n \in Nat,
         NEW s, s = DrawColour(r, first, n)
  PROVE  /\ s \in RendererType
         /\ s = [r EXCEPT !.cameraFilter = s.cameraFilter]
         /\ s.cameraFilter[0].texture = r.cameraFilter[0].texture
         /\ \A k \in Slots : k # r.currentCameraFilterIndex =>
              s.cameraFilter[k].shows = r.cameraFilter[k].shows
         /\ IF config.EnableTemporalFiltering /\ first
            THEN s.cameraFilter[r.currentCameraFilterIndex].shows = n
            ELSE s.cameraFilter = r.cameraFilter
<1>1. CASE config.EnableTemporalFiltering /\ first
  <2> PICK c : c = [r.cameraFilter EXCEPT ![r.currentCameraFilterIndex].shows = n]
    OBVIOUS
  <2>1. r.cameraFilter \in [Slots -> SurfaceType] /\ r.currentCameraFilterIndex \in Slots
    BY DEF RendererType
  <2>2. /\ c \in [Slots -> SurfaceType]
        /\ c[r.currentCameraFilterIndex].shows = n
        /\ \A k \in Slots : c[k].texture = r.cameraFilter[k].texture
        /\ \A k \in Slots : k # r.currentCameraFilterIndex => c[k] = r.cameraFilter[k]
    BY <2>1 DEF SurfaceType
  <2>3. s = [r EXCEPT !.cameraFilter = c]
    BY <1>1 DEF DrawColour, RendererType
  <2>4. s \in RendererType /\ s.cameraFilter = c
    BY <2>2, <2>3 DEF RendererType
  <2>5. 0 \in Slots
    BY DEF Slots
  <2> QED
    BY <1>1, <2>2, <2>3, <2>4, <2>5
<1>2. CASE ~(config.EnableTemporalFiltering /\ first)
  <2>1. s = r
    BY <1>2 DEF DrawColour
  <2>2. r = [r EXCEPT !.cameraFilter = r.cameraFilter]
    BY DEF RendererType
  <2> QED
    BY <1>2, <2>1, <2>2
<1> QED
  BY <1>1, <1>2

\* Buffer k shows frame n if that one was drawn into it, and nothing if it is
\* older than the buffers.
Buffer(r, drawn, k, n) ==
  IF r.filtersMade <= n
  THEN n > 0 /\ drawn[n].colour => r.cameraFilter[k].shows = n
  ELSE r.cameraFilter[k].shows = 0

\* The buffer at hand is for the last camera frame, the other for the one before.
Buffers(r, drawn, p) ==
  /\ r.filtersMade <= Len(drawn)
  /\ r.cameraFilter[0].texture =>
       /\ Buffer(r, drawn, r.currentCameraFilterIndex, p.currentCamera)
       /\ Buffer(r, drawn, 1 - r.currentCameraFilterIndex, p.lastCamera)

\* After n frames: the poses are of frames there have been, those of camera frames
\* in their order.
PosesInOrder(p, n) ==
  /\ p.lastHMD = n
  /\ p.currentCamera <= n
  /\ \/ p.lastCamera < p.currentCamera
     \/ p.lastCamera = 0 /\ p.currentCamera = 0

\* The poses of frame n after p.
NextPoses(q, p, n, first) ==
  /\ first => q.currentCamera = n /\ q.lastCamera = p.currentCamera
  /\ ~first => q.currentCamera = p.currentCamera /\ q.lastCamera = p.lastCamera

\* Frame n takes turns with the buffers if its camera frame is new.
Toggled(s, r, first) ==
  s.currentCameraFilterIndex = IF first THEN 1 - r.currentCameraFilterIndex
                               ELSE r.currentCameraFilterIndex

\* Whether there are new buffers for the history of colour.
FiltersBegun(s, r, n) ==
  \/ s.cameraFilter = r.cameraFilter /\ s.filtersMade = r.filtersMade
  \/ ~s.cameraFilter[0].texture /\ s.filtersMade = r.filtersMade
  \/ /\ s.filtersMade = n
     /\ s.cameraFilter[0].shows = 0 /\ s.cameraFilter[1].shows = 0

\* Frame n, which has drawn nothing into them, is added.
AddedTo(new, old, n) ==
  /\ n \in Nat /\ n > 0 /\ Len(old) = n - 1 /\ Len(new) = n
  /\ \A i \in 1..(n - 1) : new[i] = old[i]
  /\ ~new[n].colour

\* CalculateFrameProjection keeps them in order.
LEMMA PosesParts ==
  ASSUME NEW first \in BOOLEAN, poses \in PosesType, Len(drew) \in Nat,
         PosesInOrder(poses, Len(drew)),
         NEW now, now = CalculateFrameProjection(first, Len(drew) + 1)
  PROVE  /\ now \in PosesType /\ PosesInOrder(now, Len(drew) + 1)
         /\ NextPoses(now, poses, Len(drew) + 1, first)
<1> PICK n \in Nat : n = Len(drew)
  OBVIOUS
<1>1. /\ poses.lastHMD \in Nat /\ poses.lastCamera \in Nat /\ poses.currentCamera \in Nat
      /\ poses.currentCamera <= n
      /\ \/ poses.lastCamera < poses.currentCamera
         \/ poses.lastCamera = 0 /\ poses.currentCamera = 0
  BY DEF PosesType, PosesInOrder
<1>2. CASE first
  <2>1. now = [lastHMD |-> n + 1, lastCamera |-> poses.currentCamera, currentCamera |-> n + 1]
    BY <1>2 DEF CalculateFrameProjection
  <2>2. now \in PosesType
    BY <1>1, <2>1 DEF PosesType
  <2>3. /\ now.lastHMD = n + 1 /\ now.currentCamera = n + 1
        /\ now.lastCamera = poses.currentCamera
    BY <2>1
  <2>4. now.lastCamera < now.currentCamera /\ now.currentCamera <= n + 1
    BY <1>1, <2>3
  <2> QED
    BY <1>2, <2>2, <2>3, <2>4 DEF PosesInOrder, NextPoses
<1>3. CASE ~first
  <2>1. now = [lastHMD |-> n + 1, lastCamera |-> poses.lastCamera,
               currentCamera |-> poses.currentCamera]
    BY <1>3 DEF CalculateFrameProjection
  <2> QED
    BY <1>1, <1>3, <2>1 DEF PosesType, PosesInOrder, NextPoses
<1> QED
  BY <1>2, <1>3

\* A frame begins: the buffers change places when the camera frame is new.
LEMMA BuffersBegin ==
  ASSUME NEW r \in RendererType, NEW s \in RendererType,
         NEW drawn, NEW drawn2, NEW N, AddedTo(drawn2, drawn, N),
         NEW p \in PosesType, NEW q \in PosesType, NEW first \in BOOLEAN,
         PosesInOrder(p, N - 1), PosesInOrder(q, N), NextPoses(q, p, N, first),
         Buffers(r, drawn, p), Toggled(s, r, first), FiltersBegun(s, r, N)
  PROVE  Buffers(s, drawn2, q)
<1> PICK n \in Nat : n = Len(drawn) /\ Len(drawn2) = n + 1 /\ N = n + 1
  BY DEF AddedTo
<1>0. /\ \A i \in 1..n : drawn2[i] = drawn[i]
      /\ ~drawn2[n + 1].colour
      /\ first => q.currentCamera = n + 1 /\ q.lastCamera = p.currentCamera
      /\ ~first => q.currentCamera = p.currentCamera /\ q.lastCamera = p.lastCamera
      /\ s.currentCameraFilterIndex = IF first THEN 1 - r.currentCameraFilterIndex
                                      ELSE r.currentCameraFilterIndex
      /\ \/ s.cameraFilter = r.cameraFilter /\ s.filtersMade = r.filtersMade
         \/ ~s.cameraFilter[0].texture /\ s.filtersMade = r.filtersMade
         \/ /\ s.filtersMade = n + 1
            /\ s.cameraFilter[0].shows = 0 /\ s.cameraFilter[1].shows = 0
      /\ PosesInOrder(p, n) /\ PosesInOrder(q, n + 1)
  <2>1. N - 1 = n
    OBVIOUS
  <2> QED
    BY <2>1 DEF AddedTo, NextPoses, Toggled, FiltersBegun
<1> PICK k \in Slots : k = s.currentCameraFilterIndex
  BY DEF RendererType
<1>1. 1 - k \in Slots /\ (k = 0 \/ k = 1)
  BY DEF Slots
<1>2. /\ q.currentCamera \in Nat /\ q.lastCamera \in Nat
      /\ p.currentCamera \in Nat /\ p.lastCamera \in Nat
      /\ r.filtersMade \in Nat /\ s.filtersMade \in Nat
      /\ r.currentCameraFilterIndex \in Slots
  BY DEF PosesType, RendererType
<1>3. s.filtersMade <= n + 1
  BY <1>0, <1>2 DEF Buffers
<1>4. q.currentCamera <= n + 1 /\ q.lastCamera <= n /\ p.currentCamera <= n /\ p.lastCamera <= n
  BY <1>0, <1>2 DEF PosesInOrder
<1>5. CASE s.cameraFilter = r.cameraFilter /\ s.filtersMade = r.filtersMade
  <2>1. SUFFICES ASSUME r.cameraFilter[0].texture
                 PROVE  /\ Buffer(s, drawn2, k, q.currentCamera)
                        /\ Buffer(s, drawn2, 1 - k, q.lastCamera)
    BY <1>3, <1>5 DEF Buffers
  <2>2. /\ Buffer(r, drawn, r.currentCameraFilterIndex, p.currentCamera)
        /\ Buffer(r, drawn, 1 - r.currentCameraFilterIndex, p.lastCamera)
        /\ r.filtersMade <= n
    BY <2>1 DEF Buffers
  <2>3. ASSUME NEW m \in Nat, m <= n, NEW j, Buffer(r, drawn, j, m)
        PROVE  Buffer(s, drawn2, j, m)
    <3>1. m > 0 => drawn2[m] = drawn[m]
      BY <1>0, <2>3
    <3> QED
      BY <1>5, <2>3, <3>1 DEF Buffer
  <2>4. CASE first
    <3>1. /\ r.currentCameraFilterIndex = 1 - k
          /\ q.lastCamera = p.currentCamera /\ q.currentCamera = n + 1
      BY <1>0, <1>1, <1>2, <2>4 DEF Slots
    <3>2. Buffer(s, drawn2, 1 - k, q.lastCamera)
      BY <1>2, <1>4, <2>2, <2>3, <3>1
    <3>3. Buffer(s, drawn2, k, n + 1)
      BY <1>0, <1>2, <1>3 DEF Buffer
    <3> QED
      BY <3>1, <3>2, <3>3
  <2>5. CASE ~first
    <3>1. /\ r.currentCameraFilterIndex = k
          /\ q.lastCamera = p.lastCamera /\ q.currentCamera = p.currentCamera
      BY <1>0, <2>5
    <3> QED
      BY <1>2, <1>4, <2>2, <2>3, <3>1
  <2> QED
    BY <2>4, <2>5
<1>6. CASE ~s.cameraFilter[0].texture
  BY <1>3, <1>6 DEF Buffers
<1>7. CASE /\ s.filtersMade = n + 1
           /\ s.cameraFilter[0].shows = 0 /\ s.cameraFilter[1].shows = 0
  <2>1. \A j \in Slots : s.cameraFilter[j].shows = 0
    BY <1>7 DEF Slots
  <2>2. ASSUME NEW m \in Nat, m <= n + 1, NEW j \in Slots PROVE Buffer(s, drawn2, j, m)
    BY <1>0, <1>7, <2>1, <2>2 DEF Buffer
  <2> QED
    BY <1>1, <1>2, <1>3, <1>4, <2>2 DEF Buffers
<1> QED
  BY <1>0, <1>5, <1>6, <1>7

\* What is drawn goes into the buffer at hand.
DrawnInto(s, r, n, drawn2) ==
  /\ s.currentCameraFilterIndex = r.currentCameraFilterIndex
  /\ s.filtersMade = r.filtersMade
  /\ s.cameraFilter[0].texture = r.cameraFilter[0].texture
  /\ s.cameraFilter[1 - r.currentCameraFilterIndex].shows =
       r.cameraFilter[1 - r.currentCameraFilterIndex].shows
  /\ s.cameraFilter[r.currentCameraFilterIndex].shows =
       IF drawn2[n].colour THEN n
       ELSE r.cameraFilter[r.currentCameraFilterIndex].shows

\* What is known of frame n is put right.
Replaced(drawn2, drawn, n) ==
  /\ n \in Nat /\ n > 0 /\ Len(drawn) = n /\ Len(drawn2) = n
  /\ \A i \in 1..(n - 1) : drawn2[i] = drawn[i]

\* A frame draws into the buffer at hand.
LEMMA BuffersDraw ==
  ASSUME NEW r \in RendererType, NEW s \in RendererType,
         NEW drawn, NEW drawn2, NEW n, Replaced(drawn2, drawn, n),
         NEW p \in PosesType, PosesInOrder(p, n),
         Buffers(r, drawn, p),
         drawn2[n].colour => p.currentCamera = n,
         DrawnInto(s, r, n, drawn2)
  PROVE  Buffers(s, drawn2, p)
<1> USE DEF Replaced, DrawnInto
<1> PICK k : k = r.currentCameraFilterIndex
  OBVIOUS
<1>1. p.currentCamera \in Nat /\ p.lastCamera \in Nat /\ r.filtersMade \in Nat
  BY DEF PosesType, RendererType
<1>2. p.currentCamera <= n /\ (p.lastCamera < n \/ p.lastCamera = 0)
  BY <1>1 DEF PosesInOrder
<1>3. r.filtersMade <= n
  BY DEF Buffers
<1>4. SUFFICES ASSUME r.cameraFilter[0].texture
               PROVE  /\ Buffer(s, drawn2, k, p.currentCamera)
                      /\ Buffer(s, drawn2, 1 - k, p.lastCamera)
  BY <1>3 DEF Buffers
<1>5. Buffer(r, drawn, k, p.currentCamera) /\ Buffer(r, drawn, 1 - k, p.lastCamera)
  BY <1>4 DEF Buffers
<1>6. p.lastCamera > 0 => drawn2[p.lastCamera] = drawn[p.lastCamera]
  BY <1>1, <1>2
<1>7. Buffer(s, drawn2, 1 - k, p.lastCamera)
  BY <1>5, <1>6 DEF Buffer
<1>8. Buffer(s, drawn2, k, p.currentCamera)
  <2>1. CASE p.currentCamera = n
    BY <1>1, <1>3, <2>1 DEF Buffer
  <2>2. CASE p.currentCamera < n
    <3>1. p.currentCamera > 0 => drawn2[p.currentCamera] = drawn[p.currentCamera]
      BY <1>1, <2>2
    <3>2. ~drawn2[n].colour
      BY <2>2
    <3> QED
      BY <1>5, <3>1, <3>2 DEF Buffer
  <2> QED
    BY <1>1, <1>2, <2>1, <2>2
<1> QED
  BY <1>7, <1>8

-----------------------------------------------------------------------------
(* The invariant of PassthroughRendererDX11.                               *)

\* The types of the variables.
TypeOK ==
  /\ setup \in Setups
  /\ changes \in Nat
  /\ config \in ConfigType
  /\ app \in [Images -> [swapchain : Nat \ {0}, size : Sizes]]
  /\ source \in [size : Nat, fovScale : Nat]
  /\ debug \in TextureType
  /\ renderer \in RendererType
  /\ legacy \in LegacyType
  /\ poses \in PosesType
  /\ drew \in Seq(HistoryType)
  /\ {"number", "image", "done"} \subseteq DOMAIN frame
  /\ frame.number = Len(drew)

\* The types are what a frame takes for granted.
LEMMA TypedFrame == TypeOK => FrameType
BY LenProperties DEF TypeOK, FrameType

\* The temporary targets are of the images, or of older ones.
TargetsKnown == \A i \in Images : TargetKnown(renderer, i)

\* Both depth maps of an image are of one size, of which the code looks at one.
Alike(r) == \A i \in Images : r.depthStencil[i][1].size = r.depthStencil[i][0].size

\* So it is in the state there is.
MapsAlike == Alike(renderer)

\* The depth maps of the image drawn last show the frame that drew them.
LastMaps ==
  frame.number > 0 =>
    \A s \in drew[frame.number].slots :
      /\ renderer.prevSwapchain = frame.image
      /\ renderer.depthStencil[frame.image][s].shows = frame.number

\* All that together, with the buffers and the debug texture.
InvDX11 ==
  /\ TargetsKnown /\ MapsAlike /\ LastMaps
  /\ PosesInOrder(poses, Len(drew))
  /\ Buffers(renderer, drew, poses)
  /\ SizeSeen(renderer.debugTexture, debug)

-----------------------------------------------------------------------------
(* A frame of PassthroughRendererDX11, as a chain of those steps.          *)

\* The projection that needs depth.
Stereo == config.projection = "StereoReconstruction"

\* A frame has begun.
BegunWith(s, r, image, first) ==
  /\ SameButColour(s, r)
  /\ s.target[image] = app[image]
  /\ Toggled(s, r, first) /\ FiltersBegun(s, r, Len(drew) + 1)

\* What a frame makes of the renderer before it sets up anything.
Begun(r, image, first) ==
  [InitRenderTarget(r, image) EXCEPT
     !.currentCameraFilterIndex = IF first THEN 1 - @ ELSE @]

\* InitRenderTarget, and the buffers taking turns.
LEMMA BegunParts ==
  ASSUME FrameType, NEW r \in RendererType, NEW image \in Images, NEW first \in BOOLEAN,
         NEW s, s = Begun(r, image, first)
  PROVE  BegunWith(s, r, image, first)
<1> PICK a : a = InitRenderTarget(r, image)
  OBVIOUS
<1>1. /\ SameButColour(a, r)
      /\ a.target[image] = app[image]
      /\ a.cameraFilter = r.cameraFilter \/ a.cameraFilter = NoSurfaces
      /\ a.currentCameraFilterIndex = r.currentCameraFilterIndex
      /\ a.filtersMade = r.filtersMade
  BY TargetParts
<1>2. a \in RendererType
  BY <1>1 DEF SameButColour
<1> PICK k : k = IF first THEN 1 - a.currentCameraFilterIndex ELSE a.currentCameraFilterIndex
  OBVIOUS
<1>3. k \in Slots
  BY <1>2 DEF RendererType, Slots
<1>4. s = [a EXCEPT !.currentCameraFilterIndex = k]
  BY <1>2 DEF Begun, RendererType
<1>5. s \in RendererType /\ s.currentCameraFilterIndex = k
  BY <1>2, <1>3, <1>4 DEF RendererType
<1>6. /\ s.target = a.target /\ s.cameraFilter = a.cameraFilter
      /\ s.filtersMade = a.filtersMade /\ s.temporary = a.temporary
      /\ s.depthStencil = a.depthStencil /\ s.prevSwapchain = a.prevSwapchain
      /\ s.debugTexture = a.debugTexture
  BY <1>2, <1>4 DEF RendererType
<1>7. SameButColour(s, r)
  BY <1>1, <1>5, <1>6 DEF SameButColour
<1>8. 0 \in Slots /\ ~NoSurfaces[0].texture
  BY DEF NoSurfaces, NoSurface, Slots
<1>9. FiltersBegun(s, r, Len(drew) + 1)
  BY <1>1, <1>6, <1>8 DEF FiltersBegun
<1> QED
  BY <1>1, <1>5, <1>6, <1>7, <1>9 DEF BegunWith, Toggled

\* The resources a frame needs without depth.
LEMMA FlatParts ==
  ASSUME FrameType, NEW r \in RendererType, NEW image \in Images, NEW first \in BOOLEAN,
         NEW begun, BegunWith(begun, r, image, first),
         NEW s, s = SetupTemporalFilters(SetupUVDistortionMap(begun, config.projection), image)
  PROVE  /\ BegunWith(s, r, image, first)
         /\ config.projection # "RoomView2D" => s.uvMap /\ s.fovScale = source.fovScale
         /\ config.EnableTemporalFiltering => s.cameraFilter[0].texture
<1> PICK a : a = SetupUVDistortionMap(begun, config.projection)
  OBVIOUS
<1>1. begun \in RendererType
  BY DEF BegunWith, SameButColour
<1>2. /\ SameButColour(a, begun) /\ a.target = begun.target
      /\ a.cameraFilter = begun.cameraFilter
      /\ a.currentCameraFilterIndex = begun.currentCameraFilterIndex
      /\ a.filtersMade = begun.filtersMade
      /\ config.projection # "RoomView2D" => a.uvMap /\ a.fovScale = source.fovScale
  BY <1>1, DistortionMapParts
<1>3. a \in RendererType
  BY <1>2 DEF SameButColour
<1>4. /\ SameButColour(s, a) /\ s.target = a.target
      /\ s.uvMap = a.uvMap /\ s.fovScale = a.fovScale
      /\ s.currentCameraFilterIndex = a.currentCameraFilterIndex
      /\ \/ s.cameraFilter = a.cameraFilter /\ s.filtersMade = a.filtersMade
         \/ /\ s.filtersMade = Len(drew) + 1
            /\ s.cameraFilter[0].shows = 0 /\ s.cameraFilter[1].shows = 0
      /\ config.EnableTemporalFiltering => s.cameraFilter[0].texture
  BY <1>3, TemporalFiltersParts
<1>5. SameButColour(s, r)
  BY <1>2, <1>4 DEF BegunWith, SameButColour
<1>6. FiltersBegun(s, r, Len(drew) + 1)
  BY <1>2, <1>4 DEF BegunWith, FiltersBegun
<1> QED
  BY <1>2, <1>4, <1>5, <1>6 DEF BegunWith, Toggled

\* The buffers of a frame that has begun and not drawn into them.
LEMMA BuffersBegun ==
  ASSUME TypeOK, InvDX11, NEW image \in Images, NEW first \in BOOLEAN,
         NEW s, BegunWith(s, renderer, image, first),
         NEW now, now = CalculateFrameProjection(first, Len(drew) + 1)
  PROVE  Buffers(s, Append(drew, NoHistory), now)
<1>1. /\ renderer \in RendererType /\ s \in RendererType /\ Len(drew) \in Nat
      /\ poses \in PosesType
  BY LenProperties DEF TypeOK, BegunWith, SameButColour
<1>2. /\ now \in PosesType /\ PosesInOrder(now, Len(drew) + 1)
      /\ NextPoses(now, poses, Len(drew) + 1, first)
  BY <1>1, PosesParts DEF InvDX11
<1>3. NoHistory \in HistoryType /\ ~NoHistory.colour
  BY DEF NoHistory, HistoryType
<1> PICK d : d = Append(drew, NoHistory)
  OBVIOUS
<1> PICK n : n = Len(drew) + 1
  OBVIOUS
<1>4. AddedTo(d, drew, n)
  BY <1>1, <1>3, AppendProperties DEF TypeOK, AddedTo
<1>5. PosesInOrder(poses, n - 1) /\ Buffers(renderer, drew, poses)
  BY <1>1 DEF InvDX11
<1>6. Toggled(s, renderer, first) /\ FiltersBegun(s, renderer, n)
  BY DEF BegunWith
<1> QED
  BY <1>1, <1>2, <1>4, <1>5, <1>6, BuffersBegin

\* A frame is added to the history.
LEMMA HistoryAdded ==
  ASSUME drew \in Seq(HistoryType), NEW h \in HistoryType, NEW d, d = Append(drew, h)
  PROVE  /\ d \in Seq(HistoryType) /\ Len(drew) \in Nat /\ Len(d) = Len(drew) + 1
         /\ d[Len(drew) + 1] = h /\ \A i \in 1..Len(drew) : d[i] = drew[i]
BY AppendProperties, LenProperties

\* A frame that draws no camera image leaves its number, and nothing drawn.
NothingDrawn(n, image) ==
  /\ drew' = Append(drew, NoHistory)
  /\ frame' = [number |-> n, image |-> image, done |-> FALSE, stereo |-> Stereo]

\* It leaves nothing for the next frame to filter with.
LEMMA NothingDrawnParts ==
  ASSUME TypeOK, InvDX11, NEW image \in Images, NEW n, n = Len(drew) + 1,
         NothingDrawn(n, image)
  PROVE  /\ drew' \in Seq(HistoryType) /\ Len(drew') = n
         /\ {"number", "image", "done"} \subseteq DOMAIN frame'
         /\ frame'.number = n /\ ~frame'.done
         /\ LastMaps'
<1>1. NoHistory \in HistoryType /\ NoHistory.slots = {}
  BY DEF NoHistory, HistoryType
<1>2. /\ drew' \in Seq(HistoryType) /\ Len(drew') = n
      /\ drew'[n] = NoHistory
  BY <1>1, HistoryAdded DEF TypeOK, NothingDrawn
<1>3. /\ {"number", "image", "done"} \subseteq DOMAIN frame'
      /\ frame'.number = n /\ ~frame'.done
  BY DEF NothingDrawn
<1>4. LastMaps'
  BY <1>1, <1>2, <1>3 DEF LastMaps
<1> QED
  BY <1>2, <1>3, <1>4

\* What is left for the next frame when the renderer is in state s.
LEMMA StateDX11 ==
  ASSUME TypeOK, InvDX11, NEW first \in BOOLEAN,
         NEW s \in RendererType, NEW texture, renderer' = s, debug' = texture, app' = app,
         \A i \in Images : TargetKnown(s, i),
         Alike(s),
         LastMaps', SizeSeen(s.debugTexture, texture),
         Len(drew') = Len(drew) + 1,
         NEW now, now = CalculateFrameProjection(first, Len(drew) + 1), poses' = now,
         Buffers(s, drew', now)
  PROVE  InvDX11'
<1>1. \A i \in Images : TargetKnown(renderer, i)'
  BY DEF TargetKnown
<1>2. TargetsKnown' /\ MapsAlike'
  BY <1>1 DEF TargetsKnown, MapsAlike, Alike
<1>3. PosesInOrder(poses', Len(drew'))
  BY PosesParts, LenProperties DEF InvDX11, TypeOK
<1> QED
  BY <1>2, <1>3 DEF InvDX11

\* The resources a frame needs with depth.
LEMMA ReadyParts ==
  ASSUME FrameType, NEW r \in RendererType, Alike(r), NEW image \in Images,
         NEW s, s = IF Stereo THEN SetupStereo(r, image) ELSE r
  PROVE  /\ SameButMaps(s, r) /\ Alike(s)
         /\ \A i \in Images, k \in Slots :
              i # image => s.depthStencil[i][k].shows = r.depthStencil[i][k].shows
         /\ Stereo => /\ s.mesh.hexagons = config.StereoUseHexagonGridMesh
                      /\ \A k \in Slots : s.depthStencil[image][k].size = DepthSize
<1>1. CASE Stereo
  <2>1. s = SetupStereo(r, image)
    BY <1>1
  <2>2. /\ SameButMaps(s, r)
        /\ s.mesh.hexagons = config.StereoUseHexagonGridMesh
        /\ \A i \in Images, k \in Slots :
             i # image => SameSurface(s.depthStencil[i][k], r.depthStencil[i][k])
        /\ s.depthStencil[image][0].size = DepthSize
        /\ \/ s.depthStencil[image][1].size = DepthSize
           \/ /\ r.depthStencil[image][0].size = DepthSize
              /\ s.depthStencil[image][1].size = r.depthStencil[image][1].size
    BY <2>1, StereoParts
  <2>3. s.depthStencil[image][1].size = DepthSize
    BY <2>2 DEF Alike
  <2>4. \A k \in Slots : s.depthStencil[image][k].size = DepthSize
    BY <2>2, <2>3 DEF Slots
  <2>5. 0 \in Slots /\ 1 \in Slots
    BY DEF Slots
  <2>6. Alike(s)
    BY <2>2, <2>3, <2>5 DEF Alike, SameSurface
  <2> QED
    BY <2>2, <2>4, <2>6 DEF SameSurface
<1>2. CASE ~Stereo
  BY <1>2 DEF SameButMaps
<1> QED
  BY <1>1, <1>2

\* The buffers of colour are what they were.
SameBuffers(s, r) ==
  /\ s.cameraFilter = r.cameraFilter /\ s.filtersMade = r.filtersMade
  /\ s.currentCameraFilterIndex = r.currentCameraFilterIndex

\* Then what is known of them holds.
LEMMA BuffersSame ==
  ASSUME NEW s, NEW r, SameBuffers(s, r), NEW d, NEW p, Buffers(r, d, p)
  PROVE  Buffers(s, d, p)
BY DEF SameBuffers, Buffers, Buffer

\* Drawn remembers the image.
LEMMA DrawnParts ==
  ASSUME NEW r \in RendererType, NEW image \in Images, NEW s, s = Drawn(r, image)
  PROVE  /\ s \in RendererType /\ s = [r EXCEPT !.prevSwapchain = image]
         /\ s.prevSwapchain = image /\ s.temporary = r.temporary
         /\ s.depthStencil = r.depthStencil /\ s.debugTexture = r.debugTexture
         /\ s.mesh = r.mesh /\ s.uvMap = r.uvMap /\ s.fovScale = r.fovScale
         /\ SameBuffers(s, r)
<1>1. s = [r EXCEPT !.prevSwapchain = image]
  BY DEF Drawn
<1>2. s \in RendererType
  BY <1>1 DEF RendererType
<1> QED
  BY <1>1, <1>2 DEF RendererType, SameBuffers

\* The target for the masks, in the terms of what is kept.
LEMMA MaskTargetParts ==
  ASSUME FrameType, NEW r \in RendererType, NEW image \in Images,
         r.target[image] = app[image],
         \A i \in Images : TargetKnown(r, i),
         NEW s, s = GetTemporaryRenderTarget(r, image)
  PROVE  /\ s \in RendererType /\ s.temporary[image] = app[image]
         /\ \A i \in Images : TargetKnown(s, i)
         /\ s.depthStencil = r.depthStencil /\ s.debugTexture = r.debugTexture
         /\ s.prevSwapchain = r.prevSwapchain
         /\ s.mesh = r.mesh /\ s.uvMap = r.uvMap /\ s.fovScale = r.fovScale
         /\ SameBuffers(s, r)
<1> PICK t : t = [r EXCEPT !.temporary = s.temporary]
  OBVIOUS
<1>1. /\ SameButMaps(s, t)
      /\ s.depthStencil = r.depthStencil /\ s.mesh = r.mesh
      /\ s.temporary[image] = app[image]
      /\ \A i \in Images : TargetKnown(s, i)
  BY TemporaryTargetParts
<1>2. /\ t.debugTexture = r.debugTexture /\ t.prevSwapchain = r.prevSwapchain
      /\ t.uvMap = r.uvMap /\ t.fovScale = r.fovScale
      /\ t.cameraFilter = r.cameraFilter /\ t.filtersMade = r.filtersMade
      /\ t.currentCameraFilterIndex = r.currentCameraFilterIndex
  BY DEF RendererType
<1> QED
  BY <1>1, <1>2 DEF SameButMaps, SameBuffers

\* The states of the renderer while a frame is set up: when it has begun, with
\* what colour needs, and with what depth needs; and the debug texture.
Stages(begun, flat, ready, texture, image, first) ==
  /\ BegunWith(begun, renderer, image, first)
  /\ BegunWith(flat, renderer, image, first)
  /\ config.projection # "RoomView2D" => flat.uvMap /\ flat.fovScale = source.fovScale
  /\ config.EnableTemporalFiltering => flat.cameraFilter[0].texture
  /\ SameButMaps(ready, flat) /\ Alike(ready)
  /\ \A i \in Images, k \in Slots :
       i # image => ready.depthStencil[i][k].shows = renderer.depthStencil[i][k].shows
  /\ Stereo => /\ ready.mesh.hexagons = config.StereoUseHexagonGridMesh
               /\ \A k \in Slots : ready.depthStencil[image][k].size = DepthSize
  /\ texture \in TextureType /\ texture.asked = debug.asked
  /\ SizeSeen(renderer.debugTexture, texture) /\ NothingYet(texture)

\* A frame goes through these states.
LEMMA StagesOfFrame ==
  ASSUME TypeOK, InvDX11, NothingYet(debug), NEW image \in Images, NEW first \in BOOLEAN,
         NEW begun, begun = Begun(renderer, image, first),
         NEW flat,
         flat = SetupTemporalFilters(SetupUVDistortionMap(begun, config.projection), image),
         NEW ready, ready = IF Stereo THEN SetupStereo(flat, image) ELSE flat,
         NEW texture, texture = GetTestPattern(debug)
  PROVE  Stages(begun, flat, ready, texture, image, first)
<1>1. FrameType /\ renderer \in RendererType /\ debug \in TextureType
  BY TypedFrame DEF TypeOK
<1>2. BegunWith(begun, renderer, image, first)
  BY <1>1, BegunParts
<1>3. /\ BegunWith(flat, renderer, image, first)
      /\ config.projection # "RoomView2D" => flat.uvMap /\ flat.fovScale = source.fovScale
      /\ config.EnableTemporalFiltering => flat.cameraFilter[0].texture
  BY <1>1, <1>2, FlatParts
<1>4. flat \in RendererType /\ flat.depthStencil = renderer.depthStencil /\ Alike(flat)
  BY <1>3 DEF BegunWith, SameButColour, InvDX11, MapsAlike, Alike
<1>5. /\ SameButMaps(ready, flat) /\ Alike(ready)
      /\ \A i \in Images, k \in Slots :
           i # image => ready.depthStencil[i][k].shows = flat.depthStencil[i][k].shows
      /\ Stereo => /\ ready.mesh.hexagons = config.StereoUseHexagonGridMesh
                   /\ \A k \in Slots : ready.depthStencil[image][k].size = DepthSize
  BY <1>1, <1>4, ReadyParts
<1>6. /\ texture \in TextureType /\ texture.asked = debug.asked
      /\ SizeSeen(renderer.debugTexture, texture) /\ NothingYet(texture)
  BY <1>1, TestPatternParts DEF InvDX11
<1> QED
  BY <1>2, <1>3, <1>4, <1>5, <1>6 DEF Stages

\* A frame whose depth frame is invalid.
LEMMA FrameInvalid ==
  ASSUME TypeOK, InvDX11, NEW image \in Images, NEW first \in BOOLEAN,
         NEW begun, NEW flat, NEW ready, NEW texture,
         Stages(begun, flat, ready, texture, image, first),
         NEW n, n = Len(drew) + 1, NothingDrawn(n, image), UNCHANGED app,
         poses' = CalculateFrameProjection(first, n),
         renderer' = begun, debug' = texture
  PROVE  InvDX11'
<1>1. /\ begun \in RendererType /\ begun.temporary = renderer.temporary
      /\ begun.depthStencil = renderer.depthStencil
      /\ begun.debugTexture = renderer.debugTexture
  BY DEF Stages, BegunWith, SameButColour
<1>2. \A i \in Images : TargetKnown(begun, i)
  BY <1>1 DEF InvDX11, TargetsKnown, TargetKnown
<1>3. Alike(begun)
  BY <1>1 DEF InvDX11, MapsAlike, Alike
<1>4. SizeSeen(begun.debugTexture, texture)
  BY <1>1 DEF Stages
<1>5. LastMaps' /\ Len(drew') = n
  BY NothingDrawnParts
<1>6. Buffers(begun, drew', poses')
  BY BuffersBegun DEF Stages, NothingDrawn
<1> QED
  BY <1>1, <1>2, <1>3, <1>4, <1>5, <1>6, StateDX11

\* A frame that is the debug view.
LEMMA FrameDebugView ==
  ASSUME TypeOK, InvDX11, NEW image \in Images, NEW first \in BOOLEAN,
         NEW begun, NEW flat, NEW ready, NEW texture,
         Stages(begun, flat, ready, texture, image, first),
         NEW n, n = Len(drew) + 1, NothingDrawn(n, image), UNCHANGED app,
         poses' = CalculateFrameProjection(first, n),
         renderer' = RenderDebugView(ready, image), debug' = texture
  PROVE  renderer' \in RendererType /\ InvDX11'
<1> PICK t : t = GetTemporaryRenderTarget(ready, image)
  OBVIOUS
<1> PICK s : s = Drawn(t, image)
  OBVIOUS
<1>1. renderer' = s
  BY DEF RenderDebugView
<1>2. FrameType
  BY TypedFrame
<1>3. /\ ready \in RendererType /\ ready.target[image] = app[image]
      /\ ready.temporary = renderer.temporary /\ SameBuffers(ready, flat)
      /\ ready.debugTexture = renderer.debugTexture
  BY DEF Stages, BegunWith, SameButColour, SameButMaps, SameBuffers
<1>4. \A i \in Images : TargetKnown(ready, i)
  BY <1>3 DEF InvDX11, TargetsKnown, TargetKnown
<1>5. /\ t \in RendererType /\ \A i \in Images : TargetKnown(t, i)
      /\ t.depthStencil = ready.depthStencil /\ t.debugTexture = ready.debugTexture
      /\ SameBuffers(t, ready)
  BY <1>2, <1>3, <1>4, MaskTargetParts
<1>6. /\ s \in RendererType /\ s.temporary = t.temporary
      /\ s.depthStencil = t.depthStencil /\ s.debugTexture = t.debugTexture
      /\ SameBuffers(s, t)
  BY <1>5, DrawnParts
<1>7. \A i \in Images : TargetKnown(s, i)
  BY <1>5, <1>6 DEF TargetKnown
<1>8. Alike(s)
  BY <1>5, <1>6 DEF Stages, Alike
<1>9. SizeSeen(s.debugTexture, texture)
  BY <1>3, <1>5, <1>6 DEF Stages
<1>10. LastMaps' /\ Len(drew') = n
  BY NothingDrawnParts
<1>11. Buffers(s, drew', poses')
  <2>1. Buffers(flat, drew', poses')
    BY BuffersBegun DEF Stages, NothingDrawn
  <2>2. SameBuffers(s, flat)
    BY <1>3, <1>5, <1>6 DEF SameBuffers
  <2> QED
    BY <2>1, <2>2, BuffersSame
<1> QED
  BY <1>1, <1>6, <1>7, <1>8, <1>9, <1>10, <1>11, StateDX11

\* A frame is drawn: the histories it wrote, and what it was drawn with.
FrameDone(n, image, flat, ready, textured, texture, now, first) ==
  /\ drew' = Append(drew, [slots |-> IF Stereo THEN DepthSlots ELSE {},
                           colour |-> config.EnableTemporalFiltering /\ first])
  /\ frame' = [number |-> n, image |-> image, done |-> TRUE, stereo |-> Stereo,
               other |-> frame.number > 0 /\ frame.image # image,
               previous |-> poses.lastHMD, depth |-> DepthHistory(ready, image),
               history |-> now.lastCamera,
               colour |-> ColourHistory(flat),
               sampled |-> Sampled(textured, texture)]

\* What the renderer is like when a frame has been drawn.
DrawnState(s, flat, image, n) ==
  /\ s \in RendererType /\ s.prevSwapchain = image
  /\ \A i \in Images : TargetKnown(s, i)
  /\ s.uvMap = flat.uvMap /\ s.fovScale = flat.fovScale
  /\ s.filtersMade = flat.filtersMade
  /\ Alike(s)
  /\ Stereo =>
       /\ s.mesh.hexagons = config.StereoUseHexagonGridMesh
       /\ \A k \in Slots : s.depthStencil[image][k].size = DepthSize
       /\ \A k \in DepthSlots : s.depthStencil[image][k].shows = n

\* The depth prepass.
LEMMA ProjectedParts ==
  ASSUME NEW r \in RendererType, Alike(r), NEW image \in Images, NEW n \in Nat,
         NEW s, s = IF Stereo THEN DrawDepth(r, image, n) ELSE r,
         Stereo => /\ r.mesh.hexagons = config.StereoUseHexagonGridMesh
                   /\ \A k \in Slots : r.depthStencil[image][k].size = DepthSize
  PROVE  /\ SameButMaps(s, r) /\ Alike(s)
         /\ Stereo =>
              /\ s.mesh.hexagons = config.StereoUseHexagonGridMesh
              /\ \A k \in Slots : s.depthStencil[image][k].size = DepthSize
              /\ \A k \in DepthSlots : s.depthStencil[image][k].shows = n
<1>1. CASE Stereo
  <2>1. /\ SameButMaps(s, r) /\ s.mesh = r.mesh
        /\ \A i \in Images : i # image => s.depthStencil[i] = r.depthStencil[i]
        /\ \A k \in Slots : s.depthStencil[image][k].size = r.depthStencil[image][k].size
        /\ \A k \in DepthSlots : s.depthStencil[image][k].shows = n
    BY <1>1, DrawDepthParts
  <2>2. 0 \in Slots /\ 1 \in Slots
    BY DEF Slots
  <2>3. Alike(s)
    BY <2>1, <2>2 DEF Alike
  <2> QED
    BY <1>1, <2>1, <2>3
<1>2. CASE ~Stereo
  BY <1>2 DEF SameButMaps
<1> QED
  BY <1>1, <1>2

\* The modes that draw into a temporary target.
Masked(c) == c.mode \in {"Masked", "AlphaTest"}

\* The passes of a frame lead there.
LEMMA DrawnStateParts ==
  ASSUME TypeOK, InvDX11, NEW image \in Images, NEW first \in BOOLEAN,
         NEW begun, NEW flat, NEW ready, NEW texture,
         Stages(begun, flat, ready, texture, image, first),
         NEW n \in Nat, NEW c,
         NEW projected, projected = IF Stereo THEN DrawDepth(ready, image, n) ELSE ready,
         NEW tested, tested = IF Masked(c) THEN GetTemporaryRenderTarget(projected, image)
                              ELSE projected,
         NEW textured, textured = SetupDebugTexture(tested, texture),
         NEW coloured, coloured = DrawColour(textured, first, n),
         NEW s, s = Drawn(coloured, image)
  PROVE  /\ DrawnState(s, flat, image, n)
         /\ Masked(c) => s.temporary[image] = app[image]
         /\ s.debugTexture = textured.debugTexture
         /\ SizeSeen(s.debugTexture, SeenDebugTexture(texture))
         /\ texture.asked # "none" /\ texture.asked = texture.current =>
              /\ s.debugTexture.shows = texture.content
              /\ s.debugTexture.size = texture.size
         /\ SameBuffers(textured, flat)
         /\ SameBuffers(s, coloured)
         /\ coloured \in RendererType /\ textured \in RendererType
<1>1. FrameType
  BY TypedFrame
<1>2. /\ ready \in RendererType /\ ready.target[image] = app[image]
      /\ ready.temporary = renderer.temporary /\ SameBuffers(ready, flat)
      /\ ready.debugTexture = renderer.debugTexture /\ Alike(ready)
      /\ ready.uvMap = flat.uvMap /\ ready.fovScale = flat.fovScale
  BY DEF Stages, BegunWith, SameButColour, SameButMaps, SameBuffers
<1>3. /\ SameButMaps(projected, ready) /\ Alike(projected)
      /\ Stereo =>
           /\ projected.mesh.hexagons = config.StereoUseHexagonGridMesh
           /\ \A k \in Slots : projected.depthStencil[image][k].size = DepthSize
           /\ \A k \in DepthSlots : projected.depthStencil[image][k].shows = n
  BY <1>2, ProjectedParts DEF Stages
<1>4. /\ projected \in RendererType /\ projected.target[image] = app[image]
      /\ projected.temporary = renderer.temporary /\ SameBuffers(projected, flat)
      /\ projected.debugTexture = renderer.debugTexture
      /\ projected.uvMap = flat.uvMap /\ projected.fovScale = flat.fovScale
  BY <1>2, <1>3 DEF SameButMaps, SameBuffers
<1>5. \A i \in Images : TargetKnown(projected, i)
  BY <1>4 DEF InvDX11, TargetsKnown, TargetKnown
<1>6. /\ tested \in RendererType /\ (Masked(c) => tested.temporary[image] = app[image])
      /\ \A i \in Images : TargetKnown(tested, i)
      /\ tested.depthStencil = projected.depthStencil
      /\ tested.debugTexture = projected.debugTexture
      /\ tested.mesh = projected.mesh
      /\ tested.uvMap = projected.uvMap /\ tested.fovScale = projected.fovScale
      /\ SameBuffers(tested, projected)
  <2>1. CASE Masked(c)
    BY <1>1, <1>4, <1>5, <2>1, MaskTargetParts
  <2>2. CASE ~Masked(c)
    BY <1>4, <1>5, <2>2 DEF SameBuffers
  <2> QED
    BY <2>1, <2>2
<1>7. /\ textured \in RendererType
      /\ textured = [tested EXCEPT !.debugTexture = textured.debugTexture]
      /\ SizeSeen(textured.debugTexture, SeenDebugTexture(texture))
      /\ texture.asked # "none" /\ texture.asked = texture.current =>
           /\ textured.debugTexture.shows = texture.content
           /\ textured.debugTexture.size = texture.size
  BY <1>4, <1>6, DebugTextureParts DEF Stages
<1>8. /\ textured.temporary = tested.temporary
      /\ textured.depthStencil = tested.depthStencil /\ textured.mesh = tested.mesh
      /\ textured.uvMap = tested.uvMap /\ textured.fovScale = tested.fovScale
      /\ SameBuffers(textured, tested)
  BY <1>6, <1>7 DEF RendererType, SameBuffers
<1>9. /\ coloured \in RendererType
      /\ coloured = [textured EXCEPT !.cameraFilter = coloured.cameraFilter]
  BY <1>7, DrawColourParts
<1>10. /\ coloured.temporary = textured.temporary
       /\ coloured.depthStencil = textured.depthStencil /\ coloured.mesh = textured.mesh
       /\ coloured.uvMap = textured.uvMap /\ coloured.fovScale = textured.fovScale
       /\ coloured.debugTexture = textured.debugTexture
       /\ coloured.filtersMade = textured.filtersMade
  BY <1>7, <1>9 DEF RendererType
<1>11. /\ s \in RendererType /\ s.prevSwapchain = image /\ s.temporary = coloured.temporary
       /\ s.depthStencil = coloured.depthStencil /\ s.debugTexture = coloured.debugTexture
       /\ s.mesh = coloured.mesh /\ s.uvMap = coloured.uvMap
       /\ s.fovScale = coloured.fovScale /\ SameBuffers(s, coloured)
  BY <1>9, DrawnParts
<1>12. SameBuffers(textured, flat)
  BY <1>4, <1>6, <1>8 DEF SameBuffers
<1>13. s.filtersMade = flat.filtersMade
  BY <1>10, <1>11, <1>12 DEF SameBuffers
<1>14. \A i \in Images : TargetKnown(s, i)
  BY <1>6, <1>8, <1>10, <1>11 DEF TargetKnown
<1>15. s.depthStencil = projected.depthStencil /\ s.mesh = projected.mesh /\ Alike(s)
  BY <1>3, <1>6, <1>8, <1>10, <1>11, SMTT(30) DEF Alike
<1>16. DrawnState(s, flat, image, n)
  BY <1>3, <1>4, <1>6, <1>8, <1>10, <1>11, <1>13, <1>14, <1>15, SMTT(30)
     DEF DrawnState
<1>17. s.temporary = tested.temporary /\ s.debugTexture = textured.debugTexture
  BY <1>8, <1>10, <1>11
<1> QED
  BY <1>6, <1>7, <1>9, <1>11, <1>12, <1>16, <1>17

\* What filters with a history filters with the one of its pose.
LEMMA FrameHistory ==
  ASSUME TypeOK, InvDX11, NEW image \in Images, NEW first \in BOOLEAN,
         NEW begun, NEW flat, NEW ready, NEW texture,
         Stages(begun, flat, ready, texture, image, first),
         NEW n, n = Len(drew) + 1,
         NEW now, now = CalculateFrameProjection(first, n),
         NEW textured, FrameDone(n, image, flat, ready, textured, texture, now, first),
         config' = config, renderer'.filtersMade = flat.filtersMade
  PROVE  HistoryIsOfItsPose'
<1>1. /\ n \in Nat /\ n > 0 /\ Len(drew) = n - 1
      /\ poses \in PosesType /\ PosesInOrder(poses, Len(drew))
      /\ drew \in Seq(HistoryType) /\ frame.number = n - 1
  BY LenProperties DEF TypeOK, InvDX11
<1>2. now \in PosesType /\ PosesInOrder(now, n) /\ NextPoses(now, poses, n, first)
  BY <1>1, PosesParts
<1> PICK h : h = [slots |-> IF Stereo THEN DepthSlots ELSE {},
                  colour |-> config.EnableTemporalFiltering /\ first]
  OBVIOUS
<1>3. h \in HistoryType
  BY DEF HistoryType, DepthSlots, Slots, TypeOK, ConfigType
<1>4. /\ drew' = Append(drew, h) /\ Len(drew') = n /\ drew'[n] = h
      /\ \A i \in 1..(n - 1) : drew'[i] = drew[i]
  BY <1>1, <1>3, HistoryAdded DEF FrameDone
<1>5. /\ frame'.previous = n - 1 /\ frame'.history = now.lastCamera
      /\ frame'.depth = DepthHistory(ready, image)
      /\ frame'.colour = ColourHistory(flat)
      /\ (frame'.other <=> n - 1 > 0 /\ frame.image # image)
      /\ (frame'.stereo <=> Stereo)
  <2>1. poses.lastHMD = n - 1
    BY <1>1 DEF PosesInOrder
  <2> QED
    BY <1>1, <2>1 DEF FrameDone
<1>6. ASSUME NEW s \in DepthSlots, n - 1 > 0, s \in drew'[n - 1].slots
      PROVE  frame'.depth[s] = IF frame'.other THEN n - 1 ELSE 0
  <2>1. s \in Slots
    BY DEF DepthSlots, Slots
  <2>2. /\ renderer.prevSwapchain = frame.image
        /\ renderer.depthStencil[frame.image][s].shows = n - 1
        /\ frame.image \in Images
    <3>1. drew'[n - 1] = drew[n - 1]
      <4>1. n - 1 \in 1..(n - 1)
        BY <1>1, <1>6
      <4> QED
        BY <1>4, <4>1
    <3> QED
      BY <1>1, <1>6, <3>1 DEF InvDX11, LastMaps, TypeOK, RendererType
  <2>3. ready.prevSwapchain = renderer.prevSwapchain
    BY DEF Stages, SameButMaps, BegunWith, SameButColour
  <2>4. frame'.depth[s] = IF ready.prevSwapchain = image THEN 0
                          ELSE ready.depthStencil[ready.prevSwapchain][s].shows
    BY <1>5, <2>1 DEF DepthHistory
  <2>5. frame.image # image =>
          ready.depthStencil[frame.image][s].shows = renderer.depthStencil[frame.image][s].shows
    BY <2>1, <2>2 DEF Stages
  <2> QED
    BY <1>5, <1>6, <2>2, <2>3, <2>4, <2>5
<1>7. ASSUME config.EnableTemporalFiltering, now.lastCamera > 0, drew'[now.lastCamera].colour
      PROVE  frame'.colour = IF flat.filtersMade <= now.lastCamera THEN now.lastCamera ELSE 0
  <2> PICK d : d = Append(drew, NoHistory)
    OBVIOUS
  <2>1. NoHistory \in HistoryType
    BY DEF NoHistory, HistoryType
  <2>2. \A i \in 1..(n - 1) : d[i] = drew[i]
    BY <1>1, <2>1, HistoryAdded
  <2>3. Buffers(flat, d, now)
    BY BuffersBegun DEF Stages
  <2>4. flat.cameraFilter[0].texture
    BY <1>7 DEF Stages
  <2>5. Buffer(flat, d, 1 - flat.currentCameraFilterIndex, now.lastCamera)
    BY <2>3, <2>4 DEF Buffers
  <2>6. now.lastCamera \in 1..(n - 1)
    BY <1>1, <1>2, <1>7 DEF PosesInOrder, PosesType
  <2>7. d[now.lastCamera].colour
    BY <1>4, <1>7, <2>2, <2>6
  <2>8. frame'.colour = flat.cameraFilter[1 - flat.currentCameraFilterIndex].shows
    BY <1>5 DEF ColourHistory
  <2> QED
    BY <1>7, <2>5, <2>7, <2>8 DEF Buffer
<1>8. DepthSlots' = DepthSlots
  BY DEF DepthSlots
<1> QED
  BY <1>5, <1>6, <1>7, <1>8 DEF HistoryIsOfItsPose

\* What a frame draws with is what that frame wants.
LEMMA FrameFits ==
  ASSUME TypeOK, InvDX11, ~setup.vulkan, NEW image \in Images, NEW first \in BOOLEAN,
         NEW begun, NEW flat, NEW ready, NEW texture,
         Stages(begun, flat, ready, texture, image, first),
         NEW n, NEW c,
         NEW now, NEW textured,
         FrameDone(n, image, flat, ready, textured, texture, now, first),
         UNCHANGED <<setup, config, app, source>>,
         pixel'[1] = c, debug' = SeenDebugTexture(texture),
         DrawnState(renderer', flat, image, n),
         Masked(c) => renderer'.temporary[image] = app[image],
         renderer'.debugTexture = textured.debugTexture,
         texture.asked # "none" /\ texture.asked = texture.current =>
           /\ renderer'.debugTexture.shows = texture.content
           /\ renderer'.debugTexture.size = texture.size
  PROVE  ResourcesFitTheFrame'
<1>1. /\ frame'.image = image /\ (frame'.stereo <=> Stereo)
      /\ frame'.sampled = Sampled(textured, texture)
  BY DEF FrameDone
<1>2. /\ debug'.asked = texture.asked /\ debug'.current = texture.current
      /\ debug'.size = texture.size /\ debug'.content = texture.content
  BY DEF Stages, SeenDebugTexture, TextureType
<1>3. DepthSize' = DepthSize /\ DepthSlots' = DepthSlots
  BY DEF DepthSize, DepthSlots
<1>4. DepthSlots \subseteq Slots
  BY DEF DepthSlots, Slots
<1>5. pixel'[1].mode \in {"Masked", "AlphaTest"} =>
        renderer'.temporary[frame'.image] = app'[frame'.image]
  BY <1>1 DEF Masked
<1>6. frame'.stereo =>
       /\ \A s \in DepthSlots' :
            renderer'.depthStencil[frame'.image][s].size = DepthSize'
       /\ renderer'.mesh.hexagons = config'.StereoUseHexagonGridMesh
  BY <1>1, <1>3, <1>4 DEF DrawnState
<1>7. config'.projection # "RoomView2D" =>
       renderer'.uvMap /\ renderer'.fovScale = source'.fovScale
  BY DEF DrawnState, Stages
<1>8. debug'.asked # "none" /\ debug'.asked = debug'.current =>
       /\ frame'.sampled = [debug |-> TRUE, shows |-> debug'.content]
       /\ renderer'.debugTexture.size = debug'.size
  BY <1>1, <1>2 DEF Sampled
<1> QED
  BY <1>5, <1>6, <1>7, <1>8 DEF ResourcesFitTheFrame, FitDX11

\* A frame that is drawn leaves the invariant for the next one.
LEMMA FrameDrawn ==
  ASSUME TypeOK, InvDX11, NEW image \in Images, NEW first \in BOOLEAN,
         NEW begun, NEW flat, NEW ready, NEW texture,
         Stages(begun, flat, ready, texture, image, first),
         NEW n, n = Len(drew) + 1,
         NEW now, now = CalculateFrameProjection(first, n), poses' = now,
         NEW textured \in RendererType, SameBuffers(textured, flat),
         NEW coloured, coloured = DrawColour(textured, first, n),
         FrameDone(n, image, flat, ready, textured, texture, now, first),
         UNCHANGED app, debug' = SeenDebugTexture(texture),
         DrawnState(renderer', flat, image, n),
         SameBuffers(renderer', coloured),
         SizeSeen(renderer'.debugTexture, SeenDebugTexture(texture))
  PROVE  /\ InvDX11'
         /\ drew' \in Seq(HistoryType) /\ Len(drew') = n
         /\ {"number", "image", "done"} \subseteq DOMAIN frame' /\ frame'.number = n
<1> PICK s : s = renderer'
  OBVIOUS
<1>1. /\ n \in Nat /\ n > 0 /\ Len(drew) = n - 1
      /\ poses \in PosesType /\ PosesInOrder(poses, Len(drew))
      /\ drew \in Seq(HistoryType) /\ s \in RendererType /\ flat \in RendererType
  BY LenProperties DEF TypeOK, InvDX11, DrawnState, Stages, BegunWith, SameButColour
<1>2. now \in PosesType /\ PosesInOrder(now, n) /\ NextPoses(now, poses, n, first)
  BY <1>1, PosesParts
<1> PICK h : h = [slots |-> IF Stereo THEN DepthSlots ELSE {},
                  colour |-> config.EnableTemporalFiltering /\ first]
  OBVIOUS
<1>3. h \in HistoryType
  BY DEF HistoryType, DepthSlots, Slots, TypeOK, ConfigType
<1>4. /\ drew' = Append(drew, h) /\ Len(drew') = n /\ drew'[n] = h
      /\ \A i \in 1..(n - 1) : drew'[i] = drew[i]
      /\ drew' \in Seq(HistoryType)
  BY <1>1, <1>3, HistoryAdded DEF FrameDone
<1>5. {"number", "image", "done"} \subseteq DOMAIN frame' /\ frame'.number = n
      /\ frame'.image = image
  BY DEF FrameDone
<1>6. LastMaps'
  <2>1. ASSUME NEW k \in drew'[n].slots
        PROVE  s.prevSwapchain = image /\ s.depthStencil[image][k].shows = n
    BY <1>4, <2>1 DEF DrawnState
  <2> QED
    BY <1>5, <2>1 DEF LastMaps
<1>7. Buffers(s, drew', now)
  <2> PICK d : d = Append(drew, NoHistory)
    OBVIOUS
  <2>1. NoHistory \in HistoryType
    BY DEF NoHistory, HistoryType
  <2>2. Len(d) = n /\ \A i \in 1..(n - 1) : d[i] = drew[i]
    BY <1>1, <2>1, HistoryAdded
  <2>3. Buffers(flat, d, now)
    BY BuffersBegun DEF Stages
  <2>4. Replaced(drew', d, n)
    BY <1>1, <1>4, <2>2 DEF Replaced
  <2>5. drew'[n].colour => now.currentCamera = n
    BY <1>2, <1>4 DEF NextPoses
  <2>6. DrawnInto(s, flat, n, drew')
    <3> PICK k : k = flat.currentCameraFilterIndex
      OBVIOUS
    <3>1. /\ k \in Slots /\ 1 - k \in Slots /\ 1 - k # k /\ 0 \in Slots
      BY <1>1, SMTT(30) DEF RendererType, Slots
    <3>2. /\ coloured.cameraFilter[0].texture = textured.cameraFilter[0].texture
          /\ \A j \in Slots : j # textured.currentCameraFilterIndex =>
               coloured.cameraFilter[j].shows = textured.cameraFilter[j].shows
          /\ IF config.EnableTemporalFiltering /\ first
             THEN coloured.cameraFilter[textured.currentCameraFilterIndex].shows = n
             ELSE coloured.cameraFilter = textured.cameraFilter
          /\ coloured = [textured EXCEPT !.cameraFilter = coloured.cameraFilter]
      BY <1>1, DrawColourParts
    <3>3. /\ coloured.currentCameraFilterIndex = textured.currentCameraFilterIndex
          /\ coloured.filtersMade = textured.filtersMade
      BY <3>2 DEF RendererType
    <3>4. drew'[n].colour <=> config.EnableTemporalFiltering /\ first
      <4>1. h.colour <=> config.EnableTemporalFiltering /\ first
        OBVIOUS
      <4> QED
        BY <1>4, <4>1
    <3>5. s.cameraFilter[k].shows = IF drew'[n].colour THEN n ELSE flat.cameraFilter[k].shows
      BY <3>2, <3>4 DEF SameBuffers
    <3> QED
      BY <3>1, <3>2, <3>3, <3>5 DEF DrawnInto, SameBuffers
  <2> QED
    BY <1>1, <1>2, <2>3, <2>4, <2>5, <2>6, BuffersDraw
<1>8. \A i \in Images : TargetKnown(s, i)
  BY DEF DrawnState
<1>9. Alike(s)
  BY DEF DrawnState
<1>10. InvDX11'
  BY <1>1, <1>4, <1>6, <1>7, <1>8, <1>9, StateDX11
<1> QED
  BY <1>4, <1>5, <1>10

\* A frame ends in one of three ways.
LEMMA FrameOutcomes ==
  ASSUME NEW image, NEW c, NEW first, NEW valid, RenderFrame(image, c, first, valid),
         NEW n, n = Len(drew) + 1,
         NEW begun, begun = Begun(renderer, image, first),
         NEW flat,
         flat = SetupTemporalFilters(SetupUVDistortionMap(begun, config.projection), image),
         NEW ready, ready = IF Stereo THEN SetupStereo(flat, image) ELSE flat,
         NEW texture, texture = GetTestPattern(debug),
         NEW now, now = CalculateFrameProjection(first, n),
         NEW projected, projected = IF Stereo THEN DrawDepth(ready, image, n) ELSE ready,
         NEW tested, tested = IF Masked(c) THEN GetTemporaryRenderTarget(projected, image)
                              ELSE projected,
         NEW textured, textured = SetupDebugTexture(tested, texture),
         NEW coloured, coloured = DrawColour(textured, first, n)
  PROVE  /\ poses' = now
         /\ \/ NothingDrawn(n, image) /\ renderer' = begun /\ debug' = texture
            \/ /\ NothingDrawn(n, image) /\ renderer' = RenderDebugView(ready, image)
               /\ debug' = texture
            \/ /\ pixel'[1] = c /\ renderer' = Drawn(coloured, image)
               /\ debug' = SeenDebugTexture(texture)
               /\ FrameDone(n, image, flat, ready, textured, texture, now, first)
BY DEF RenderFrame, Begun, NothingDrawn, FrameDone, Masked, Stereo, RenderSetupView

\* A frame of PassthroughRendererDX11.
LEMMA FrameDX11 ==
  ASSUME TypeOK, InvDX11, NothingYet(debug), ~setup.vulkan,
         NEW image \in Images, NEW c, NEW first \in BOOLEAN, NEW valid,
         RenderFrame(image, c, first, valid),
         UNCHANGED <<setup, changes, config, app, source, legacy>>
  PROVE  /\ TypeOK' /\ NothingYet(debug)' /\ InvDX11'
         /\ HistoryIsOfItsPose' /\ ResourcesFitTheFrame'
<1>pn. PICK n : n = Len(drew) + 1
  OBVIOUS
<1>pbegun. PICK begun : begun = Begun(renderer, image, first)
  OBVIOUS
<1>pflat. PICK flat :
      flat = SetupTemporalFilters(SetupUVDistortionMap(begun, config.projection), image)
  OBVIOUS
<1>pready. PICK ready : ready = IF Stereo THEN SetupStereo(flat, image) ELSE flat
  OBVIOUS
<1>ptexture. PICK texture : texture = GetTestPattern(debug)
  OBVIOUS
<1>pnow. PICK now : now = CalculateFrameProjection(first, n)
  OBVIOUS
<1>pprojected. PICK projected : projected = IF Stereo THEN DrawDepth(ready, image, n) ELSE ready
  OBVIOUS
<1>ptested. PICK tested : tested = IF Masked(c) THEN GetTemporaryRenderTarget(projected, image)
                           ELSE projected
  OBVIOUS
<1>ptextured. PICK textured : textured = SetupDebugTexture(tested, texture)
  OBVIOUS
<1>pcoloured. PICK coloured : coloured = DrawColour(textured, first, n)
  OBVIOUS
<1>1. Stages(begun, flat, ready, texture, image, first)
  BY <1>pbegun, <1>pflat, <1>pready, <1>ptexture, StagesOfFrame
<1>2. /\ poses' = now
      /\ \/ NothingDrawn(n, image) /\ renderer' = begun /\ debug' = texture
         \/ /\ NothingDrawn(n, image) /\ renderer' = RenderDebugView(ready, image)
            /\ debug' = texture
         \/ /\ pixel'[1] = c /\ renderer' = Drawn(coloured, image)
            /\ debug' = SeenDebugTexture(texture)
            /\ FrameDone(n, image, flat, ready, textured, texture, now, first)
  BY <1>pn, <1>pbegun, <1>pflat, <1>pready, <1>ptexture, <1>pnow, <1>pprojected, <1>ptested,
     <1>ptextured, <1>pcoloured, FrameOutcomes
<1>3. /\ n \in Nat /\ now \in PosesType
      /\ texture \in TextureType /\ NothingYet(texture)
      /\ SizeSeen(renderer.debugTexture, texture)
      /\ begun \in RendererType
  BY <1>pn, <1>pnow, <1>1, LenProperties, PosesParts
     DEF TypeOK, InvDX11, Stages, BegunWith, SameButColour
<1>4. ASSUME renderer' \in RendererType, debug' \in TextureType,
             drew' \in Seq(HistoryType), Len(drew') = n,
             {"number", "image", "done"} \subseteq DOMAIN frame', frame'.number = n
      PROVE  TypeOK'
  BY <1>2, <1>3, <1>4 DEF TypeOK, LegacyType, DebugTextureType
<1>5. ASSUME NothingDrawn(n, image)
      PROVE  /\ drew' \in Seq(HistoryType) /\ Len(drew') = n
             /\ {"number", "image", "done"} \subseteq DOMAIN frame'
             /\ frame'.number = n /\ ~frame'.done
             /\ HistoryIsOfItsPose' /\ ResourcesFitTheFrame'
  BY <1>pn, <1>5, NothingDrawnParts DEF HistoryIsOfItsPose, ResourcesFitTheFrame
<1>6. CASE NothingDrawn(n, image) /\ renderer' = begun /\ debug' = texture
  <2>1. InvDX11'
    BY <1>pn, <1>pnow, <1>1, <1>2, <1>6, FrameInvalid
  <2>2. NothingYet(debug)'
    BY <1>3, <1>6 DEF NothingYet
  <2> QED
    BY <1>3, <1>4, <1>5, <1>6, <2>1, <2>2
<1>7. CASE /\ NothingDrawn(n, image) /\ renderer' = RenderDebugView(ready, image)
           /\ debug' = texture
  <2>1. renderer' \in RendererType /\ InvDX11'
    BY <1>pn, <1>pnow, <1>1, <1>2, <1>7, FrameDebugView
  <2>2. NothingYet(debug)'
    BY <1>3, <1>7 DEF NothingYet
  <2> QED
    BY <1>3, <1>4, <1>5, <1>7, <2>1, <2>2
<1>8. CASE /\ pixel'[1] = c /\ renderer' = Drawn(coloured, image)
           /\ debug' = SeenDebugTexture(texture)
           /\ FrameDone(n, image, flat, ready, textured, texture, now, first)
  <2> PICK s : s = renderer'
    OBVIOUS
  <2>1. /\ DrawnState(s, flat, image, n)
        /\ Masked(c) => s.temporary[image] = app[image]
        /\ s.debugTexture = textured.debugTexture
        /\ SizeSeen(s.debugTexture, SeenDebugTexture(texture))
        /\ texture.asked # "none" /\ texture.asked = texture.current =>
             /\ s.debugTexture.shows = texture.content
             /\ s.debugTexture.size = texture.size
        /\ SameBuffers(textured, flat)
        /\ SameBuffers(s, coloured)
        /\ coloured \in RendererType /\ textured \in RendererType
    BY <1>pn, <1>pprojected, <1>ptested, <1>ptextured, <1>pcoloured, <1>1, <1>3, <1>8,
       DrawnStateParts
  <2>2. SeenDebugTexture(texture) \in TextureType /\ NothingYet(SeenDebugTexture(texture))
    <3> PICK seen : seen = SeenDebugTexture(texture)
      OBVIOUS
    <3>1. seen \in TextureType
      BY <1>3 DEF SeenDebugTexture, TextureType
    <3>2. /\ seen.current = texture.current
          /\ seen.dimensionsUpdated => texture.dimensionsUpdated
      BY <1>3 DEF SeenDebugTexture, TextureType
    <3> QED
      BY <1>3, <3>1, <3>2 DEF NothingYet
  <2>3. NothingYet(debug)'
    BY <1>8, <2>2 DEF NothingYet
  <2>4. s \in RendererType /\ s.filtersMade = flat.filtersMade
    BY <2>1 DEF DrawnState
  <2>5. HistoryIsOfItsPose'
    BY <1>pn, <1>pnow, <1>1, <1>8, <2>4, FrameHistory
  <2>6. ResourcesFitTheFrame'
    BY <1>1, <1>8, <2>1, FrameFits
  <2>7. /\ InvDX11'
        /\ drew' \in Seq(HistoryType) /\ Len(drew') = n
        /\ {"number", "image", "done"} \subseteq DOMAIN frame' /\ frame'.number = n
    BY <1>pn, <1>pnow, <1>pcoloured, <1>1, <1>2, <1>8, <2>1, FrameDrawn
  <2> QED
    BY <1>4, <1>8, <2>2, <2>3, <2>4, <2>5, <2>6, <2>7
<1> QED
  BY <1>2, <1>6, <1>7, <1>8

-----------------------------------------------------------------------------
(* PassthroughRendererVulkan.                                              *)

\* The camera image of a command buffer is the one of its handle, or destroyed.
CameraImages(r) ==
  \A i \in Images : r.cameraFrameRes[i].shows \in {NoImage, r.cameraFrameRes[i].handle}

\* Of the masks of an eye some one holds a viewport of that size.
SomeMaskHolds(r, v, size) ==
  \E b \in EyeImages : ViewOf(b) = v /\ r.mask[b] >= size

\* Of the masks of an eye there is one as large as what is remembered for all.
Masks(r) ==
  \A v \in 0..1 : r.maskWidth[v] = 0 \/ SomeMaskHolds(r, v, r.maskWidth[v])

\* The invariant of the legacy renderer.
InvVulkan == CameraImages(legacy) /\ Masks(legacy) /\ SizeSeen(legacy.debugTexture, debug)

\* SetupDebugTexture leaves it as large as the one there is, and uploads it when the
\* first command buffer is recorded.
LEMMA LegacyDebugTextureParts ==
  ASSUME NEW r \in LegacyType, NEW texture \in TextureType,
         SizeSeen(r.debugTexture, texture), NothingYet(texture),
         NEW s, s = SetupDebugTextureVulkan(r, texture),
         NEW seen, seen = SeenDebugTexture(texture)
  PROVE  /\ s \in LegacyType /\ s = [r EXCEPT !.debugTexture = s.debugTexture]
         /\ seen \in TextureType
         /\ SizeSeen(s.debugTexture, seen) /\ NothingYet(seen)
         /\ seen.asked = texture.asked /\ seen.current = texture.current
         /\ seen.size = texture.size /\ seen.content = texture.content
         /\ texture.asked # "none" /\ texture.asked = texture.current =>
              /\ s.debugTexture.size = texture.size
              /\ r.frameIndex = 0 => s.debugTexture.shows = texture.content
<1>1. /\ seen \in TextureType
      /\ seen.asked = texture.asked /\ seen.current = texture.current
      /\ seen.size = texture.size /\ seen.content = texture.content
      /\ seen.dimensionsUpdated <=> texture.dimensionsUpdated /\ texture.asked # texture.current
  BY DEF SeenDebugTexture, TextureType
<1>2. CASE texture.asked = "none" \/ texture.asked # texture.current
  <2>1. s = r
    BY <1>2 DEF SetupDebugTextureVulkan
  <2>2. r = [r EXCEPT !.debugTexture = r.debugTexture]
    BY DEF LegacyType
  <2>3. SizeSeen(s.debugTexture, seen) /\ NothingYet(seen)
    BY <1>1, <1>2, <2>1 DEF SizeSeen, NothingYet
  <2> QED
    BY <1>1, <1>2, <2>1, <2>2, <2>3
<1>3. CASE texture.asked # "none" /\ texture.asked = texture.current
  <2> PICK kept : kept = IF DebugTextureIsAnother(r.debugTexture, texture)
                         THEN [asked |-> texture.current, size |-> texture.size, shows |-> 0]
                         ELSE r.debugTexture
    OBVIOUS
  <2>1. /\ kept \in DebugTextureType
        /\ kept.asked = texture.current /\ kept.size = texture.size
    BY DEF DebugTextureIsAnother, SizeSeen, DebugTextureType, LegacyType, TextureType
  <2> PICK d : d = IF r.frameIndex = 0 THEN [kept EXCEPT !.shows = texture.content] ELSE kept
    OBVIOUS
  <2>2. /\ d \in DebugTextureType /\ d.asked = texture.current /\ d.size = texture.size
        /\ r.frameIndex = 0 => d.shows = texture.content
    BY <2>1 DEF DebugTextureType, TextureType
  <2> PICK a : a = [r EXCEPT !.debugTexture = kept]
    OBVIOUS
  <2>3. s = UploadDebugTexture(a, texture)
    <3>1. r = [r EXCEPT !.debugTexture = r.debugTexture]
      BY DEF LegacyType
    <3> QED
      BY <1>3, <3>1 DEF SetupDebugTextureVulkan
  <2>4. s = [r EXCEPT !.debugTexture = d]
    BY <2>1, <2>3 DEF UploadDebugTexture, LegacyType, DebugTextureType
  <2>5. s \in LegacyType /\ s.debugTexture = d
    BY <2>2, <2>4 DEF LegacyType
  <2> QED
    BY <1>1, <1>3, <2>2, <2>4, <2>5 DEF SizeSeen, NothingYet
<1> QED
  BY <1>2, <1>3

\* UpdateCameraFrameResource leaves the image of the handle, or none.
LEMMA CameraFrameParts ==
  ASSUME NEW r \in LegacyType, CameraImages(r),
         NEW handle \in Handles \cup {NoImage}, NEW fails,
         NEW s, s = UpdateCameraFrameResource(r, handle, fails)
  PROVE  /\ s \in LegacyType
         /\ s = [r EXCEPT !.cameraFrameRes = s.cameraFrameRes]
         /\ CameraImages(s)
         /\ s.cameraFrameRes[r.frameIndex].shows \in {NoImage, handle}
<1> PICK k \in Images : k = r.frameIndex
  BY DEF LegacyType
<1> PICK old : old = r.cameraFrameRes[k]
  OBVIOUS
<1>1. old \in [handle : Handles \cup {NoImage}, shows : Handles \cup {NoImage}]
  BY DEF LegacyType
<1>2. CASE old.handle = handle
  <2>1. s = r
    BY <1>2 DEF UpdateCameraFrameResource
  <2>2. r = [r EXCEPT !.cameraFrameRes = r.cameraFrameRes]
    BY DEF LegacyType
  <2> QED
    BY <1>2, <2>1, <2>2 DEF CameraImages
<1>3. CASE old.handle # handle
  <2> PICK new : new = IF fails THEN [old EXCEPT !.shows = NoImage]
                       ELSE [handle |-> handle, shows |-> handle]
    OBVIOUS
  <2>1. /\ new \in [handle : Handles \cup {NoImage}, shows : Handles \cup {NoImage}]
        /\ new.shows \in {NoImage, handle} /\ new.shows \in {NoImage, new.handle}
    BY <1>1
  <2> PICK c : c = [r.cameraFrameRes EXCEPT ![k] = new]
    OBVIOUS
  <2>2. s = [r EXCEPT !.cameraFrameRes = c]
    BY <1>3 DEF UpdateCameraFrameResource, LegacyType
  <2>3. /\ c \in [Images -> [handle : Handles \cup {NoImage}, shows : Handles \cup {NoImage}]]
        /\ c[k] = new
        /\ \A i \in Images : i # k => c[i] = r.cameraFrameRes[i]
    BY <2>1 DEF LegacyType
  <2>4. s \in LegacyType /\ s.cameraFrameRes = c
    BY <2>2, <2>3 DEF LegacyType
  <2> QED
    BY <2>1, <2>2, <2>3, <2>4 DEF CameraImages
<1> QED
  BY <1>2, <1>3

\* SetupUVDistortionMap leaves the map for the field of view there is.
LEMMA LegacyDistortionMapParts ==
  ASSUME FrameType, NEW r \in LegacyType,
         NEW s, s = SetupUVDistortionMapVulkan(r, config.projection, source.fovScale)
  PROVE  /\ s \in LegacyType
         /\ s.frameIndex = r.frameIndex /\ s.cameraFrameRes = r.cameraFrameRes
         /\ s.debugTexture = r.debugTexture
         /\ s.mask = r.mask /\ s.maskWidth = r.maskWidth
         /\ config.projection # "RoomView2D" => s.uvMap /\ s.fovScale = source.fovScale
<1>1. CASE config.projection # "RoomView2D" /\ (~r.uvMap \/ r.fovScale # source.fovScale)
  <2>1. s = [r EXCEPT !.uvMap = TRUE, !.fovScale = source.fovScale]
    BY <1>1 DEF SetupUVDistortionMapVulkan
  <2>2. source.fovScale \in Nat
    BY DEF FrameType
  <2> QED
    BY <2>1, <2>2 DEF LegacyType
<1>2. CASE ~(config.projection # "RoomView2D" /\ (~r.uvMap \/ r.fovScale # source.fovScale))
  BY <1>2 DEF SetupUVDistortionMapVulkan
<1> QED
  BY <1>1, <1>2

\* The indices of an image are two that there are, each counted to one eye.
LEMMA EyeImagesParts ==
  ASSUME NEW image \in Images
  PROVE  /\ EyeImagesOf(image) \subseteq EyeImages
         /\ image \in EyeImagesOf(image) /\ NUM_SWAPCHAINS + image \in EyeImagesOf(image)
         /\ \A b \in EyeImages : ViewOf(b) \in 0..1
<1>1. /\ NUM_SWAPCHAINS \in Nat /\ NUM_SWAPCHAINS > 0
      /\ image \in Int /\ image >= 0 /\ image <= NUM_SWAPCHAINS - 1
  BY NumSwapchainsAssumption DEF Images
<1>2. image \in EyeImages /\ NUM_SWAPCHAINS + image \in EyeImages
  BY <1>1 DEF EyeImages
<1>3. \A b \in EyeImages : ViewOf(b) \in 0..1
  BY DEF ViewOf
<1> QED
  BY <1>2, <1>3 DEF EyeImagesOf

\* SetupIntermediateRenderTarget leaves some mask that is large enough, and takes
\* none away.
LEMMA MaskParts ==
  ASSUME NEW r \in LegacyType, Masks(r), NEW buffer \in EyeImages,
         ViewOf(buffer) \in 0..1, NEW size \in Nat, size > 0,
         NEW s, s = SetupIntermediateRenderTarget(r, buffer, size)
  PROVE  /\ s \in LegacyType
         /\ s.frameIndex = r.frameIndex /\ s.cameraFrameRes = r.cameraFrameRes
         /\ s.debugTexture = r.debugTexture
         /\ s.uvMap = r.uvMap /\ s.fovScale = r.fovScale
         /\ Masks(s) /\ SomeMaskHolds(s, ViewOf(buffer), size)
         /\ \A b \in EyeImages : r.mask[b] >= size => s.mask[b] >= size
<1> PICK v : v = ViewOf(buffer)
  OBVIOUS
<1>1. /\ v \in 0..1 /\ r.maskWidth[v] \in Nat
      /\ \A b \in EyeImages : r.mask[b] \in Nat
  BY DEF LegacyType
<1>2. CASE MaskCannotHold(r, buffer, size)
  <2> PICK m : m = [r.mask EXCEPT ![buffer] = size]
    OBVIOUS
  <2> PICK w : w = [r.maskWidth EXCEPT ![v] = size]
    OBVIOUS
  <2>1. /\ m \in [EyeImages -> Nat] /\ m[buffer] = size
        /\ \A b \in EyeImages : b # buffer => m[b] = r.mask[b]
        /\ w \in [0..1 -> Nat] /\ w[v] = size
        /\ \A o \in 0..1 : o # v => w[o] = r.maskWidth[o]
    BY <1>1 DEF LegacyType
  <2>2. s = [r EXCEPT !.mask = m, !.maskWidth = w]
    BY <1>2 DEF SetupIntermediateRenderTarget, LegacyType
  <2>3. /\ s \in LegacyType /\ s.mask = m /\ s.maskWidth = w
        /\ s.frameIndex = r.frameIndex /\ s.cameraFrameRes = r.cameraFrameRes
        /\ s.debugTexture = r.debugTexture
        /\ s.uvMap = r.uvMap /\ s.fovScale = r.fovScale
    BY <2>1, <2>2 DEF LegacyType
  <2>4. size >= size
    OBVIOUS
  <2>5. SomeMaskHolds(s, v, size)
    BY <2>1, <2>3, <2>4 DEF SomeMaskHolds
  <2>6. \A b \in EyeImages : r.mask[b] >= size => s.mask[b] >= size
    BY <2>1, <2>3, <2>4
  <2>7. ASSUME NEW o \in 0..1, s.maskWidth[o] # 0
        PROVE  SomeMaskHolds(s, o, s.maskWidth[o])
    <3>1. CASE o = v
      BY <2>1, <2>3, <2>5, <3>1
    <3>2. CASE o # v
      <4>1. s.maskWidth[o] = r.maskWidth[o]
        BY <2>1, <2>3, <3>2
      <4>2. PICK b \in EyeImages : ViewOf(b) = o /\ r.mask[b] >= r.maskWidth[o]
        BY <2>7, <4>1 DEF Masks, SomeMaskHolds
      <4>3. s.mask[b] = r.mask[b]
        BY <2>1, <2>3, <3>2, <4>2
      <4> QED
        BY <4>1, <4>2, <4>3 DEF SomeMaskHolds
    <3> QED
      BY <3>1, <3>2
  <2> QED
    BY <2>3, <2>5, <2>6, <2>7 DEF Masks
<1>3. CASE ~MaskCannotHold(r, buffer, size)
  <2>1. s = r /\ r.maskWidth[v] >= size
    BY <1>1, <1>3 DEF SetupIntermediateRenderTarget, MaskCannotHold
  <2>2. PICK b \in EyeImages : ViewOf(b) = v /\ r.mask[b] >= r.maskWidth[v]
    BY <1>1, <2>1 DEF Masks, SomeMaskHolds
  <2>3. r.mask[b] >= size
    BY <1>1, <2>1, <2>2
  <2> QED
    BY <2>1, <2>2, <2>3 DEF SomeMaskHolds
<1> QED
  BY <1>2, <1>3

\* The two prepasses leave each eye some mask that is large enough.
LEMMA MasksParts ==
  ASSUME FrameType, NEW r \in LegacyType, Masks(r), NEW image \in Images,
         NEW s, s = RenderMaskedPrepassViews(r, image, app[image].size)
  PROVE  /\ s \in LegacyType
         /\ s.frameIndex = r.frameIndex /\ s.cameraFrameRes = r.cameraFrameRes
         /\ s.debugTexture = r.debugTexture
         /\ s.uvMap = r.uvMap /\ s.fovScale = r.fovScale
         /\ Masks(s)
         /\ \A b \in EyeImagesOf(image) : SomeMaskHolds(s, ViewOf(b), app[image].size)
<1> PICK size : size = app[image].size
  OBVIOUS
<1> PICK other : other = NUM_SWAPCHAINS + image
  OBVIOUS
<1> PICK one : one = SetupIntermediateRenderTarget(r, image, size)
  OBVIOUS
<1>1. size \in Nat /\ size > 0
  BY AppTexture
<1>2. /\ image \in EyeImages /\ ViewOf(image) \in 0..1
      /\ other \in EyeImages /\ ViewOf(other) \in 0..1
      /\ EyeImagesOf(image) = {image, other}
  BY EyeImagesParts DEF EyeImagesOf
<1>3. /\ one \in LegacyType
      /\ one.frameIndex = r.frameIndex /\ one.cameraFrameRes = r.cameraFrameRes
      /\ one.debugTexture = r.debugTexture
      /\ one.uvMap = r.uvMap /\ one.fovScale = r.fovScale
      /\ Masks(one) /\ SomeMaskHolds(one, ViewOf(image), size)
  BY <1>1, <1>2, MaskParts
<1>4. s = SetupIntermediateRenderTarget(one, other, size)
  BY DEF RenderMaskedPrepassViews
<1>5. /\ s \in LegacyType
      /\ s.frameIndex = one.frameIndex /\ s.cameraFrameRes = one.cameraFrameRes
      /\ s.debugTexture = one.debugTexture
      /\ s.uvMap = one.uvMap /\ s.fovScale = one.fovScale
      /\ Masks(s) /\ SomeMaskHolds(s, ViewOf(other), size)
      /\ \A b \in EyeImages : one.mask[b] >= size => s.mask[b] >= size
  BY <1>1, <1>2, <1>3, <1>4, MaskParts
<1>6. SomeMaskHolds(s, ViewOf(image), size)
  BY <1>3, <1>5 DEF SomeMaskHolds
<1>7. \A b \in EyeImagesOf(image) : SomeMaskHolds(s, ViewOf(b), size)
  BY <1>2, <1>5, <1>6
<1> QED
  BY <1>3, <1>5, <1>7

\* The next command buffer is one there is.
LEMMA NextFrameParts ==
  ASSUME NEW r \in LegacyType, NEW s, s = NextFrame(r)
  PROVE  s \in LegacyType /\ s = [r EXCEPT !.frameIndex = s.frameIndex]
<1>1. r.frameIndex \in Nat /\ NUM_SWAPCHAINS \in Nat /\ NUM_SWAPCHAINS > 0
  BY NumSwapchainsAssumption DEF LegacyType, Images
<1>2. (r.frameIndex + 1) % NUM_SWAPCHAINS \in Images
  BY <1>1, SMTT(30) DEF Images
<1> QED
  BY <1>2 DEF NextFrame, LegacyType

\* The states of the legacy renderer while a frame is set up: with the camera
\* image, and with the mask; and the debug texture.
LegacyStages(imported, masked, texture, image, c, handle) ==
  /\ texture \in TextureType /\ NothingYet(texture)
  /\ SizeSeen(legacy.debugTexture, texture)
  /\ masked \in LegacyType /\ imported \in LegacyType
  /\ imported.frameIndex = legacy.frameIndex
  /\ masked.frameIndex = legacy.frameIndex
  /\ masked.cameraFrameRes = imported.cameraFrameRes
  /\ masked.debugTexture = imported.debugTexture
  /\ CameraImages(imported) /\ Masks(imported) /\ Masks(masked)
  /\ SizeSeen(imported.debugTexture, SeenDebugTexture(texture))
  /\ texture.asked # "none" /\ texture.asked = texture.current =>
       /\ imported.debugTexture.size = texture.size
       /\ legacy.frameIndex = 0 => imported.debugTexture.shows = texture.content
  /\ texture.asked = "none" /\ handle # NoImage =>
       imported.cameraFrameRes[legacy.frameIndex].shows \in {NoImage, handle}
  /\ config.projection # "RoomView2D" => masked.uvMap /\ masked.fovScale = source.fovScale
  /\ c.mode = "Masked" =>
       \A b \in EyeImagesOf(image) : SomeMaskHolds(masked, ViewOf(b), app[image].size)

\* A frame goes through these states.
LEMMA StagesOfLegacyFrame ==
  ASSUME TypeOK, InvVulkan, NothingYet(debug), NEW image \in Images, NEW c,
         NEW handle \in Handles \cup {NoImage}, NEW fails,
         NEW texture, texture = GetTestPattern(debug),
         NEW textured, textured = SetupDebugTextureVulkan(legacy, texture),
         NEW imported,
         imported = IF texture.asked = "none" /\ handle # NoImage
                    THEN UpdateCameraFrameResource(textured, handle, fails) ELSE textured,
         NEW mapped,
         mapped = SetupUVDistortionMapVulkan(imported, config.projection, source.fovScale),
         NEW masked,
         masked = IF c.mode = "Masked"
                  THEN RenderMaskedPrepassViews(mapped, image, app[image].size)
                  ELSE mapped
  PROVE  LegacyStages(imported, masked, texture, image, c, handle)
<1>1. legacy \in LegacyType /\ debug \in TextureType /\ source.fovScale \in Nat /\ FrameType
  BY TypedFrame DEF TypeOK
<1>2. /\ texture \in TextureType /\ NothingYet(texture)
      /\ SizeSeen(legacy.debugTexture, texture)
  BY <1>1, TestPatternParts DEF InvVulkan
<1>3. /\ textured \in LegacyType
      /\ textured = [legacy EXCEPT !.debugTexture = textured.debugTexture]
      /\ SizeSeen(textured.debugTexture, SeenDebugTexture(texture))
      /\ texture.asked # "none" /\ texture.asked = texture.current =>
           /\ textured.debugTexture.size = texture.size
           /\ legacy.frameIndex = 0 => textured.debugTexture.shows = texture.content
  BY <1>1, <1>2, LegacyDebugTextureParts
<1>4. /\ textured.frameIndex = legacy.frameIndex
      /\ CameraImages(textured) /\ Masks(textured)
  <2>1. /\ textured.frameIndex = legacy.frameIndex
        /\ textured.cameraFrameRes = legacy.cameraFrameRes
        /\ textured.mask = legacy.mask /\ textured.maskWidth = legacy.maskWidth
    BY <1>1, <1>3 DEF LegacyType
  <2> QED
    BY <2>1 DEF InvVulkan, CameraImages, Masks, SomeMaskHolds
<1>5. /\ imported \in LegacyType
      /\ imported = [textured EXCEPT !.cameraFrameRes = imported.cameraFrameRes]
      /\ CameraImages(imported)
      /\ texture.asked = "none" /\ handle # NoImage =>
           imported.cameraFrameRes[textured.frameIndex].shows \in {NoImage, handle}
  <2>1. CASE texture.asked = "none" /\ handle # NoImage
    BY <1>3, <1>4, <2>1, CameraFrameParts
  <2>2. CASE ~(texture.asked = "none" /\ handle # NoImage)
    <3>1. imported = textured
      BY <2>2
    <3>2. textured = [textured EXCEPT !.cameraFrameRes = textured.cameraFrameRes]
      BY <1>3 DEF LegacyType
    <3> QED
      BY <1>3, <1>4, <2>2, <3>1, <3>2
  <2> QED
    BY <2>1, <2>2
<1>6. /\ imported.frameIndex = legacy.frameIndex /\ Masks(imported)
      /\ imported.debugTexture = textured.debugTexture
  BY <1>3, <1>4, <1>5 DEF LegacyType, Masks, SomeMaskHolds
<1>7. /\ mapped \in LegacyType
      /\ mapped.frameIndex = imported.frameIndex
      /\ mapped.cameraFrameRes = imported.cameraFrameRes
      /\ mapped.debugTexture = imported.debugTexture
      /\ mapped.mask = imported.mask /\ mapped.maskWidth = imported.maskWidth
      /\ config.projection # "RoomView2D" => mapped.uvMap /\ mapped.fovScale = source.fovScale
  BY <1>1, <1>5, LegacyDistortionMapParts
<1>8. Masks(mapped)
  BY <1>6, <1>7 DEF Masks, SomeMaskHolds
<1>9. /\ masked \in LegacyType /\ Masks(masked)
      /\ masked.frameIndex = mapped.frameIndex
      /\ masked.cameraFrameRes = mapped.cameraFrameRes
      /\ masked.debugTexture = mapped.debugTexture
      /\ masked.uvMap = mapped.uvMap /\ masked.fovScale = mapped.fovScale
      /\ c.mode = "Masked" =>
           \A b \in EyeImagesOf(image) : SomeMaskHolds(masked, ViewOf(b), app[image].size)
  <2>1. CASE c.mode = "Masked"
    <3>1. masked = RenderMaskedPrepassViews(mapped, image, app[image].size)
      BY <2>1
    <3>2. /\ masked \in LegacyType
          /\ masked.frameIndex = mapped.frameIndex
          /\ masked.cameraFrameRes = mapped.cameraFrameRes
          /\ masked.debugTexture = mapped.debugTexture
          /\ masked.uvMap = mapped.uvMap /\ masked.fovScale = mapped.fovScale
          /\ Masks(masked)
          /\ \A b \in EyeImagesOf(image) : SomeMaskHolds(masked, ViewOf(b), app[image].size)
      BY <1>1, <1>7, <1>8, <3>1, MasksParts
    <3> QED
      BY <3>2
  <2>2. CASE c.mode # "Masked"
    BY <1>7, <1>8, <2>2
  <2> QED
    BY <2>1, <2>2
<1>10. config.projection # "RoomView2D" => masked.uvMap /\ masked.fovScale = source.fovScale
  BY <1>7, <1>9
<1> QED
  BY <1>2, <1>3, <1>4, <1>5, <1>6, <1>7, <1>9, <1>10 DEF LegacyStages

\* Whatever state a frame of the legacy renderer ends in, it goes on to the next
\* command buffer.
LEMMA NextLegacy ==
  ASSUME NEW r \in LegacyType, CameraImages(r), Masks(r),
         NEW texture, SizeSeen(r.debugTexture, texture),
         legacy' = NextFrame(r), debug' = texture
  PROVE  /\ legacy' \in LegacyType /\ InvVulkan'
         /\ legacy'.uvMap = r.uvMap /\ legacy'.fovScale = r.fovScale
         /\ legacy'.mask = r.mask /\ legacy'.debugTexture = r.debugTexture
<1> PICK s : s = legacy'
  OBVIOUS
<1>1. s \in LegacyType /\ s = [r EXCEPT !.frameIndex = s.frameIndex]
  BY NextFrameParts
<1>2. /\ s.uvMap = r.uvMap /\ s.fovScale = r.fovScale
      /\ s.mask = r.mask /\ s.maskWidth = r.maskWidth
      /\ s.debugTexture = r.debugTexture /\ s.cameraFrameRes = r.cameraFrameRes
  BY <1>1 DEF LegacyType
<1>3. CameraImages(s) /\ Masks(s) /\ SizeSeen(s.debugTexture, texture)
  BY <1>2 DEF CameraImages, Masks, SomeMaskHolds
<1> QED
  BY <1>1, <1>2, <1>3 DEF InvVulkan

\* A frame ends in one of three ways.
LEMMA LegacyOutcomes ==
  ASSUME NEW image, NEW c, NEW handle, NEW fails, RenderFrameVulkan(image, c, handle, fails),
         NEW texture, texture = GetTestPattern(debug),
         NEW textured, textured = SetupDebugTextureVulkan(legacy, texture),
         NEW imported,
         imported = IF texture.asked = "none" /\ handle # NoImage
                    THEN UpdateCameraFrameResource(textured, handle, fails) ELSE textured,
         NEW mapped,
         mapped = SetupUVDistortionMapVulkan(imported, config.projection, source.fovScale),
         NEW masked,
         masked = IF c.mode = "Masked"
                  THEN RenderMaskedPrepassViews(mapped, image, app[image].size)
                  ELSE mapped,
         NEW about,
         about = [number |-> Len(drew) + 1, image |-> image, done |-> FALSE, stereo |-> FALSE]
  PROVE  \/ frame' = about /\ debug' = texture /\ legacy' = legacy
         \/ frame' = about /\ debug' = SeenDebugTexture(texture) /\ legacy' = NextFrame(imported)
         \/ /\ frame' = [number |-> Len(drew) + 1, image |-> image, done |-> TRUE,
                         stereo |-> FALSE, buffer |-> legacy.frameIndex,
                         handle |-> handle, sampled |-> CameraImage(masked, texture)]
            /\ debug' = SeenDebugTexture(texture) /\ legacy' = NextFrame(masked)
            /\ pixel'[1] = c
            /\ texture.asked = "none" => handle # NoImage
BY DEF RenderFrameVulkan, CameraIsMissing

\* A frame of PassthroughRendererVulkan.
LEMMA FrameVulkan ==
  ASSUME TypeOK, InvVulkan, NothingYet(debug), setup.vulkan,
         NEW image \in Images, NEW c, NEW handle \in Handles \cup {NoImage}, NEW fails,
         RenderFrameVulkan(image, c, handle, fails),
         drew' = Append(drew, NoHistory),
         UNCHANGED <<setup, changes, config, app, source, renderer, poses>>
  PROVE  /\ TypeOK' /\ NothingYet(debug)' /\ InvVulkan'
         /\ HistoryIsOfItsPose' /\ ResourcesFitTheFrame'
<1> PICK texture : texture = GetTestPattern(debug)
  OBVIOUS
<1> PICK textured : textured = SetupDebugTextureVulkan(legacy, texture)
  OBVIOUS
<1> PICK imported :
      imported = IF texture.asked = "none" /\ handle # NoImage
                 THEN UpdateCameraFrameResource(textured, handle, fails) ELSE textured
  OBVIOUS
<1> PICK mapped :
      mapped = SetupUVDistortionMapVulkan(imported, config.projection, source.fovScale)
  OBVIOUS
<1> PICK masked :
      masked = IF c.mode = "Masked"
               THEN RenderMaskedPrepassViews(mapped, image, app[image].size)
               ELSE mapped
  OBVIOUS
<1> PICK about :
      about = [number |-> Len(drew) + 1, image |-> image, done |-> FALSE, stereo |-> FALSE]
  OBVIOUS
<1> PICK seen : seen = SeenDebugTexture(texture)
  OBVIOUS
<1> PICK done :
      done = [number |-> Len(drew) + 1, image |-> image, done |-> TRUE,
              stereo |-> FALSE, buffer |-> legacy.frameIndex,
              handle |-> handle, sampled |-> CameraImage(masked, texture)]
  OBVIOUS
<1>1. LegacyStages(imported, masked, texture, image, c, handle)
  BY StagesOfLegacyFrame
<1>2. \/ frame' = about /\ debug' = texture /\ legacy' = legacy
      \/ frame' = about /\ debug' = seen /\ legacy' = NextFrame(imported)
      \/ /\ frame' = done /\ debug' = seen /\ legacy' = NextFrame(masked)
         /\ pixel'[1] = c
         /\ texture.asked = "none" => handle # NoImage
  BY LegacyOutcomes
<1>3. NoHistory \in HistoryType
  BY DEF NoHistory, HistoryType
<1>4. drew' \in Seq(HistoryType) /\ Len(drew') = Len(drew) + 1
  BY <1>3, HistoryAdded DEF TypeOK
<1>5. /\ texture \in TextureType /\ NothingYet(texture)
      /\ seen \in TextureType /\ NothingYet(seen)
      /\ seen.asked = texture.asked /\ seen.current = texture.current
      /\ seen.size = texture.size /\ seen.content = texture.content
  <2>1. texture \in TextureType /\ NothingYet(texture)
    BY <1>1 DEF LegacyStages
  <2>2. /\ seen \in TextureType
        /\ seen.asked = texture.asked /\ seen.current = texture.current
        /\ seen.size = texture.size /\ seen.content = texture.content
        /\ seen.dimensionsUpdated => texture.dimensionsUpdated
    BY <2>1 DEF SeenDebugTexture, TextureType
  <2> QED
    BY <2>1, <2>2 DEF NothingYet
<1>6. HistoryIsOfItsPose'
  BY DEF HistoryIsOfItsPose
<1>7. ASSUME debug' \in TextureType, legacy' \in LegacyType,
             frame'.number = Len(drew) + 1,
             {"number", "image", "done"} \subseteq DOMAIN frame'
      PROVE  TypeOK'
  BY <1>4, <1>7 DEF TypeOK, RendererType, DebugTextureType
<1>8. CASE frame' = about /\ debug' = texture /\ legacy' = legacy
  <2>1. /\ frame'.number = Len(drew) + 1 /\ ~frame'.done
        /\ {"number", "image", "done"} \subseteq DOMAIN frame'
    BY <1>8
  <2>2. TypeOK' /\ NothingYet(debug)'
    BY <1>5, <1>7, <1>8, <2>1, SMTT(30) DEF TypeOK, NothingYet
  <2>3. InvVulkan'
    BY <1>1, <1>8 DEF InvVulkan, LegacyStages, CameraImages, Masks, SizeSeen
  <2> QED
    BY <1>6, <2>1, <2>2, <2>3 DEF ResourcesFitTheFrame
<1>9. CASE frame' = about /\ debug' = seen /\ legacy' = NextFrame(imported)
  <2>1. /\ frame'.number = Len(drew) + 1 /\ ~frame'.done
        /\ {"number", "image", "done"} \subseteq DOMAIN frame'
    BY <1>9
  <2>2. legacy' \in LegacyType /\ InvVulkan'
    BY <1>1, <1>9, NextLegacy DEF LegacyStages
  <2>3. TypeOK' /\ NothingYet(debug)'
    BY <1>5, <1>7, <1>9, <2>1, <2>2 DEF NothingYet
  <2> QED
    BY <1>6, <2>1, <2>2, <2>3 DEF ResourcesFitTheFrame
<1>10. CASE /\ frame' = done /\ debug' = seen /\ legacy' = NextFrame(masked)
            /\ pixel'[1] = c
            /\ texture.asked = "none" => handle # NoImage
  <2>1. /\ frame'.number = Len(drew) + 1 /\ frame'.image = image
        /\ frame'.buffer = legacy.frameIndex /\ frame'.handle = handle
        /\ frame'.sampled = CameraImage(masked, texture)
        /\ {"number", "image", "done"} \subseteq DOMAIN frame'
    BY <1>10
  <2>2. /\ masked \in LegacyType /\ Masks(masked)
        /\ masked.frameIndex = imported.frameIndex
        /\ masked.debugTexture = imported.debugTexture
        /\ masked.cameraFrameRes = imported.cameraFrameRes
    BY <1>1 DEF LegacyStages
  <2>3. CameraImages(masked) /\ SizeSeen(masked.debugTexture, seen)
    BY <1>1, <2>2 DEF LegacyStages, CameraImages
  <2>4. /\ legacy' \in LegacyType /\ InvVulkan'
        /\ legacy'.uvMap = masked.uvMap /\ legacy'.fovScale = masked.fovScale
        /\ legacy'.mask = masked.mask /\ legacy'.debugTexture = masked.debugTexture
    BY <1>10, <2>2, <2>3, NextLegacy
  <2>5. TypeOK' /\ NothingYet(debug)'
    BY <1>5, <1>7, <1>10, <2>1, <2>4 DEF NothingYet
  <2>6. ASSUME debug'.asked = "none"
        PROVE  frame'.sampled = [debug |-> FALSE, shows |-> frame'.handle] \/ ImportFailed'
    <3>1. texture.asked = "none" /\ handle # NoImage
      BY <1>5, <1>10, <2>6
    <3>2. frame'.sampled = [debug |-> FALSE,
                            shows |-> imported.cameraFrameRes[legacy.frameIndex].shows]
      <4>1. masked.frameIndex = legacy.frameIndex
        BY <1>1 DEF LegacyStages
      <4>2. CameraImage(masked, texture)
              = [debug |-> FALSE, shows |-> masked.cameraFrameRes[masked.frameIndex].shows]
        BY <3>1 DEF CameraImage
      <4> QED
        BY <2>1, <2>2, <4>1, <4>2
    <3>3. imported.cameraFrameRes[legacy.frameIndex].shows \in {NoImage, handle}
      BY <1>1, <3>1 DEF LegacyStages
    <3>4. CASE imported.cameraFrameRes[legacy.frameIndex].shows = handle
      BY <2>1, <3>2, <3>4
    <3>5. CASE imported.cameraFrameRes[legacy.frameIndex].shows = NoImage
      BY <3>2, <3>5 DEF ImportFailed
    <3> QED
      BY <3>3, <3>4, <3>5
  <2>7. ASSUME debug'.asked # "none", ~UploadIsLost', ~DebugTextureIsMissing'
        PROVE  /\ frame'.sampled = [debug |-> TRUE, shows |-> debug'.content]
               /\ legacy'.debugTexture.size = debug'.size
    <3>1. texture.asked # "none" /\ texture.asked = texture.current
      BY <1>5, <1>10, <2>7 DEF DebugTextureIsMissing
    <3>2. legacy.frameIndex = 0
      BY <2>1, <2>7 DEF UploadIsLost
    <3>3. /\ imported.debugTexture.size = texture.size
          /\ imported.debugTexture.shows = texture.content
      BY <1>1, <3>1, <3>2 DEF LegacyStages
    <3>4. frame'.sampled = [debug |-> TRUE, shows |-> imported.debugTexture.shows]
      BY <2>1, <2>2, <3>1 DEF CameraImage
    <3>5. debug'.content = texture.content /\ debug'.size = texture.size
      BY <1>5, <1>10
    <3> QED
      BY <2>2, <2>4, <3>3, <3>4, <3>5
  <2>8. config'.projection # "RoomView2D" =>
          legacy'.uvMap /\ legacy'.fovScale = source'.fovScale
    BY <1>1, <2>4 DEF LegacyStages
  <2>9. pixel'[1].mode = "Masked" =>
          \A b \in EyeImagesOf(frame'.image) :
            legacy'.mask[b] >= app'[frame'.image].size \/ MaskIsTooSmall(b)'
    <3>1. app'[frame'.image] = app[image] /\ pixel'[1].mode = c.mode
      BY <1>10, <2>1
    <3>2. ASSUME c.mode = "Masked", NEW b \in EyeImagesOf(image), ~MaskIsTooSmall(b)'
          PROVE  legacy'.mask[b] >= app[image].size
      <4>1. PICK o \in EyeImages :
              ViewOf(o) = ViewOf(b) /\ legacy'.mask[o] >= app[image].size
        BY <1>1, <2>4, <3>2 DEF LegacyStages, SomeMaskHolds
      <4>2. o = b
        BY <2>1, <3>1, <3>2, <4>1 DEF MaskIsTooSmall
      <4> QED
        BY <4>1, <4>2
    <3> QED
      BY <2>1, <3>1, <3>2
  <2>10. FitVulkan'
    BY <2>6, <2>7, <2>8, <2>9 DEF FitVulkan
  <2> QED
    BY <1>6, <2>4, <2>5, <2>10 DEF ResourcesFitTheFrame
<1> QED
  BY <1>2, <1>8, <1>9, <1>10

-----------------------------------------------------------------------------
(* The inductive invariant.                                                *)

\* Of the two renderers only the one that is set up has anything to keep.
IInv ==
  /\ TypeOK /\ NothingYet(debug)
  /\ setup.vulkan => InvVulkan
  /\ ~setup.vulkan => InvDX11
  /\ HistoryIsOfItsPose /\ ResourcesFitTheFrame

\* It holds when the renderer has been made.
LEMMA InitInv == Init => IInv
<1> SUFFICES ASSUME Init PROVE IInv
  OBVIOUS
<1>0. NUM_SWAPCHAINS \in Nat /\ NUM_SWAPCHAINS > 0 /\ 0 \in Images /\ 0 \in Slots /\ 1 \in Slots
  BY NumSwapchainsAssumption DEF Images, Slots
<1>1. setup \in Setups /\ changes \in Nat /\ config \in ConfigType
  BY DEF Init, ConfigType
<1>2. app \in [Images -> [swapchain : Nat \ {0}, size : Sizes]]
  BY DEF Init
<1>3. source \in [size : Nat, fovScale : Nat] /\ debug \in TextureType
  BY DEF Init, TextureType, DebugName
<1>4. NoSurfaces \in [Slots -> SurfaceType] /\ NoTexture \in Texture /\ ~NoSurfaces[0].texture
      /\ NoTexture.swapchain = 0
  BY <1>0 DEF NoSurfaces, NoSurface, SurfaceType, NoTexture, Texture
<1>5. renderer \in RendererType
  BY <1>0, <1>4 DEF Init, RendererType, DebugTextureType, DebugName
<1>6. legacy \in LegacyType
  BY <1>0 DEF Init, NewRendererVulkan, LegacyType, DebugTextureType, DebugName
<1>7. poses \in PosesType /\ drew = <<>> /\ drew \in Seq(HistoryType) /\ Len(drew) = 0
  BY DEF Init, PosesType
<1>8. /\ {"number", "image", "done"} \subseteq DOMAIN frame
      /\ frame.number = 0 /\ ~frame.done
  BY DEF Init, NoFrame
<1>9. TypeOK
  BY <1>1, <1>2, <1>3, <1>5, <1>6, <1>7, <1>8 DEF TypeOK
<1>10. debug.current = "none" /\ debug.size = 0 /\ ~debug.dimensionsUpdated
  BY DEF Init
<1>11. InvVulkan
  BY <1>10 DEF Init, NewRendererVulkan, InvVulkan, CameraImages, Masks, SizeSeen
<1>12. InvDX11
  <2>1. /\ \A i \in Images : renderer.temporary[i] = NoTexture
        /\ \A i \in Images : renderer.depthStencil[i] = NoSurfaces
        /\ renderer.cameraFilter = NoSurfaces /\ renderer.filtersMade = 0
        /\ renderer.debugTexture.size = 0
    BY DEF Init
  <2>2. TargetsKnown
    <3>1. ASSUME NEW i \in Images PROVE TargetKnown(renderer, i)
      <4>1. app[i].swapchain \in Nat /\ app[i].swapchain > 0
        BY <1>2
      <4> QED
        BY <1>4, <2>1, <4>1 DEF TargetKnown
    <3> QED
      BY <3>1 DEF TargetsKnown
  <2>3. MapsAlike
    BY <1>0, <2>1 DEF MapsAlike, Alike, NoSurfaces
  <2>4. LastMaps /\ PosesInOrder(poses, Len(drew))
    BY <1>7, <1>8 DEF LastMaps, PosesInOrder, Init
  <2>5. Buffers(renderer, drew, poses)
    BY <1>4, <1>7, <2>1 DEF Buffers
  <2>6. SizeSeen(renderer.debugTexture, debug)
    BY <1>10, <2>1 DEF SizeSeen
  <2> QED
    BY <2>2, <2>3, <2>4, <2>5, <2>6 DEF InvDX11
<1> QED
  BY <1>8, <1>9, <1>10, <1>11, <1>12
     DEF IInv, NothingYet, HistoryIsOfItsPose, ResourcesFitTheFrame

-----------------------------------------------------------------------------
(* What happens between frames.                                            *)

\* Between frames nothing is drawn.
BetweenFrames ==
  /\ frame' = [frame EXCEPT !.done = FALSE]
  /\ UNCHANGED <<setup, poses, drew, pixel>> /\ changes' \in Nat

\* Then there is no frame that was drawn with something.
LEMMA FrameIsOver ==
  ASSUME IInv, BetweenFrames
  PROVE  /\ {"number", "image", "done"} \subseteq DOMAIN frame'
         /\ frame'.number = frame.number /\ frame'.image = frame.image /\ ~frame'.done
         /\ HistoryIsOfItsPose' /\ ResourcesFitTheFrame'
<1>1. /\ {"number", "image", "done"} \subseteq DOMAIN frame'
      /\ frame'.number = frame.number /\ frame'.image = frame.image /\ ~frame'.done
  BY DEF IInv, TypeOK, BetweenFrames
<1> QED
  BY <1>1 DEF HistoryIsOfItsPose, ResourcesFitTheFrame

\* What the renderer keeps that what is drawn later depends on.
KeepsRenderer(s) ==
  /\ s \in RendererType
  /\ s.temporary = renderer.temporary /\ s.depthStencil = renderer.depthStencil
  /\ s.prevSwapchain = renderer.prevSwapchain /\ s.debugTexture = renderer.debugTexture
  /\ SameBuffers(s, renderer)

\* The renderer keeps its invariant when images are replaced by newer ones.
LEMMA BetweenDX11 ==
  ASSUME IInv, ~setup.vulkan, BetweenFrames, KeepsRenderer(renderer'),
         NEW a, a = app', \A i \in Images : app[i].swapchain < a[i].swapchain \/ a[i] = app[i],
         \A i \in Images : app[i].swapchain \in Nat /\ a[i].swapchain \in Nat,
         NEW texture, texture = debug', SizeSeen(renderer.debugTexture, texture)
  PROVE  InvDX11'
<1> PICK s : s = renderer'
  OBVIOUS
<1>1. InvDX11 /\ KeepsRenderer(s) /\ renderer \in RendererType
  BY DEF IInv, TypeOK
<1>2. TargetsKnown'
  <2>1. ASSUME NEW i \in Images PROVE TargetKnown(s, i)'
    <3>1. /\ s.temporary[i] = renderer.temporary[i]
          /\ renderer.temporary[i].swapchain \in Nat
      BY <1>1 DEF KeepsRenderer, RendererType, Texture
    <3>2. /\ renderer.temporary[i].swapchain <= app[i].swapchain
          /\ renderer.temporary[i].swapchain = app[i].swapchain => renderer.temporary[i] = app[i]
      BY <1>1 DEF InvDX11, TargetsKnown, TargetKnown
    <3>3. /\ renderer.temporary[i].swapchain <= a[i].swapchain
          /\ renderer.temporary[i].swapchain = a[i].swapchain => renderer.temporary[i] = a[i]
      BY <3>1, <3>2
    <3>4. /\ renderer'.temporary[i].swapchain <= app'[i].swapchain
          /\ renderer'.temporary[i].swapchain = app'[i].swapchain =>
               renderer'.temporary[i] = app'[i]
      BY <3>1, <3>3
    <3> QED
      BY <3>4 DEF TargetKnown
  <2> QED
    BY <2>1 DEF TargetsKnown, TargetKnown
<1>3. MapsAlike'
  BY <1>1 DEF InvDX11, MapsAlike, Alike, KeepsRenderer
<1>4. LastMaps'
  BY <1>1, FrameIsOver DEF InvDX11, LastMaps, KeepsRenderer, BetweenFrames
<1>5. PosesInOrder(poses', Len(drew')) /\ Buffers(renderer', drew', poses')
  BY <1>1, BuffersSame DEF InvDX11, KeepsRenderer, BetweenFrames
<1>6. SizeSeen(renderer'.debugTexture, debug')
  BY <1>1 DEF KeepsRenderer
<1> QED
  BY <1>2, <1>3, <1>4, <1>5, <1>6 DEF InvDX11

\* What an action between frames has to keep.
LEMMA BetweenKeepsInv ==
  ASSUME IInv, BetweenFrames,
         config' \in ConfigType,
         NEW a \in [Images -> [swapchain : Nat \ {0}, size : Sizes]], a = app',
         \A i \in Images : app[i].swapchain < a[i].swapchain \/ a[i] = app[i],
         source' \in [size : Nat, fovScale : Nat],
         KeepsRenderer(renderer'), legacy' = legacy,
         NEW texture \in TextureType, texture = debug', NothingYet(texture),
         \A kept \in DebugTextureType : SizeSeen(kept, debug) => SizeSeen(kept, texture)
  PROVE  IInv'
<1>1. /\ {"number", "image", "done"} \subseteq DOMAIN frame'
      /\ frame'.number = frame.number
      /\ HistoryIsOfItsPose' /\ ResourcesFitTheFrame'
  BY FrameIsOver
<1>2. TypeOK'
  BY <1>1 DEF IInv, TypeOK, BetweenFrames, KeepsRenderer, LegacyType, DebugTextureType
<1>3. NothingYet(debug)'
  BY DEF NothingYet
<1>4. renderer.debugTexture \in DebugTextureType /\ legacy.debugTexture \in DebugTextureType
  BY DEF IInv, TypeOK, RendererType, LegacyType
<1>5. setup.vulkan => InvVulkan'
  BY <1>4 DEF IInv, InvVulkan, CameraImages, Masks, SizeSeen
<1>6. ~setup.vulkan => InvDX11'
  <2>1. SUFFICES ASSUME ~setup.vulkan PROVE InvDX11'
    OBVIOUS
  <2>2. \A i \in Images : app[i].swapchain \in Nat /\ a[i].swapchain \in Nat
    BY DEF IInv, TypeOK
  <2>3. SizeSeen(renderer.debugTexture, texture)
    BY <1>4, <2>1 DEF IInv, InvDX11
  <2> QED
    BY <2>1, <2>2, <2>3, BetweenDX11
<1> QED
  BY <1>1, <1>2, <1>3, <1>5, <1>6 DEF IInv, BetweenFrames

\* A renderer that is left alone keeps it all.
LEMMA RendererKept == TypeOK => KeepsRenderer(renderer)
BY DEF TypeOK, KeepsRenderer, SameBuffers

\* A change happens between frames.
LEMMA Betweens ==
  ASSUME IInv, NEW what, Change(what)
  PROVE  BetweenFrames
<1>1. changes \in Nat
  BY DEF IInv, TypeOK
<1> QED
  BY <1>1 DEF Change, BetweenFrames

\* An action that leaves the renderers, the application and the debug texture
\* alone.
LEMMA SettingsKeepInv ==
  ASSUME IInv, BetweenFrames, config' \in ConfigType, source' \in [size : Nat, fovScale : Nat],
         UNCHANGED <<app, debug, renderer, legacy>>
  PROVE  IInv'
<1>1. TypeOK /\ NothingYet(debug)
  BY DEF IInv
<1>2. /\ app \in [Images -> [swapchain : Nat \ {0}, size : Sizes]] /\ debug \in TextureType
      /\ renderer' = renderer
  BY <1>1 DEF TypeOK
<1>3. KeepsRenderer(renderer')
  BY <1>1, <1>2, RendererKept
<1> QED
  BY <1>1, <1>2, <1>3, BetweenKeepsInv

\* A setting is changed.
LEMMA ChangeSettingKeepsInv ==
  ASSUME IInv, ChangeSetting PROVE IInv'
<1>1. config \in ConfigType /\ source \in [size : Nat, fovScale : Nat]
  BY DEF IInv, TypeOK
<1>2. config' \in ConfigType
  <2>1. CASE config' = [config EXCEPT !.StereoDepthMapScale = 3 - @]
    BY <1>1, <2>1 DEF ConfigType
  <2>2. ASSUME NEW field \in DOMAIN config \ {"projection", "StereoDepthMapScale"},
               config' = [config EXCEPT ![field] = ~@]
        PROVE  config' \in ConfigType
    <3>1. field \in {"EnableTemporalFiltering", "StereoUseDisparityTemporalFiltering",
                     "StereoCutoutEnabled", "StereoUseHexagonGridMesh", "debugView"}
      BY <1>1 DEF ConfigType
    <3>2. CASE field = "EnableTemporalFiltering"
      BY <1>1, <2>2, <3>2 DEF ConfigType
    <3>3. CASE field = "StereoUseDisparityTemporalFiltering"
      BY <1>1, <2>2, <3>3 DEF ConfigType
    <3>4. CASE field = "StereoCutoutEnabled"
      BY <1>1, <2>2, <3>4 DEF ConfigType
    <3>5. CASE field = "StereoUseHexagonGridMesh"
      BY <1>1, <2>2, <3>5 DEF ConfigType
    <3>6. CASE field = "debugView"
      BY <1>1, <2>2, <3>6 DEF ConfigType
    <3> QED
      BY <3>1, <3>2, <3>3, <3>4, <3>5, <3>6
  <2> QED
    BY <2>1, <2>2 DEF ChangeSetting
<1> QED
  BY <1>1, <1>2, Betweens, SettingsKeepInv DEF ChangeSetting

\* There is another swapchain.
LEMMA TakeNewSwapchainKeepsInv ==
  ASSUME IInv, TakeNewSwapchain PROVE IInv'
<1>1. /\ config \in ConfigType /\ source \in [size : Nat, fovScale : Nat]
      /\ app \in [Images -> [swapchain : Nat \ {0}, size : Sizes]]
      /\ debug \in TextureType /\ NothingYet(debug) /\ TypeOK
  BY DEF IInv, TypeOK
<1>2. BetweenFrames /\ UNCHANGED <<config, source, debug, renderer, legacy>>
  BY Betweens DEF TakeNewSwapchain
<1>3. PICK size \in Sizes :
        app' = [i \in Images |-> [swapchain |-> app[i].swapchain + 1, size |-> size]]
  BY DEF TakeNewSwapchain
<1> PICK a : a = app'
  OBVIOUS
<1>4. ASSUME NEW i \in Images
      PROVE  /\ a[i] \in [swapchain : Nat \ {0}, size : Sizes]
             /\ app[i].swapchain < a[i].swapchain
  <2>1. app[i].swapchain \in Nat
    BY <1>1
  <2>2. a[i] = [swapchain |-> app[i].swapchain + 1, size |-> size]
    BY <1>3
  <2>3. app[i].swapchain + 1 \in Nat \ {0}
    BY <2>1
  <2> QED
    BY <2>1, <2>2, <2>3
<1>5. a \in [Images -> [swapchain : Nat \ {0}, size : Sizes]]
  BY <1>3, <1>4
<1>6. KeepsRenderer(renderer')
  BY <1>1, <1>2, RendererKept
<1> QED
  BY <1>1, <1>2, <1>4, <1>5, <1>6, BetweenKeepsInv

\* Disparity maps are of another size.
LEMMA NewDepthFrameKeepsInv ==
  ASSUME IInv, NewDepthFrame PROVE IInv'
<1>1. /\ config \in ConfigType /\ source \in [size : Nat, fovScale : Nat]
      /\ changes \in Nat
  BY DEF IInv, TypeOK
<1>2. BetweenFrames
  <2>1. CASE source.size = 0
    BY <1>1, <2>1 DEF NewDepthFrame, BetweenFrames
  <2>2. CASE source.size # 0
    BY <2>2, Betweens DEF NewDepthFrame
  <2> QED
    BY <2>1, <2>2
<1>3. source' \in [size : Nat, fovScale : Nat]
  <2>1. PICK size \in Sizes : source' = [source EXCEPT !.size = size]
    BY DEF NewDepthFrame
  <2>2. size \in Nat
    BY SizesAssumption
  <2> QED
    BY <1>1, <2>1, <2>2
<1> QED
  BY <1>1, <1>2, <1>3, SettingsKeepInv DEF NewDepthFrame

\* The field of view is another.
LEMMA ChangeFieldOfViewKeepsInv ==
  ASSUME IInv, ChangeFieldOfView PROVE IInv'
<1>1. config \in ConfigType /\ source \in [size : Nat, fovScale : Nat]
  BY DEF IInv, TypeOK
<1>2. source' \in [size : Nat, fovScale : Nat]
  <2>1. source.fovScale + 1 \in Nat
    BY <1>1
  <2>2. source' = [source EXCEPT !.fovScale = source.fovScale + 1]
    BY <1>1 DEF ChangeFieldOfView
  <2> QED
    BY <1>1, <2>1, <2>2
<1> QED
  BY <1>1, <1>2, Betweens, SettingsKeepInv DEF ChangeFieldOfView

\* The renderer is set up anew.
LEMMA InitRendererKeepsInv ==
  ASSUME IInv, InitRenderer PROVE IInv'
<1>1. /\ config \in ConfigType /\ source \in [size : Nat, fovScale : Nat]
      /\ app \in [Images -> [swapchain : Nat \ {0}, size : Sizes]]
      /\ debug \in TextureType /\ NothingYet(debug) /\ TypeOK
      /\ renderer \in RendererType
  BY DEF IInv, TypeOK
<1>2. BetweenFrames /\ UNCHANGED <<app, debug>>
  BY Betweens DEF InitRenderer
<1>3. config' \in ConfigType
  BY <1>1 DEF InitRenderer, ConfigType
<1>4. source' \in [size : Nat, fovScale : Nat]
  BY <1>1 DEF InitRenderer
<1>5. legacy' = legacy
  BY DEF InitRenderer, InitRendererVulkan
<1>6. KeepsRenderer(renderer')
  <2>1. CASE renderer' = renderer
    BY <1>1, <2>1, RendererKept
  <2>2. CASE renderer' = [renderer EXCEPT !.frameCount = 0, !.disparityFilters = {},
                                          !.uvMap = FALSE, !.disparityMapWidth = 0]
    <3> PICK s : s = renderer'
      OBVIOUS
    <3>1. s \in RendererType
      BY <1>1, <2>2 DEF RendererType
    <3>2. KeepsRenderer(s)
      BY <1>1, <2>2, <3>1 DEF RendererType, KeepsRenderer, SameBuffers
    <3> QED
      BY <3>2
  <2> QED
    BY <2>1, <2>2 DEF InitRenderer
<1> QED
  BY <1>1, <1>2, <1>3, <1>4, <1>5, <1>6, BetweenKeepsInv

\* Another debug texture is asked for, or filled.
LEMMA DebugTextureKeepsInv ==
  ASSUME IInv, AskForDebugTexture \/ UpdateDebugTexture PROVE IInv'
<1>1. /\ config \in ConfigType /\ source \in [size : Nat, fovScale : Nat]
      /\ app \in [Images -> [swapchain : Nat \ {0}, size : Sizes]]
      /\ debug \in TextureType /\ NothingYet(debug) /\ TypeOK
  BY DEF IInv, TypeOK
<1>2. BetweenFrames /\ UNCHANGED <<config, app, source, renderer, legacy>>
  BY Betweens DEF AskForDebugTexture, UpdateDebugTexture
<1> PICK texture : texture = debug'
  OBVIOUS
<1>3. /\ texture \in TextureType /\ NothingYet(texture)
      /\ \A kept \in DebugTextureType : SizeSeen(kept, debug) => SizeSeen(kept, texture)
  <2>1. CASE AskForDebugTexture
    <3>1. PICK asked \in DebugName : texture = [debug EXCEPT !.asked = asked]
      BY <2>1 DEF AskForDebugTexture, DebugName
    <3>2. texture \in TextureType
      BY <1>1, <3>1 DEF TextureType
    <3>3. /\ texture.current = debug.current /\ texture.size = debug.size
          /\ texture.dimensionsUpdated = debug.dimensionsUpdated
      BY <1>1, <3>1 DEF TextureType
    <3> QED
      BY <1>1, <3>2, <3>3 DEF SizeSeen, NothingYet
  <2>2. CASE UpdateDebugTexture
    <3>1. PICK size \in Sizes :
            texture = [debug EXCEPT !.current = "Disparity", !.size = size,
                                    !.content = debug.content + 1, !.dimensionsUpdated = TRUE]
      BY <1>1, <2>2 DEF UpdateDebugTexture, TextureType
    <3>2. size \in Nat /\ debug.content + 1 \in Nat /\ "Disparity" \in DebugName
      BY <1>1, SizesAssumption DEF TextureType, DebugName
    <3>3. texture \in TextureType
      BY <1>1, <3>1, <3>2 DEF TextureType
    <3>4. texture.current = "Disparity" /\ texture.dimensionsUpdated
      BY <1>1, <3>1 DEF TextureType
    <3> QED
      BY <3>3, <3>4 DEF SizeSeen, NothingYet
  <2> QED
    BY <2>1, <2>2
<1>4. KeepsRenderer(renderer')
  BY <1>1, <1>2, RendererKept
<1> QED
  BY <1>1, <1>2, <1>3, <1>4, BetweenKeepsInv

-----------------------------------------------------------------------------
(* Every step, and the theorems.                                           *)

\* A frame.
LEMMA FrameKeepsInv ==
  ASSUME IInv, RenderPassthroughFrame \/ RenderPassthroughFrameVulkan PROVE IInv'
<1>1. CASE RenderPassthroughFrame
  <2>1. PICK image \in Images, c \in Pixels, first \in BOOLEAN, valid \in BOOLEAN :
          RenderFrame(image, c, first, valid)
    BY <1>1 DEF RenderPassthroughFrame
  <2>2. ~setup.vulkan /\ UNCHANGED <<setup, changes, config, app, source, legacy>>
    BY <1>1 DEF RenderPassthroughFrame
  <2>3. /\ TypeOK' /\ NothingYet(debug)' /\ InvDX11'
        /\ HistoryIsOfItsPose' /\ ResourcesFitTheFrame'
    BY <2>1, <2>2, FrameDX11 DEF IInv
  <2> QED
    BY <2>2, <2>3 DEF IInv
<1>2. CASE RenderPassthroughFrameVulkan
  <2>1. PICK image \in Images, c \in Pixels, handle \in Handles \cup {NoImage},
             fails \in BOOLEAN :
          RenderFrameVulkan(image, c, handle, fails)
    BY <1>2 DEF RenderPassthroughFrameVulkan
  <2>2. /\ setup.vulkan /\ drew' = Append(drew, NoHistory)
        /\ UNCHANGED <<setup, changes, config, app, source, renderer, poses>>
    BY <1>2 DEF RenderPassthroughFrameVulkan
  <2>3. /\ TypeOK' /\ NothingYet(debug)' /\ InvVulkan'
        /\ HistoryIsOfItsPose' /\ ResourcesFitTheFrame'
    BY <2>1, <2>2, FrameVulkan DEF IInv
  <2> QED
    BY <2>2, <2>3 DEF IInv
<1> QED
  BY <1>1, <1>2

\* Nothing happens.
LEMMA StutterKeepsInv ==
  ASSUME IInv, UNCHANGED vars PROVE IInv'
<1>1. TypeOK'
  BY DEF IInv, vars, TypeOK
<1>2. NothingYet(debug)'
  BY DEF IInv, vars, NothingYet
<1>3. (setup.vulkan => InvVulkan)'
  BY DEF IInv, vars, InvVulkan, CameraImages, Masks, SizeSeen
<1>4. (~setup.vulkan => InvDX11)'
  BY DEF IInv, vars, InvDX11, TargetsKnown, TargetKnown, MapsAlike, Alike, LastMaps,
         PosesInOrder, Buffers, Buffer, SizeSeen
<1>5. HistoryIsOfItsPose'
  BY DEF IInv, vars, HistoryIsOfItsPose, DepthSlots
<1>6. ResourcesFitTheFrame'
  BY DEF IInv, vars, ResourcesFitTheFrame, FitVulkan, FitDX11, DepthSlots, DepthSize,
         ImportFailed, UploadIsLost, DebugTextureIsMissing, MaskIsTooSmall
<1> QED
  BY <1>1, <1>2, <1>3, <1>4, <1>5, <1>6 DEF IInv

\* Every step.
LEMMA NextKeepsInv == IInv /\ [Next]_vars => IInv'
<1> SUFFICES ASSUME IInv, [Next]_vars PROVE IInv'
  OBVIOUS
<1>1. CASE ChangeSetting
  BY <1>1, ChangeSettingKeepsInv
<1>2. CASE TakeNewSwapchain
  BY <1>2, TakeNewSwapchainKeepsInv
<1>3. CASE NewDepthFrame
  BY <1>3, NewDepthFrameKeepsInv
<1>4. CASE ChangeFieldOfView
  BY <1>4, ChangeFieldOfViewKeepsInv
<1>5. CASE InitRenderer
  BY <1>5, InitRendererKeepsInv
<1>6. CASE AskForDebugTexture \/ UpdateDebugTexture
  BY <1>6, DebugTextureKeepsInv
<1>7. CASE RenderPassthroughFrame \/ RenderPassthroughFrameVulkan
  BY <1>7, FrameKeepsInv
<1>8. CASE UNCHANGED vars
  BY <1>8, StutterKeepsInv
<1> QED
  BY <1>1, <1>2, <1>3, <1>4, <1>5, <1>6, <1>7, <1>8 DEF Next

\* The invariant holds in every behaviour.
LEMMA RenderersInv == Spec => []IInv
BY InitInv, NextKeepsInv, PTL DEF Spec

\* A frame filters with the depth maps and the colour that were drawn at the pose it
\* projects them from, if any were, and otherwise with nothing (RenderSetupView,
\* RenderDepthPrepassView and RenderPassthroughView of PassthroughRendererDX11).
THEOREM RenderersHistoryIsOfItsPose == Spec => []HistoryIsOfItsPose
<1>1. IInv => HistoryIsOfItsPose
  BY DEF IInv
<1> QED
  BY <1>1, RenderersInv, PTL

\* A frame draws with depth maps, meshes, targets, masks, maps of the lens and debug
\* textures of the kind and size it wants, whatever changed since they were made,
\* but for the four departures of the legacy renderer (RenderPassthroughFrame of both
\* renderers and what it calls).
THEOREM RenderersResourcesFitTheFrame == Spec => []ResourcesFitTheFrame
<1>1. IInv => ResourcesFitTheFrame
  BY DEF IInv
<1> QED
  BY <1>1, RenderersInv, PTL

-----------------------------------------------------------------------------
(* Pixels.  Colours and alphas are whole numbers, and a pass divides by    *)
(* One; that is exact as long as it divides, which the value of Full sees  *)
(* to.  What a pixel becomes is then a matter of cases: what the prepasses *)
(* leave of its alpha, and what the camera pass makes of that.             *)

\* What is left of the full value of a colour when it is divided by One.
Third == One * One * One
Second == One * One

\* Division by One is exact where it divides.
LEMMA Exact == ASSUME NEW q \in Int PROVE (One * q) \div One = q
<1>1. One \in Int /\ One > 0
  BY OneAssumption
<1>2. ASSUME NEW m \in Int, m > 0 PROVE (m * q) \div m = q
  <2>1. (m * q) % m = 0
    BY <1>2
  <2>. QED
    BY <1>2, <2>1
<1>. QED
  BY <1>1, <1>2

\* Opacities and alphas are never less than nothing nor more than all.
LEMMA Bounds ==
  /\ One \in Nat /\ One > 0
  /\ \A a \in Int : Clamp(a) \in 0 .. One
  /\ \A a \in 0 .. One : OneMinus(a) \in 0 .. One
  /\ \A a, b \in 0 .. One : Smaller(a, b) \in 0 .. One /\ Larger(a, b) \in 0 .. One
BY OneAssumption DEF Clamp, OneMinus, Smaller, Larger

LEMMA CaseParts ==
  ASSUME NEW c \in Cases
  PROVE  /\ c.vulkan \in BOOLEAN /\ c.stereo \in BOOLEAN /\ c.inverted \in BOOLEAN
         /\ c.depth \in BOOLEAN /\ c.nearer \in BOOLEAN /\ c.useAppAlpha \in BOOLEAN
         /\ c.gap \in BOOLEAN /\ c.background \in BOOLEAN
         /\ c.mode \in Modes
         /\ c.core \in 0 .. One /\ c.app \in 0 .. One
         /\ c.cover \in 0 .. One /\ c.kept \in 0 .. One
         /\ c.gap \/ c.background => c.stereo
         /\ c.depth => c.mode # "Masked" /\ ~c.background
         /\ ~c.depth => c.nearer
         /\ c.vulkan => ~c.stereo /\ ~c.depth
         /\ c.mode # "Masked" => c.kept = 0 /\ ~c.useAppAlpha
         /\ Opacity(c) \in 0 .. One
BY Bounds DEF Cases, Opacity

\* The colour a pass leaves, where it draws nothing of the application and both
\* colours can be divided by One.
LEMMA Blended ==
  ASSUME NEW state, NEW s, NEW p,
         NEW x \in Int, NEW y \in Int, NEW z \in Int, NEW from \in Int, NEW to \in Int,
         s.app = 0, s.camera = One * z, p.app = One * x, p.camera = One * y,
         Factor(state.src, s, p) = from, Factor(state.dst, s, p) = to
  PROVE  /\ Blend(state, s, p).app = to * x
         /\ Blend(state, s, p).camera = from * z + to * y
<1>1. One \in Int
  BY OneAssumption
<1>2. from * 0 + to * (One * x) = One * (to * x)
  BY <1>1, SMTT(30)
<1>3. from * (One * z) + to * (One * y) = One * (from * z + to * y)
  BY <1>1, SMTT(30)
<1>4. /\ Blend(state, s, p).app = (from * 0 + to * (One * x)) \div One
      /\ Blend(state, s, p).camera = (from * (One * z) + to * (One * y)) \div One
  BY DEF Blend
<1>5. to * x \in Int /\ from * z + to * y \in Int
  OBVIOUS
<1>. QED
  BY <1>2, <1>3, <1>4, <1>5, Exact

\* The same where there is nothing of the camera's yet.
LEMMA BlendedFirst ==
  ASSUME NEW state, NEW s, NEW p,
         NEW x \in Int, NEW z \in Int, NEW from \in Int, NEW to \in Int,
         s.app = 0, s.camera = One * z, p.app = One * x, p.camera = 0,
         Factor(state.src, s, p) = from, Factor(state.dst, s, p) = to
  PROVE  /\ Blend(state, s, p).app = to * x
         /\ Blend(state, s, p).camera = from * z
<1>1. One \in Int
  BY OneAssumption
<1>2. from * 0 + to * (One * x) = One * (to * x) /\ to * x \in Int
  BY <1>1, SMTT(30)
<1>3. from * (One * z) + to * 0 = One * (from * z) /\ from * z \in Int
  BY <1>1, SMTT(30)
<1>4. /\ Blend(state, s, p).app = (from * 0 + to * (One * x)) \div One
      /\ Blend(state, s, p).camera = (from * (One * z) + to * 0) \div One
  BY DEF Blend
<1>. QED
  BY <1>2, <1>3, <1>4, Exact

\* A colour the next pass can be exact with.
Divisible(n) == \E x \in Int : n = One * x

\* The states that write alpha alone.
AlphaStates ==
  {m_blendStateWriteAlpha, m_blendStateWriteMinAlpha, m_blendStateWriteMaxAlpha,
   m_blendStatePrepassUseAppAlpha, m_blendStatePrepassUseInvertedAppAlpha,
   m_blendStatePrepassIgnoreAppAlpha, m_blendStatePrepassZeroAppAlpha}

LEMMA AlphaStatesKeepColour ==
  ASSUME NEW state \in AlphaStates, NEW s, NEW p, Divisible(p.app),
         s.app = 0, s.camera = 0, p.camera = 0
  PROVE  /\ Blend(state, s, p).app = p.app
         /\ Blend(state, s, p).camera = 0
<1> PICK x \in Int : p.app = One * x
  BY DEF Divisible
<1>1. state.src = "zero" /\ state.dst = "one"
  BY DEF AlphaStates, AlphaState, BlendState, m_blendStateWriteAlpha,
         m_blendStateWriteMinAlpha, m_blendStateWriteMaxAlpha,
         m_blendStatePrepassUseAppAlpha, m_blendStatePrepassUseInvertedAppAlpha,
         m_blendStatePrepassIgnoreAppAlpha, m_blendStatePrepassZeroAppAlpha
<1>2. Factor(state.src, s, p) = 0 /\ Factor(state.dst, s, p) = One
  BY <1>1 DEF Factor
<1> PICK none \in Int : none = 0
  OBVIOUS
<1>3. s.camera = One * none /\ One \in Int
  BY OneAssumption
<1> DEFINE from == Factor(state.src, s, p)
           to == Factor(state.dst, s, p)
<1>4. from = 0 /\ to = One /\ from \in Int /\ to \in Int
  BY <1>2, <1>3
<1>5. Factor(state.src, s, p) = from /\ Factor(state.dst, s, p) = to
  OBVIOUS
<1> HIDE DEF from, to
<1>6. /\ Blend(state, s, p).app = to * x
      /\ Blend(state, s, p).camera = from * none
  BY <1>3, <1>4, <1>5, BlendedFirst
<1>7. to * x = One * x /\ from * none = 0
  BY <1>3, <1>4
<1>. QED
  BY <1>6, <1>7

\* The alpha each of the states leaves.
LEMMA Alphas ==
  ASSUME NEW s, NEW p, s.alpha \in 0 .. One, p.alpha \in 0 .. One
  PROVE  /\ Blend(m_blendStateWriteAlpha, s, p).alpha = s.alpha
         /\ Blend(m_blendStateWriteMinAlpha, s, p).alpha = Smaller(s.alpha, p.alpha)
         /\ Blend(m_blendStateWriteMaxAlpha, s, p).alpha = Larger(s.alpha, p.alpha)
         /\ Blend(m_blendStatePrepassUseAppAlpha, s, p).alpha
              = Smaller(One, s.alpha + p.alpha)
         /\ Blend(m_blendStatePrepassUseInvertedAppAlpha, s, p).alpha
              = Larger(0, s.alpha - p.alpha)
         /\ Blend(m_blendStatePrepassIgnoreAppAlpha, s, p).alpha = s.alpha
         /\ Blend(m_blendStatePrepassZeroAppAlpha, s, p).alpha = 0
         /\ Blend(m_blendStatePrepassBlendAppAlpha, s, p).alpha = 0
         /\ Blend(m_blendStatePrepassBlendInverseAppAlpha, s, p).alpha
              = Larger(0, s.alpha - p.alpha)
<1>1. /\ One \in Nat
      /\ \A a \in 0 .. One : Clamp(a) = a
      /\ \A a \in Nat : Clamp(a) = Smaller(One, a)
      /\ \A a, b \in 0 .. One : Clamp(a - b) = Larger(0, a - b)
      /\ \A a, b \in 0 .. One : Smaller(a, b) \in 0 .. One /\ Larger(a, b) \in 0 .. One
  BY OneAssumption DEF Clamp, Smaller, Larger
<1>2. /\ Blend(m_blendStateWriteAlpha, s, p).alpha = Clamp(1 * s.alpha + 0 * p.alpha)
      /\ Blend(m_blendStatePrepassIgnoreAppAlpha, s, p).alpha
           = Clamp(1 * s.alpha + 0 * p.alpha)
      /\ Blend(m_blendStatePrepassZeroAppAlpha, s, p).alpha
           = Clamp(0 * s.alpha + 0 * p.alpha)
      /\ Blend(m_blendStatePrepassUseAppAlpha, s, p).alpha
           = Clamp(1 * s.alpha + 1 * p.alpha)
  BY DEF Blend, AlphaState, BlendState, m_blendStateWriteAlpha,
         m_blendStatePrepassIgnoreAppAlpha, m_blendStatePrepassZeroAppAlpha,
         m_blendStatePrepassUseAppAlpha
<1>3. /\ Blend(m_blendStateWriteMinAlpha, s, p).alpha
           = Clamp(Smaller(1 * s.alpha, 1 * p.alpha))
      /\ Blend(m_blendStateWriteMaxAlpha, s, p).alpha
           = Clamp(Larger(1 * s.alpha, 1 * p.alpha))
      /\ Blend(m_blendStatePrepassUseInvertedAppAlpha, s, p).alpha
           = Clamp(1 * s.alpha - 1 * p.alpha)
  BY DEF Blend, AlphaState, BlendState, m_blendStateWriteMinAlpha,
         m_blendStateWriteMaxAlpha, m_blendStatePrepassUseInvertedAppAlpha
<1>4. /\ Blend(m_blendStatePrepassBlendAppAlpha, s, p).alpha
           = Clamp(0 * s.alpha + 0 * p.alpha)
      /\ Blend(m_blendStatePrepassBlendInverseAppAlpha, s, p).alpha
           = Clamp(1 * s.alpha - 1 * p.alpha)
  BY DEF Blend, BlendState, m_blendStatePrepassBlendAppAlpha,
         m_blendStatePrepassBlendInverseAppAlpha
<1>5. /\ s.alpha \in Int /\ p.alpha \in Int /\ s.alpha + p.alpha \in Nat
      /\ 1 * s.alpha = s.alpha /\ 1 * p.alpha = p.alpha
      /\ 1 * s.alpha + 0 * p.alpha = s.alpha
      /\ 1 * s.alpha + 1 * p.alpha = s.alpha + p.alpha
      /\ 0 * s.alpha + 0 * p.alpha = 0 /\ 0 \in 0 .. One
  BY OneAssumption
<1>6. /\ Clamp(s.alpha) = s.alpha /\ Clamp(0) = 0
      /\ Clamp(s.alpha + p.alpha) = Smaller(One, s.alpha + p.alpha)
      /\ Clamp(s.alpha - p.alpha) = Larger(0, s.alpha - p.alpha)
      /\ Clamp(Smaller(s.alpha, p.alpha)) = Smaller(s.alpha, p.alpha)
      /\ Clamp(Larger(s.alpha, p.alpha)) = Larger(s.alpha, p.alpha)
  BY <1>1, <1>5
<1>7. /\ Clamp(1 * s.alpha + 0 * p.alpha) = s.alpha
      /\ Clamp(0 * s.alpha + 0 * p.alpha) = 0
      /\ Clamp(1 * s.alpha + 1 * p.alpha) = Smaller(One, s.alpha + p.alpha)
  BY <1>5, <1>6
<1>8. /\ Clamp(Smaller(1 * s.alpha, 1 * p.alpha)) = Smaller(s.alpha, p.alpha)
      /\ Clamp(Larger(1 * s.alpha, 1 * p.alpha)) = Larger(s.alpha, p.alpha)
      /\ Clamp(1 * s.alpha - 1 * p.alpha) = Larger(0, s.alpha - p.alpha)
  BY <1>5, <1>6
<1>. QED
  BY <1>2, <1>3, <1>4, <1>7, <1>8

\* How much the application submits of its colour, and the camera image has of its own.
Own(c) == IF Premultiplied(c) THEN c.cover ELSE One
Shown(c) == IF Premultiplied(c) /\ ~c.depth THEN Opacity(c) ELSE One

LEMMA Colours ==
  ASSUME NEW c \in Cases
  PROVE  /\ Own(c) \in 0 .. One /\ Shown(c) \in 0 .. One
         /\ Second \in Nat /\ Third \in Nat /\ Third = One * Second
         /\ Full = One * Third
         /\ Submitted(c).app = One * (Second * Own(c))
         /\ Submitted(c).camera = 0
         /\ Submitted(c).alpha = IF c.inverted THEN OneMinus(c.cover) ELSE c.cover
         /\ CameraColour(c).app = 0
         /\ CameraColour(c).camera = One * (Second * Shown(c))
         /\ CameraColour(c).alpha = Opacity(c)
<1>1. /\ One \in Nat /\ One > 0 /\ c.cover \in 0 .. One /\ Opacity(c) \in 0 .. One
  BY CaseParts, Bounds
<1>2. Second \in Nat /\ Third \in Nat /\ Third = One * Second /\ Full = One * Third
  BY <1>1, SMTT(30) DEF Second, Third, Full
<1>3. \A a \in Int : Full * a = One * (One * (Second * a))
  BY <1>1, <1>2, SMTT(30)
<1>4. \A a \in Int : (Full * a) \div One = One * (Second * a)
  <2>1. \A a \in Int : One * (Second * a) \in Int
    BY <1>1, <1>2
  <2>. QED
    BY <1>3, <2>1, Exact
<1>5. Full = One * (Second * One)
  BY <1>1, <1>2, SMTT(30)
<1>6. /\ Submitted(c).app = One * (Second * Own(c))
      /\ Submitted(c).camera = 0
      /\ Submitted(c).alpha = IF c.inverted THEN OneMinus(c.cover) ELSE c.cover
  <2>1. (Full * c.cover) \div One = One * (Second * c.cover)
    BY <1>1, <1>4
  <2>. QED
    BY <1>5, <2>1 DEF Own, Submitted
<1>7. /\ CameraColour(c).app = 0
      /\ CameraColour(c).camera = One * (Second * Shown(c))
      /\ CameraColour(c).alpha = Opacity(c)
  <2>1. (Full * Opacity(c)) \div One = One * (Second * Opacity(c))
    BY <1>1, <1>4
  <2>. QED
    BY <1>5, <2>1 DEF Shown, CameraColour
<1>8. Own(c) \in 0 .. One /\ Shown(c) \in 0 .. One
  BY <1>1 DEF Own, Shown
<1>. QED
  BY <1>2, <1>6, <1>7, <1>8

\* What the first passes make of the application's image.
Prepass(c) ==
  IF c.mode = "Masked" THEN MaskedPrepass(c, Submitted(c))
  ELSE IF c.mode = "AlphaTest" THEN AlphaTestPrepass(c, Submitted(c))
  ELSE Submitted(c)

\* How opaque they make the pixel.
Opaqueness(c) ==
  IF c.mode = "Masked" THEN Keeps(c)
  ELSE IF c.mode = "AlphaTest"
    THEN IF c.cover < g_alphaTestThreshold THEN OneMinus(Opacity(c)) ELSE One
  ELSE c.cover

LEMMA PrepassParts ==
  ASSUME NEW c \in Cases, ~InvertedAlphaTest(c)
  PROVE  /\ Prepass(c).app = One * (Second * Own(c))
         /\ Prepass(c).camera = 0
         /\ Prepass(c).alpha = IF c.inverted THEN OneMinus(Opaqueness(c)) ELSE Opaqueness(c)
         /\ Opaqueness(c) \in 0 .. One
<1>1. /\ One \in Nat /\ One > 0 /\ c.cover \in 0 .. One /\ Opacity(c) \in 0 .. One
      /\ c.kept \in 0 .. One /\ c.useAppAlpha \in BOOLEAN /\ c.inverted \in BOOLEAN
      /\ OneMinus(c.cover) \in 0 .. One /\ OneMinus(c.kept) \in 0 .. One
      /\ Submitted(c).alpha \in 0 .. One /\ Second * Own(c) \in Int
  <2>1. /\ One \in Nat /\ One > 0 /\ c.cover \in 0 .. One /\ Opacity(c) \in 0 .. One
        /\ c.kept \in 0 .. One /\ c.useAppAlpha \in BOOLEAN /\ c.inverted \in BOOLEAN
    BY CaseParts, Bounds
  <2>2. OneMinus(c.cover) \in 0 .. One /\ OneMinus(c.kept) \in 0 .. One
    BY <2>1, Bounds
  <2>3. Submitted(c).alpha \in 0 .. One
    BY <2>1, <2>2, Colours
  <2>4. Second * Own(c) \in Int
    <3>1. Second \in Nat /\ Own(c) \in 0 .. One
      BY Colours
    <3>. QED
      BY <2>1, <3>1
  <2>. QED
    BY <2>1, <2>2, <2>3, <2>4
<1>2. ASSUME NEW m \in 0 .. One, NEW state \in AlphaStates
      PROVE  /\ CopyMask(c, state, m, Submitted(c)).app = One * (Second * Own(c))
             /\ CopyMask(c, state, m, Submitted(c)).camera = 0
  <2> DEFINE s == [app |-> 0, camera |-> 0,
                   alpha |-> IF c.inverted THEN OneMinus(m) ELSE m]
  <2>1. CopyMask(c, state, m, Submitted(c)) = Blend(state, s, Submitted(c))
    BY DEF CopyMask
  <2>2. s.app = 0 /\ s.camera = 0
    OBVIOUS
  <2>3. /\ Submitted(c).app = One * (Second * Own(c))
        /\ Submitted(c).camera = 0
    BY Colours
  <2> HIDE DEF s
  <2>4. Divisible(Submitted(c).app)
    BY <1>1, <2>3 DEF Divisible
  <2>. QED
    BY <2>1, <2>2, <2>3, <2>4, AlphaStatesKeepColour
<1>3. Opaqueness(c) \in 0 .. One
  BY <1>1, Bounds DEF OneMinus, Smaller, Opaqueness, Keeps
<1>4. CASE c.mode = "Masked"
  <2>1. MaskCopyState(c) \in AlphaStates
    BY DEF MaskCopyState, AlphaStates
  <2>2. /\ Prepass(c).app = One * (Second * Own(c))
        /\ Prepass(c).camera = 0
    BY <1>1, <1>2, <1>4, <2>1 DEF Prepass, MaskedPrepass
  <2>3. Opaqueness(c) = IF c.useAppAlpha THEN Smaller(c.kept, c.cover) ELSE c.kept
    BY <1>4 DEF Opaqueness, Keeps
  <2> DEFINE s == [app |-> 0, camera |-> 0,
                   alpha |-> IF c.inverted THEN OneMinus(c.kept) ELSE c.kept]
  <2>4. Prepass(c).alpha = Blend(MaskCopyState(c), s, Submitted(c)).alpha
    BY <1>4 DEF Prepass, MaskedPrepass, CopyMask
  <2>5. s.alpha \in 0 .. One
    BY <1>1
  <2>6. s.alpha = IF c.inverted THEN OneMinus(c.kept) ELSE c.kept
    OBVIOUS
  <2> HIDE DEF s
  <2>7. CASE ~c.useAppAlpha
    <3>1. Prepass(c).alpha = s.alpha
      BY <1>1, <2>4, <2>5, <2>7, Alphas DEF MaskCopyState
    <3>. QED
      BY <1>3, <2>2, <2>3, <2>6, <2>7, <3>1
  <2>8. CASE c.useAppAlpha /\ c.inverted
    <3>1. Prepass(c).alpha = Larger(OneMinus(c.kept), OneMinus(c.cover))
      BY <1>1, <2>4, <2>5, <2>6, <2>8, Alphas, Colours DEF MaskCopyState
    <3>2. Larger(OneMinus(c.kept), OneMinus(c.cover)) = OneMinus(Smaller(c.kept, c.cover))
      BY <1>1 DEF Larger, Smaller, OneMinus
    <3>. QED
      BY <1>3, <2>2, <2>3, <2>8, <3>1, <3>2
  <2>9. CASE c.useAppAlpha /\ ~c.inverted
    <3>1. Prepass(c).alpha = Smaller(c.kept, c.cover)
      BY <1>1, <2>4, <2>5, <2>6, <2>9, Alphas, Colours DEF MaskCopyState
    <3>. QED
      BY <1>3, <2>2, <2>3, <2>9, <3>1
  <2>. QED
    BY <1>1, <2>7, <2>8, <2>9
<1>5. CASE c.mode = "AlphaTest"
  <2>1. ~c.inverted
    BY <1>5 DEF InvertedAlphaTest
  <2>2. Submitted(c).alpha = c.cover
    BY <2>1, Colours
  <2>3. Prepass(c) = CopyMask(c, m_blendStateWriteAlpha, Opaqueness(c), Submitted(c))
    BY <1>5, <2>2 DEF Prepass, AlphaTestPrepass, Opaqueness
  <2>4. m_blendStateWriteAlpha \in AlphaStates
    BY DEF AlphaStates
  <2>5. /\ Prepass(c).app = One * (Second * Own(c))
        /\ Prepass(c).camera = 0
    BY <1>2, <1>3, <2>3, <2>4
  <2>6. Prepass(c).alpha = Opaqueness(c)
    BY <1>1, <1>3, <2>1, <2>3, Alphas DEF CopyMask
  <2>. QED
    BY <1>3, <2>1, <2>5, <2>6
<1>6. CASE c.mode \notin {"Masked", "AlphaTest"}
  BY <1>3, <1>6, Colours DEF Prepass, Opaqueness
<1>. QED
  BY <1>4, <1>5, <1>6

\* What the alpha prepass leaves to the pass that draws the camera image.
Readied(c) == AlphaPrepass(c, Prepass(c))
PrepassSource(c) ==
  [app |-> 0, camera |-> 0,
   alpha |-> IF c.inverted THEN One ELSE OneMinus(Opacity(c))]
ByDepthAlone(c) == c.depth /\ ~c.stereo /\ c.mode # "Additive"

LEMMA ReadiedParts ==
  ASSUME NEW c \in Cases, ~InvertedAlphaTest(c)
  PROVE  /\ Readied(c) = IF RendersAlphaPrepass(c) /\ (c.depth => c.stereo \/ c.nearer)
                         THEN Blend(AlphaPrepassState(c), PrepassSource(c), Prepass(c))
                         ELSE Prepass(c)
         /\ PrepassSource(c).app = 0 /\ PrepassSource(c).camera = 0
         /\ PrepassSource(c).alpha = IF c.inverted THEN One ELSE OneMinus(Opacity(c))
         /\ PrepassSource(c).alpha \in 0 .. One
         /\ Prepass(c).alpha \in 0 .. One
         /\ Divisible(Prepass(c).app)
<1>1. /\ One \in Nat /\ Opacity(c) \in 0 .. One /\ OneMinus(Opacity(c)) \in 0 .. One
      /\ One \in 0 .. One
  BY CaseParts, Bounds
<1>2. Prepass(c).alpha \in 0 .. One
  BY PrepassParts, Bounds
<1>3. Divisible(Prepass(c).app)
  <2>1. Second \in Nat /\ Own(c) \in 0 .. One
    BY Colours
  <2>2. Second * Own(c) \in Int
    BY <1>1, <2>1
  <2>. QED
    BY <2>2, PrepassParts DEF Divisible
<1>. QED
  BY <1>1, <1>2, <1>3 DEF Readied, AlphaPrepass, PrepassSource

\* It leaves the colour as it is, but where the application's own depth is tested.
LEMMA ReadiedColour ==
  ASSUME NEW c \in Cases, ~InvertedAlphaTest(c), ~ByDepthAlone(c)
  PROVE  /\ Readied(c).app = One * (Second * Own(c))
         /\ Readied(c).camera = 0
<1>1. AlphaPrepassState(c) \in AlphaStates
  BY CaseParts DEF AlphaPrepassState, AlphaStates, ByDepthAlone
<1>2. Prepass(c).app = One * (Second * Own(c)) /\ Prepass(c).camera = 0
  BY PrepassParts
<1>3. /\ Blend(AlphaPrepassState(c), PrepassSource(c), Prepass(c)).app = Prepass(c).app
      /\ Blend(AlphaPrepassState(c), PrepassSource(c), Prepass(c)).camera = 0
  BY <1>1, <1>2, ReadiedParts, AlphaStatesKeepColour
<1>. QED
  BY <1>2, <1>3, ReadiedParts

\* There it empties the alpha, when the camera image is to replace what it covers.
LEMMA ReadiedByDepth ==
  ASSUME NEW c \in Cases, ~InvertedAlphaTest(c), ByDepthAlone(c), c.nearer, ~Translucent(c)
  PROVE  /\ Divisible(Readied(c).app)
         /\ Readied(c).camera = 0
         /\ Readied(c).alpha = 0
<1> DEFINE s == PrepassSource(c)
           p == Prepass(c)
           state == AlphaPrepassState(c)
<1>1. c.mode # "Masked" /\ Opacity(c) = One /\ One \in Nat /\ OneMinus(Opacity(c)) = 0
      /\ c.inverted \in BOOLEAN
  BY CaseParts, OneAssumption DEF Translucent, ByDepthAlone, OneMinus
<1>2. RendersAlphaPrepass(c)
  BY <1>1 DEF RendersAlphaPrepass, ByDepthAlone
<1>3. Readied(c) = Blend(state, s, p)
  BY <1>2, ReadiedParts
<1>4. state = IF c.inverted THEN m_blendStatePrepassBlendAppAlpha
                            ELSE m_blendStatePrepassBlendInverseAppAlpha
  BY DEF AlphaPrepassState, ByDepthAlone
<1>5. /\ s.app = 0 /\ s.camera = 0 /\ s.alpha \in 0 .. One /\ p.alpha \in 0 .. One
      /\ s.alpha = IF c.inverted THEN One ELSE 0
      /\ p.camera = 0
      /\ p.app = One * (Second * Own(c))
  BY <1>1, ReadiedParts, PrepassParts
<1> HIDE DEF s, p, state
<1>6. Blend(state, s, p).alpha = 0
  <2>1. CASE c.inverted
    BY <1>4, <1>5, <2>1, Alphas
  <2>2. CASE ~c.inverted
    <3>1. Larger(0, 0 - p.alpha) = 0
      BY <1>1, <1>5 DEF Larger
    <3>. QED
      BY <1>4, <1>5, <2>2, <3>1, Alphas
  <2>. QED
    BY <2>1, <2>2
<1>7. /\ Factor(state.src, s, p) = p.alpha
      /\ Factor(state.dst, s, p) = OneMinus(p.alpha)
  <2>1. state.src = "destination" /\ state.dst = "inverse destination"
    BY <1>1, <1>4 DEF m_blendStatePrepassBlendAppAlpha, BlendState,
                      m_blendStatePrepassBlendInverseAppAlpha
  <2>. QED
    BY <2>1 DEF Factor
<1>8. OneMinus(p.alpha) \in Int /\ p.alpha \in Int
  BY <1>1, <1>5 DEF OneMinus
<1> PICK none \in Int : none = 0
  OBVIOUS
<1>9. s.camera = One * none /\ p.alpha * none = 0 /\ Second * Own(c) \in Int
  <2>1. Second \in Nat /\ Own(c) \in 0 .. One
    BY Colours
  <2>. QED
    BY <1>1, <1>5, <1>8, <2>1
<1>10. /\ Blend(state, s, p).app = OneMinus(p.alpha) * (Second * Own(c))
       /\ Blend(state, s, p).camera = p.alpha * none
  BY <1>5, <1>7, <1>8, <1>9, BlendedFirst
<1>11. Divisible(OneMinus(p.alpha) * (Second * Own(c)))
  <2>1. Second = One * One /\ Own(c) \in 0 .. One
    BY Colours DEF Second
  <2> DEFINE k == OneMinus(p.alpha)
             o == Own(c)
  <2>2. k \in Int /\ o \in Int
    BY <1>1, <1>8, <2>1
  <2> HIDE DEF k, o
  <2>3. k * ((One * One) * o) = One * (k * (One * o)) /\ k * (One * o) \in Int
    BY <1>1, <2>2, SMTT(30)
  <2>. QED
    BY <2>1, <2>3 DEF Divisible, k, o
<1>. QED
  BY <1>3, <1>6, <1>9, <1>10, <1>11

\* How much of the application's image is left, where its depth is not tested, and
\* whether the pass that draws the camera image reads that from its alpha inverted.
Leaves(c) ==
  IF c.mode \in {"Opaque", "Additive"} THEN OneMinus(Opacity(c))
  ELSE IF BlendsByAlpha(c) /\ c.core < One
    THEN Smaller(One, OneMinus(Opacity(c)) + c.cover)
  ELSE Opaqueness(c)
Inverts(c) == c.inverted /\ c.stereo /\ c.mode # "Masked"

LEMMA LeavesBounded ==
  ASSUME NEW c \in Cases, ~InvertedAlphaTest(c) PROVE Leaves(c) \in 0 .. One
<1>1. /\ One \in Nat /\ OneMinus(Opacity(c)) \in 0 .. One /\ c.cover \in 0 .. One
      /\ Opaqueness(c) \in 0 .. One
  BY CaseParts, Bounds, PrepassParts
<1>. QED
  BY <1>1 DEF Leaves, Smaller

LEMMA ReadiedAlpha ==
  ASSUME NEW c \in Cases, ~InvertedAlphaTest(c), ~KeyIsLost(c),
         Translucent(c) => ~c.inverted, c.depth => c.mode = "Additive" /\ c.nearer
  PROVE  Readied(c).alpha = IF Inverts(c) THEN OneMinus(Leaves(c)) ELSE Leaves(c)
<1> DEFINE s == PrepassSource(c)
           p == Prepass(c)
           state == AlphaPrepassState(c)
<1>1. /\ One \in Nat /\ One > 0 /\ Opacity(c) \in 0 .. One
      /\ c.core \in 0 .. One /\ c.cover \in 0 .. One
      /\ c.inverted \in BOOLEAN /\ c.stereo \in BOOLEAN /\ c.depth \in BOOLEAN
      /\ c.core < One => Translucent(c)
      /\ ~Translucent(c) => Opacity(c) = One
  <2>1. /\ One \in Nat /\ One > 0 /\ Opacity(c) \in 0 .. One
        /\ c.core \in 0 .. One /\ c.app \in 0 .. One /\ c.cover \in 0 .. One
        /\ c.inverted \in BOOLEAN /\ c.stereo \in BOOLEAN /\ c.depth \in BOOLEAN
    BY CaseParts, OneAssumption
  <2>2. c.core < One => Opacity(c) < One
    BY <2>1 DEF Opacity, Smaller
  <2>. QED
    BY <2>1, <2>2 DEF Translucent
<1>2. /\ Readied(c) = IF RendersAlphaPrepass(c) THEN Blend(state, s, p) ELSE p
      /\ s.alpha = IF c.inverted THEN One ELSE OneMinus(Opacity(c))
      /\ s.alpha \in 0 .. One /\ p.alpha \in 0 .. One
      /\ p.alpha = IF c.inverted THEN OneMinus(Opaqueness(c)) ELSE Opaqueness(c)
      /\ Opaqueness(c) \in 0 .. One
  BY ReadiedParts, PrepassParts
<1> HIDE DEF s, p, state
<1>3. /\ OneMinus(0) = One /\ OneMinus(One) = 0
      /\ \A a \in 0 .. One : OneMinus(OneMinus(a)) = a /\ Larger(0, One - OneMinus(a)) = a
  BY <1>1 DEF OneMinus, Larger
<1>4. CASE c.mode \in {"Opaque", "Additive"}
  <2>1. RendersAlphaPrepass(c)
    BY <1>4 DEF RendersAlphaPrepass
  <2>2. Leaves(c) = OneMinus(Opacity(c)) /\ (Inverts(c) <=> c.inverted /\ c.stereo)
    BY <1>4 DEF Leaves, Inverts
  <2>3. state = IF c.inverted /\ ~c.stereo THEN m_blendStatePrepassZeroAppAlpha
                                           ELSE m_blendStatePrepassIgnoreAppAlpha
    BY <1>4 DEF state, AlphaPrepassState
  <2>4. CASE c.inverted
    <3>1. Leaves(c) = 0
      BY <1>1, <1>3, <2>2, <2>4
    <3>2. Readied(c).alpha = IF c.stereo THEN One ELSE 0
      BY <1>1, <1>2, <2>1, <2>3, <2>4, Alphas
    <3>. QED
      BY <1>1, <1>3, <2>2, <2>4, <3>1, <3>2
  <2>5. CASE ~c.inverted
    BY <1>2, <2>1, <2>2, <2>3, <2>5, Alphas
  <2>. QED
    BY <2>4, <2>5
<1>5. CASE c.mode = "AlphaTest"
  <2>1. ~c.inverted /\ ~c.depth
    BY <1>1, <1>5 DEF InvertedAlphaTest
  <2>2. ~RendersAlphaPrepass(c)
    BY <1>5, <2>1 DEF RendersAlphaPrepass
  <2>. QED
    BY <1>2, <1>5, <2>1, <2>2 DEF Leaves, Inverts, BlendsByAlpha
<1>6. CASE c.mode = "Masked"
  <2>1. ~(c.core < One) /\ ~c.depth
    BY <1>1, <1>6 DEF KeyIsLost
  <2>2. RendersAlphaPrepass(c) <=> c.inverted
    BY <1>6, <2>1 DEF RendersAlphaPrepass
  <2>3. Leaves(c) = Opaqueness(c) /\ ~Inverts(c)
    BY <1>6 DEF Leaves, Inverts, BlendsByAlpha
  <2>4. CASE c.inverted
    <3>1. state = m_blendStatePrepassUseInvertedAppAlpha
      BY <1>6, <2>1, <2>4 DEF state, AlphaPrepassState
    <3>2. Readied(c).alpha = Larger(0, One - OneMinus(Opaqueness(c)))
      BY <1>2, <2>2, <2>4, <3>1, Alphas
    <3>. QED
      BY <1>2, <1>3, <2>3, <3>2
  <2>5. CASE ~c.inverted
    BY <1>2, <2>2, <2>3, <2>5
  <2>. QED
    BY <2>4, <2>5
<1>7. CASE BlendsByAlpha(c)
  <2>1. ~c.depth /\ c.mode \notin {"Masked", "Opaque", "Additive", "AlphaTest"}
    BY <1>1, <1>7 DEF BlendsByAlpha
  <2>2. /\ Opaqueness(c) = c.cover
        /\ Leaves(c) = IF c.core < One THEN Smaller(One, OneMinus(Opacity(c)) + c.cover)
                                      ELSE c.cover
        /\ Inverts(c) <=> c.inverted /\ c.stereo
    BY <1>7, <2>1 DEF Opaqueness, Leaves, Inverts
  <2>3. RendersAlphaPrepass(c) <=> (c.inverted /\ ~c.stereo) \/ c.core < One
    BY <2>1 DEF RendersAlphaPrepass
  <2>4. state = IF c.inverted THEN m_blendStatePrepassUseInvertedAppAlpha
                              ELSE m_blendStatePrepassUseAppAlpha
    BY <1>7, <2>1 DEF state, AlphaPrepassState, BlendsByAlpha
  <2>5. CASE c.inverted
    <3>1. ~(c.core < One)
      BY <1>1, <2>5
    <3>2. CASE c.stereo
      BY <1>2, <2>2, <2>3, <2>5, <3>1, <3>2
    <3>3. CASE ~c.stereo
      <4>1. Readied(c).alpha = Larger(0, One - OneMinus(c.cover))
        BY <1>2, <2>2, <2>3, <2>4, <2>5, <3>3, Alphas
      <4>. QED
        BY <1>1, <1>3, <2>2, <3>1, <3>3, <4>1
    <3>. QED
      BY <3>2, <3>3
  <2>6. CASE ~c.inverted
    BY <1>2, <2>2, <2>3, <2>4, <2>6, Alphas
  <2>. QED
    BY <2>5, <2>6
<1>. QED
  BY <1>4, <1>5, <1>6, <1>7, CaseParts DEF Modes, BlendsByAlpha

\* The application's own colour stays whole under the camera image.
Adds(c) == Premultiplied(c) \/ c.mode = "Additive"

\* The colours of a pixel by how much of the application's image is left.
ColoursByAlpha(c, p) ==
  /\ p.app = (IF Adds(c) THEN One ELSE Leaves(c)) * (Second * Own(c))
  /\ p.camera = OneMinus(Leaves(c)) * (Second * Shown(c))

\* One pass that draws the camera image over what the prepasses leave.
LEMMA CameraPass ==
  ASSUME NEW c \in Cases, ~InvertedAlphaTest(c), ~ByDepthAlone(c),
         NEW state,
         Factor(state.src, CameraColour(c), Readied(c)) = OneMinus(Leaves(c)),
         Factor(state.dst, CameraColour(c), Readied(c))
           = IF Adds(c) THEN One ELSE Leaves(c)
  PROVE  ColoursByAlpha(c, Blend(state, CameraColour(c), Readied(c)))
<1> DEFINE x == Second * Own(c)
           z == Second * Shown(c)
           from == OneMinus(Leaves(c))
           to == IF Adds(c) THEN One ELSE Leaves(c)
<1>1. x \in Int /\ z \in Int
  <2>1. Second \in Nat /\ Own(c) \in 0 .. One /\ Shown(c) \in 0 .. One
    BY Colours
  <2>. QED
    BY <2>1, OneAssumption
<1>2. from \in Int /\ to \in Int
  BY LeavesBounded, OneAssumption DEF OneMinus
<1>3. /\ CameraColour(c).app = 0 /\ CameraColour(c).camera = One * z
      /\ Readied(c).app = One * x /\ Readied(c).camera = 0
  BY Colours, ReadiedColour, OneAssumption
<1> HIDE DEF x, z, from, to
<1>4. /\ Factor(state.src, CameraColour(c), Readied(c)) = from
      /\ Factor(state.dst, CameraColour(c), Readied(c)) = to
  BY DEF from, to
<1>5. /\ Blend(state, CameraColour(c), Readied(c)).app = to * x
      /\ Blend(state, CameraColour(c), Readied(c)).camera = from * z
  BY <1>1, <1>2, <1>3, <1>4, BlendedFirst
<1>. QED
  BY <1>5 DEF ColoursByAlpha, x, z, from, to

\* The states that pass is drawn with.
LEMMA CameraStates ==
  ASSUME NEW s, NEW p
  PROVE  /\ Factor(m_blendStateDestAlpha.src, s, p) = OneMinus(p.alpha)
         /\ Factor(m_blendStateDestAlpha.dst, s, p) = p.alpha
         /\ Factor(m_blendStateInvDestAlpha.src, s, p) = p.alpha
         /\ Factor(m_blendStateInvDestAlpha.dst, s, p) = OneMinus(p.alpha)
         /\ Factor(m_blendStateDestAlphaPremultiplied.src, s, p) = OneMinus(p.alpha)
         /\ Factor(m_blendStateDestAlphaPremultiplied.dst, s, p) = One
         /\ Factor(m_blendStateInvDestAlphaPremultiplied.src, s, p) = p.alpha
         /\ Factor(m_blendStateInvDestAlphaPremultiplied.dst, s, p) = One
         /\ Factor(m_blendStateSrcAlpha.src, s, p) = s.alpha
         /\ Factor(m_blendStateSrcAlpha.dst, s, p) = OneMinus(s.alpha)
BY DEF Factor, BlendState, m_blendStateDestAlpha, m_blendStateInvDestAlpha,
   m_blendStateDestAlphaPremultiplied, m_blendStateInvDestAlphaPremultiplied,
   m_blendStateSrcAlpha

\* Where the alpha of the destination counts.
LEMMA ViewByAlpha ==
  ASSUME NEW c \in Cases, ~InvertedAlphaTest(c), ~KeyIsLost(c),
         Translucent(c) => ~c.inverted, c.depth => c.mode = "Additive" /\ c.nearer,
         ~c.gap
  PROVE  ColoursByAlpha(c, PassthroughView(c, Readied(c)))
<1> DEFINE state == PassthroughState(c)
           s == CameraColour(c)
           p == Readied(c)
<1>1. PassthroughView(c, p) = Blend(state, s, p)
  BY DEF PassthroughView
<1>2. state = IF Adds(c)
              THEN IF Inverts(c) THEN m_blendStateInvDestAlphaPremultiplied
                                 ELSE m_blendStateDestAlphaPremultiplied
              ELSE IF Inverts(c) THEN m_blendStateInvDestAlpha ELSE m_blendStateDestAlpha
  <2>1. c.depth \in BOOLEAN
    BY CaseParts
  <2>2. ~(c.depth /\ c.stereo /\ c.mode # "Additive")
    OBVIOUS
  <2>3. (Premultiplied(c) /\ (~c.depth \/ c.stereo)) \/ c.mode = "Additive" <=> Adds(c)
    BY <2>1 DEF Adds, Premultiplied
  <2>. QED
    BY <2>2, <2>3 DEF PassthroughState, Inverts
<1>3. p.alpha = IF Inverts(c) THEN OneMinus(Leaves(c)) ELSE Leaves(c)
  BY ReadiedAlpha
<1>4. OneMinus(OneMinus(Leaves(c))) = Leaves(c)
  BY LeavesBounded, OneAssumption DEF OneMinus
<1> HIDE DEF state, s, p
<1>5. /\ Factor(state.src, s, p) = OneMinus(Leaves(c))
      /\ Factor(state.dst, s, p) = IF Adds(c) THEN One ELSE Leaves(c)
  BY <1>2, <1>3, <1>4, CameraStates
<1>6. ~ByDepthAlone(c)
  BY DEF ByDepthAlone
<1>. QED
  BY <1>1, <1>5, <1>6, CameraPass DEF state, s, p

\* The background fills a gap as the camera image would, and does not touch what
\* that has drawn.
LEMMA PixelByAlpha ==
  ASSUME NEW c \in Cases, ~InvertedAlphaTest(c), ~KeyIsLost(c), ~InvertedBackground(c),
         ~GapIsReplaced(c), c.background => ~Translucent(c),
         Translucent(c) => ~c.inverted, c.depth => c.mode = "Additive" /\ c.nearer,
         c.gap => c.background
  PROVE  ColoursByAlpha(c, PixelDX11(c))
<1>1. PixelDX11(c) = Background(c, PassthroughView(c, Readied(c)))
  BY Zenon DEF PixelDX11, Readied, Prepass
<1>2. CASE ~c.background
  BY <1>1, <1>2, ViewByAlpha DEF Background
<1> DEFINE s == CameraColour(c)
<1>3. ASSUME c.background
      PROVE  /\ \A p : Background(c, p) = Blend(m_blendStateDestAlpha, s, p)
             /\ ~c.inverted /\ ~c.depth /\ ~Inverts(c)
             /\ Opacity(c) = One /\ s.alpha = One
  <2>1. ~c.inverted /\ ~c.depth
    BY <1>3, CaseParts DEF InvertedBackground
  <2>2. Opacity(c) = One
    BY <1>3, CaseParts, OneAssumption DEF Translucent
  <2>. QED
    BY <1>3, <2>1, <2>2, Colours DEF Background, Inverts
<1>4. CASE c.background /\ c.gap
  <2>1. PassthroughView(c, Readied(c)) = Readied(c)
    BY <1>4 DEF PassthroughView
  <2>2. Readied(c).alpha = Leaves(c)
    BY <1>3, <1>4, ReadiedAlpha
  <2>3. ~Adds(c) /\ ~ByDepthAlone(c)
    BY <1>3, <1>4 DEF GapIsReplaced, Adds, Premultiplied, ByDepthAlone
  <2>4. ColoursByAlpha(c, Blend(m_blendStateDestAlpha, s, Readied(c)))
    BY <2>2, <2>3, CameraStates, CameraPass
  <2>. QED
    BY <1>1, <1>3, <1>4, <2>1, <2>4
<1>5. CASE c.background /\ ~c.gap
  <2> DEFINE v == PassthroughView(c, Readied(c))
             L == Leaves(c)
             to == IF Adds(c) THEN One ELSE L
  <2>1. ColoursByAlpha(c, v)
    BY <1>5, ViewByAlpha
  <2>2. /\ v = Blend(PassthroughState(c), s, Readied(c))
        /\ PassthroughState(c) \in
             {m_blendStateDestAlpha, m_blendStateDestAlphaPremultiplied}
    BY <1>3, <1>5 DEF PassthroughView, PassthroughState
  <2>3. v.alpha = One
    <3>1. v.alpha = Clamp(1 * s.alpha + 1 * Readied(c).alpha)
      <4> HIDE DEF s, v
      <4>1. \A p : /\ Blend(m_blendStateDestAlpha, s, p).alpha
                        = Clamp(1 * s.alpha + 1 * p.alpha)
                   /\ Blend(m_blendStateDestAlphaPremultiplied, s, p).alpha
                        = Clamp(1 * s.alpha + 1 * p.alpha)
        BY DEF Blend, BlendState, m_blendStateDestAlpha,
               m_blendStateDestAlphaPremultiplied
      <4>. QED
        BY <2>2, <4>1
    <3>2. Readied(c).alpha \in 0 .. One
      BY <1>3, <1>5, ReadiedAlpha, LeavesBounded
    <3>3. s.alpha = One /\ One \in Nat
      BY <1>3, <1>5, OneAssumption
    <3> HIDE DEF s
    <3>4. Clamp(1 * s.alpha + 1 * Readied(c).alpha) = One
      BY <3>2, <3>3 DEF Clamp, Smaller, Larger
    <3>. QED
      BY <3>1, <3>4
  <2>4. L \in 0 .. One /\ Own(c) \in 0 .. One /\ Shown(c) \in 0 .. One /\ One \in Nat
        /\ Second = One * One
    BY LeavesBounded, Colours, OneAssumption DEF Second
  <2> DEFINE o == Own(c)
             h == Shown(c)
             k == OneMinus(L)
  <2>5. to \in Int /\ o \in Int /\ h \in Int /\ k \in Int
    BY <2>4 DEF OneMinus
  <2>6. /\ v.app = to * (Second * o)
        /\ v.camera = k * (Second * h)
    BY <2>1 DEF ColoursByAlpha
  <2>7. s.app = 0 /\ s.camera = One * (Second * h)
    BY Colours
  <2> HIDE DEF v, L, to, o, h, k, s
  <2>8. /\ to * ((One * One) * o) = One * (to * (One * o))
        /\ to * (One * o) \in Int
    BY <2>4, <2>5, SMTT(30)
  <2>9. /\ k * ((One * One) * h) = One * (k * (One * h))
        /\ k * (One * h) \in Int /\ Second * h \in Int
    BY <2>4, <2>5, SMTT(30)
  <2>10. /\ Factor(m_blendStateDestAlpha.src, s, v) = 0
         /\ Factor(m_blendStateDestAlpha.dst, s, v) = One
    BY <2>3, <2>4, CameraStates DEF OneMinus
  <2>11. v.app = One * (to * (One * o)) /\ v.camera = One * (k * (One * h))
    BY <2>4, <2>6, <2>8, <2>9
  <2> DEFINE x == to * (One * o)
             y == k * (One * h)
             z == Second * h
  <2>12. /\ x \in Int /\ y \in Int /\ z \in Int /\ v.app = One * x /\ v.camera = One * y
         /\ s.app = 0 /\ s.camera = One * z /\ 0 \in Int /\ One \in Int
    BY <2>4, <2>7, <2>8, <2>9, <2>11
  <2> HIDE DEF x, y, z
  <2>13. ASSUME NEW state, NEW from \in Int, NEW full \in Int,
                Factor(state.src, s, v) = from, Factor(state.dst, s, v) = full
         PROVE  /\ Blend(state, s, v).app = full * x
                /\ Blend(state, s, v).camera = from * z + full * y
    BY <2>12, <2>13, Blended
  <2>14. /\ Blend(m_blendStateDestAlpha, s, v).app = One * x
         /\ Blend(m_blendStateDestAlpha, s, v).camera = 0 * z + One * y
    BY <2>10, <2>12, <2>13
  <2>15. 0 * z + One * y = One * y
    BY <2>4, <2>12
  <2>16. /\ Blend(m_blendStateDestAlpha, s, v).app = v.app
         /\ Blend(m_blendStateDestAlpha, s, v).camera = v.camera
    BY <2>12, <2>14, <2>15
  <2>17. ColoursByAlpha(c, Blend(m_blendStateDestAlpha, s, v))
    BY <2>1, <2>16, Zenon DEF ColoursByAlpha
  <2>. QED
    BY <1>1, <1>3, <1>5, <2>17 DEF v
<1>. QED
  BY <1>2, <1>4, <1>5

\* Where the camera image is not drawn the application's is as it was submitted.
LEMMA PixelNotDrawn ==
  ASSUME NEW c \in Cases, ~InvertedAlphaTest(c),
         (c.depth /\ ~c.nearer) \/ (c.gap /\ ~c.background)
  PROVE  PixelDX11(c).app = Submitted(c).app /\ PixelDX11(c).camera = 0
<1>1. PixelDX11(c) = Readied(c)
  <2>1. ~c.background
    BY CaseParts
  <2>2. PixelDX11(c) = Background(c, PassthroughView(c, Readied(c)))
    BY Zenon DEF PixelDX11, Readied, Prepass
  <2>. QED
    BY <2>1, <2>2 DEF Background, PassthroughView
<1>2. CASE ByDepthAlone(c)
  <2>1. c.depth /\ ~c.nearer /\ ~c.stereo
    BY <1>2, CaseParts DEF ByDepthAlone
  <2>2. Readied(c) = Prepass(c)
    BY <2>1, ReadiedParts
  <2>. QED
    BY <1>1, <2>2, PrepassParts, Colours
<1>3. CASE ~ByDepthAlone(c)
  BY <1>1, <1>3, ReadiedColour, Colours
<1>. QED
  BY <1>2, <1>3

\* Where it is drawn by depth it replaces the application's.
LEMMA PixelByDepth ==
  ASSUME NEW c \in Cases, ~InvertedAlphaTest(c), c.depth, c.nearer, ~c.gap,
         c.mode # "Additive", ~c.stereo => ~Translucent(c)
  PROVE  /\ ~Translucent(c) => PixelDX11(c).app = 0
         /\ PixelDX11(c).camera = Third * Opacity(c)
<1> DEFINE s == CameraColour(c)
           p == Readied(c)
           state == PassthroughState(c)
<1>1. PixelDX11(c) = Blend(state, s, p)
  <2>1. ~c.background
    BY CaseParts
  <2>2. PixelDX11(c) = Background(c, PassthroughView(c, Readied(c)))
    BY Zenon DEF PixelDX11, Readied, Prepass
  <2>. QED
    BY <2>1, <2>2 DEF Background, PassthroughView
<1>2. /\ s.app = 0 /\ s.camera = One * Third /\ s.alpha = Opacity(c)
      /\ One \in Nat /\ Third \in Nat /\ Second \in Nat /\ Own(c) \in 0 .. One
      /\ Opacity(c) \in 0 .. One
  <2>1. Shown(c) = One /\ One \in Nat
    BY OneAssumption DEF Shown
  <2>2. /\ s.app = 0 /\ s.camera = One * (Second * One) /\ s.alpha = Opacity(c)
        /\ Third \in Nat /\ Second \in Nat /\ Own(c) \in 0 .. One /\ Third = One * Second
    BY <2>1, Colours
  <2>3. Second * One = Third
    BY <2>1, <2>2
  <2>. QED
    BY <2>1, <2>2, <2>3, CaseParts
<1>3. ~Translucent(c) => Opacity(c) = One
  BY <1>2 DEF Translucent
<1>4. Divisible(p.app) /\ p.camera = 0
  <2>1. CASE c.stereo
    <3>1. ~ByDepthAlone(c)
      BY <2>1 DEF ByDepthAlone
    <3>2. p.app = One * (Second * Own(c)) /\ p.camera = 0
      BY <3>1, ReadiedColour
    <3>3. Second * Own(c) \in Int
      BY <1>2
    <3>. QED
      BY <3>2, <3>3 DEF Divisible
  <2>2. CASE ~c.stereo
    <3>1. ByDepthAlone(c)
      BY <2>2 DEF ByDepthAlone
    <3>. QED
      BY <2>2, <3>1, ReadiedByDepth
  <2>. QED
    BY <2>1, <2>2
<1>5. /\ Factor(state.src, s, p) = Opacity(c)
      /\ Factor(state.dst, s, p) = OneMinus(Opacity(c))
  <2>1. CASE c.stereo
    <3>1. state = m_blendStateSrcAlpha
      BY <2>1 DEF PassthroughState
    <3> HIDE DEF s, p, state
    <3>. QED
      BY <1>2, <3>1, CameraStates
  <2>2. CASE ~c.stereo
    <3>1. ByDepthAlone(c)
      BY <2>2 DEF ByDepthAlone
    <3>2. state = m_blendStateDestAlpha
      BY <2>2 DEF PassthroughState
    <3>3. p.alpha = 0
      BY <2>2, <3>1, ReadiedByDepth
    <3>4. OneMinus(0) = One /\ OneMinus(One) = 0 /\ Opacity(c) = One
      BY <1>2, <1>3, <2>2 DEF OneMinus
    <3> HIDE DEF s, p, state
    <3>. QED
      BY <3>2, <3>3, <3>4, CameraStates
  <2>. QED
    BY <2>1, <2>2
<1> HIDE DEF s, p, state
<1> PICK x \in Int : p.app = One * x
  BY <1>4 DEF Divisible
<1>6. /\ OneMinus(Opacity(c)) \in Int /\ Opacity(c) \in Int
      /\ Opacity(c) = One => OneMinus(Opacity(c)) = 0
  BY <1>2, <1>4 DEF OneMinus
<1>7. /\ Blend(state, s, p).app = OneMinus(Opacity(c)) * x
      /\ Blend(state, s, p).camera = Opacity(c) * Third
  <2>1. /\ Third \in Int
        /\ s.app = 0 /\ s.camera = One * Third
    BY <1>2
  <2>. QED
    BY <1>4, <1>5, <1>6, <2>1, BlendedFirst
<1>8. Opacity(c) * Third = Third * Opacity(c)
  BY <1>2
<1>9. ~Translucent(c) => OneMinus(Opacity(c)) * x = 0
  BY <1>3, <1>6
<1>. QED
  BY <1>1, <1>7, <1>8, <1>9

\* How much of the application's image is left is what the mode keeps, and with less
\* opacity it is more; with none all of it is left or the camera image is empty.
LEMMA LeavesAsAsked ==
  ASSUME NEW c \in Cases, ~Departs(c)
  PROVE  LET keeps == IF c.mode = "Additive" THEN 0 ELSE Keeps(c)
         IN  /\ keeps \in 0 .. One
             /\ ~Translucent(c) => Leaves(c) = keeps
             /\ keeps <= Leaves(c)
             /\ Opacity(c) = 0 /\ ~c.depth => Leaves(c) = One \/ Shown(c) = 0
             /\ Opacity(c) = 0 /\ c.mode = "Additive" => Leaves(c) = One
<1> DEFINE keeps == IF c.mode = "Additive" THEN 0 ELSE Keeps(c)
           L == Leaves(c)
<1>1. /\ One \in Nat /\ One > 0 /\ Opacity(c) \in 0 .. One
      /\ c.cover \in 0 .. One /\ c.kept \in 0 .. One
      /\ c.core \in 0 .. One /\ c.app \in 0 .. One /\ c.useAppAlpha \in BOOLEAN
      /\ c.depth \in BOOLEAN
  BY CaseParts, OneAssumption
<1>2. /\ c.core < One => Translucent(c)
      /\ ~Translucent(c) => Opacity(c) = One
      /\ Opacity(c) = 0 => Translucent(c)
      /\ Translucent(c) => c.mode # "Masked"
  <2>1. c.core < One => Opacity(c) < One
    BY <1>1 DEF Opacity, Smaller
  <2>. QED
    BY <1>1, <2>1 DEF Translucent, Departs, KeyIsLost
<1>3. OneMinus(0) = One /\ OneMinus(One) = 0 /\ OneMinus(Opacity(c)) \in 0 .. One
  BY <1>1 DEF OneMinus
<1>4. CASE c.mode \in {"Opaque", "Additive"}
  <2>1. L = OneMinus(Opacity(c)) /\ keeps = 0
    BY <1>4 DEF Leaves, Keeps
  <2>. QED
    BY <1>1, <1>2, <1>3, <2>1
<1>5. CASE c.mode = "AlphaTest"
  <2>1. /\ L = IF c.cover < g_alphaTestThreshold THEN OneMinus(Opacity(c)) ELSE One
        /\ keeps = IF c.cover < g_alphaTestThreshold THEN 0 ELSE One
    BY <1>5 DEF Leaves, Opaqueness, Keeps, BlendsByAlpha
  <2>. QED
    BY <1>1, <1>2, <1>3, <1>5, <2>1
<1>6. CASE c.mode = "Masked"
  <2>1. L = keeps /\ keeps = IF c.useAppAlpha THEN Smaller(c.kept, c.cover) ELSE c.kept
    BY <1>6 DEF Leaves, Opaqueness, Keeps, BlendsByAlpha
  <2>2. keeps \in 0 .. One
    BY <1>1, <2>1 DEF Smaller
  <2>. QED
    BY <1>1, <1>2, <1>6, <2>1, <2>2
<1>7. CASE BlendsByAlpha(c)
  <2>1. /\ L = IF c.core < One THEN Smaller(One, OneMinus(Opacity(c)) + c.cover)
                              ELSE c.cover
        /\ keeps = c.cover /\ c.mode # "Additive"
    BY <1>7 DEF Leaves, Opaqueness, Keeps, BlendsByAlpha
  <2>2. CASE c.core < One
    BY <1>1, <1>2, <1>3, <2>1, <2>2 DEF Smaller
  <2>3. CASE ~(c.core < One)
    <3>1. Opacity(c) = 0 /\ ~c.depth => Premultiplied(c)
      BY <1>1, <1>2, <1>7, <2>3 DEF Departs, OpacityIsIgnored, BlendsByAlpha, Premultiplied
    <3>. QED
      BY <1>1, <2>1, <2>3, <3>1 DEF Shown
  <2>. QED
    BY <2>2, <2>3
<1>. QED
  BY <1>4, <1>5, <1>6, <1>7, CaseParts DEF Modes, BlendsByAlpha

\* Amounts of colour compare as the alphas they are made of do.
LEMMA Amounts ==
  ASSUME NEW k \in 0 .. One, NEW l \in 0 .. One, NEW h \in 0 .. One, k <= l
  PROVE  /\ OneMinus(l) * (Second * h) <= Third * OneMinus(k)
         /\ OneMinus(l) * (Second * One) = Third * OneMinus(l)
         /\ l * (Second * One) = Full - Third * OneMinus(l)
         /\ OneMinus(One) * (Second * h) = 0
         /\ OneMinus(l) * (Second * 0) = 0
<1>1. /\ One \in Nat /\ One > 0 /\ Second \in Nat /\ Third \in Nat
      /\ Third = One * Second /\ Full = One * Third
  <2>1. One \in Nat /\ One > 0
    BY OneAssumption
  <2>. QED
    BY <2>1, SMTT(30) DEF Second, Third, Full
<1>2. /\ OneMinus(l) \in Nat /\ OneMinus(k) \in Nat /\ OneMinus(l) <= OneMinus(k)
      /\ OneMinus(One) = 0 /\ OneMinus(l) = One - l
  BY <1>1 DEF OneMinus
<1>3. Second * One = Third
  BY <1>1, SMTT(30)
<1>4. Second * h \in Nat /\ Second * h <= Third
  BY <1>1, SMTT(30)
<1>5. \A a, b, d, e \in Nat : a <= b /\ d <= e => a * d <= b * e
  BY SMTT(30)
<1>6. OneMinus(l) * (Second * h) <= OneMinus(k) * Third
  BY <1>1, <1>2, <1>4, <1>5
<1>7. OneMinus(k) * Third = Third * OneMinus(k) /\ OneMinus(l) * Third = Third * OneMinus(l)
  BY <1>1, <1>2
<1>8. l * Third = One * Third - Third * (One - l)
  BY <1>1, SMTT(30)
<1>9. 0 * (Second * h) = 0 /\ Second * 0 = 0 /\ OneMinus(l) * 0 = 0
  BY <1>1, <1>2, <1>4
<1>. QED
  BY <1>1, <1>2, <1>3, <1>6, <1>7, <1>8, <1>9

\* What is asked for, with the division done.
LEMMA AskedParts ==
  ASSUME NEW c \in Cases
  PROVE  /\ (c.depth /\ ~c.nearer) \/ (c.gap /\ ~c.background) =>
              Asked(c).app = Submitted(c).app /\ Asked(c).camera = 0
         /\ ~((c.depth /\ ~c.nearer) \/ (c.gap /\ ~c.background)) =>
              /\ c.mode = "Additive" =>
                   Asked(c).app = Submitted(c).app /\ Asked(c).camera = Full
              /\ c.mode # "Additive" /\ c.depth =>
                   Asked(c).app = 0 /\ Asked(c).camera = Full
              /\ c.mode # "Additive" /\ ~c.depth =>
                   /\ Asked(c).camera = Third * OneMinus(Keeps(c))
                   /\ Asked(c).app = IF Premultiplied(c) THEN Submitted(c).app
                                     ELSE Full - Third * OneMinus(Keeps(c))
<1>1. c.mode # "Additive" => (Full * OneMinus(Keeps(c))) \div One = Third * OneMinus(Keeps(c))
  <2> HAVE c.mode # "Additive"
  <2>1. /\ One \in Nat /\ c.cover \in 0 .. One /\ c.kept \in 0 .. One
        /\ c.mode \in Modes
    BY CaseParts, OneAssumption
  <2>2. Keeps(c) \in Int
    BY <2>1 DEF Keeps, Modes, Smaller
  <2> DEFINE r == OneMinus(Keeps(c))
  <2>3. r \in Int /\ Third \in Nat /\ Full = One * Third
    BY <2>1, <2>2, Colours DEF OneMinus
  <2> HIDE DEF r
  <2>4. (One * Third) * r = One * (Third * r) /\ Third * r \in Int
    BY <2>1, <2>3, SMTT(30)
  <2>5. Full * r = One * (Third * r)
    BY <2>3, <2>4
  <2>6. (Full * r) \div One = Third * r
    BY <2>4, <2>5, Exact
  <2>. QED
    BY <2>6 DEF r
<1>2. CASE (c.depth /\ ~c.nearer) \/ (c.gap /\ ~c.background)
  BY <1>2 DEF Asked
<1>3. CASE ~((c.depth /\ ~c.nearer) \/ (c.gap /\ ~c.background))
  <2>1. CASE c.mode = "Additive"
    BY <1>3, <2>1 DEF Asked
  <2>2. CASE c.mode # "Additive" /\ c.depth
    BY <1>3, <2>2 DEF Asked
  <2>3. CASE c.mode # "Additive" /\ ~c.depth
    BY <1>1, <1>3, <2>3 DEF Asked
  <2>. QED
    BY <2>1, <2>2, <2>3
<1>. QED
  BY <1>2, <1>3

\* PassthroughRendererDX11 draws every pixel as asked.
LEMMA DrawnAsAskedDX11 ==
  ASSUME NEW c \in Cases, ~Departs(c)
  PROVE  DrawnAs(c, PixelDX11(c))
<1> DEFINE p == PixelDX11(c)
<1>1. /\ ~InvertedAlphaTest(c) /\ ~InvertedBackground(c) /\ ~GapIsReplaced(c)
      /\ ~KeyIsLost(c) /\ ~OpacityIsIgnored(c)
  BY DEF Departs
<1>2. /\ One \in Nat /\ One > 0 /\ Opacity(c) \in 0 .. One
      /\ c.depth \in BOOLEAN /\ c.gap \in BOOLEAN /\ c.background \in BOOLEAN
      /\ c.nearer \in BOOLEAN /\ c.stereo \in BOOLEAN
      /\ c.gap \/ c.background => c.stereo
      /\ c.depth => ~c.background
      /\ ~c.depth => c.nearer
      /\ Opacity(c) = 0 => Translucent(c)
      /\ ~Translucent(c) => Opacity(c) = One
  BY CaseParts, OneAssumption DEF Translucent
<1>3. /\ c.background => ~Translucent(c)
      /\ Translucent(c) => ~c.inverted
      /\ c.depth /\ ~c.stereo => ~Translucent(c)
  BY <1>1 DEF OpacityIsIgnored
<1>4. Third \in Nat /\ Second \in Nat /\ Full = One * Third
  BY Colours
<1>5. CASE (c.depth /\ ~c.nearer) \/ (c.gap /\ ~c.background)
  BY <1>1, <1>5, PixelNotDrawn, AskedParts DEF DrawnAs
<1>6. CASE c.depth /\ c.nearer /\ ~c.gap /\ c.mode # "Additive"
  <2>1. /\ ~Translucent(c) => p.app = 0
        /\ p.camera = Third * Opacity(c)
    BY <1>1, <1>3, <1>6, PixelByDepth
  <2>2. Asked(c).app = 0 /\ Asked(c).camera = Full
    BY <1>2, <1>6, AskedParts
  <2>3. /\ Third * Opacity(c) <= Full
        /\ Opacity(c) = One => Third * Opacity(c) = Full
        /\ Opacity(c) = 0 => Third * Opacity(c) = 0
    BY <1>2, <1>4, SMTT(30)
  <2> HIDE DEF p
  <2>4. DrawnAs(c, p)
    BY <1>2, <2>1, <2>2, <2>3 DEF DrawnAs
  <2>. QED
    BY <2>4 DEF p
<1>7. CASE ~((c.depth /\ ~c.nearer) \/ (c.gap /\ ~c.background))
            /\ (c.depth => c.mode = "Additive")
  <2> DEFINE keeps == IF c.mode = "Additive" THEN 0 ELSE Keeps(c)
             L == Leaves(c)
  <2>1. c.depth => c.mode = "Additive" /\ c.nearer
    BY <1>7
  <2>2. c.gap => c.background
    BY <1>7
  <2>3. ColoursByAlpha(c, p)
    BY <1>1, <1>3, <2>1, <2>2, PixelByAlpha
  <2>4. /\ p.app = (IF Adds(c) THEN One ELSE L) * (Second * Own(c))
        /\ p.camera = OneMinus(L) * (Second * Shown(c))
    BY <2>3 DEF ColoursByAlpha
  <2>5. /\ keeps \in 0 .. One /\ L \in 0 .. One /\ keeps <= L
        /\ Shown(c) \in 0 .. One /\ Own(c) \in 0 .. One
        /\ ~Translucent(c) => L = keeps
    BY <1>1, LeavesAsAsked, LeavesBounded, Colours
  <2>6. Opacity(c) = 0 => L = One \/ Shown(c) = 0
    BY <2>1, LeavesAsAsked, <1>2
  <2>7. ~Translucent(c) => Shown(c) = One
    BY <1>2 DEF Shown
  <2>8. ~Adds(c) => Own(c) = One
    BY DEF Adds, Own
  <2>9. Adds(c) => p.app = Submitted(c).app
    BY <2>4, Colours
  <2>10. Asked(c).camera = Third * OneMinus(keeps)
    <3>1. CASE c.mode = "Additive"
      <4>1. OneMinus(0) = One /\ Third * One = Full
        BY <1>2, <1>4 DEF OneMinus
      <4>. QED
        BY <1>7, <3>1, <4>1, AskedParts
    <3>2. CASE c.mode # "Additive"
      BY <1>2, <1>7, <3>2, AskedParts
    <3>. QED
      BY <3>1, <3>2
  <2>11. Asked(c).app = IF Adds(c) THEN Submitted(c).app ELSE Full - Third * OneMinus(keeps)
    <3>1. CASE c.mode = "Additive"
      BY <1>7, <3>1, AskedParts DEF Adds
    <3>2. CASE c.mode # "Additive"
      BY <1>2, <1>7, <3>2, AskedParts DEF Adds
    <3>. QED
      BY <3>1, <3>2
  <2> HIDE DEF p, keeps, L
  <2>12. ~Translucent(c) => p.app = Asked(c).app /\ p.camera = Asked(c).camera
    <3> HAVE ~Translucent(c)
    <3>1. L = keeps /\ Shown(c) = One
      BY <2>5, <2>7
    <3>2. OneMinus(L) * (Second * One) = Third * OneMinus(L)
      BY <2>5, Amounts
    <3>3. L * (Second * One) = Full - Third * OneMinus(L)
      BY <2>5, Amounts
    <3>4. p.camera = Asked(c).camera
      BY <2>4, <2>10, <3>1, <3>2
    <3>5. p.app = Asked(c).app
      BY <2>4, <2>8, <2>9, <2>11, <3>1, <3>3
    <3>. QED
      BY <3>4, <3>5
  <2>13. p.camera <= Asked(c).camera
    BY <2>4, <2>5, <2>10, Amounts
  <2>14. Opacity(c) = 0 => p.camera = 0
    BY <2>4, <2>5, <2>6, Amounts
  <2>15. DrawnAs(c, p)
    BY <2>12, <2>13, <2>14 DEF DrawnAs
  <2>. QED
    BY <2>15 DEF p
<1>. QED
  BY <1>2, <1>5, <1>6, <1>7

\* PassthroughRendererVulkan knows fewer cases, and draws them as the other does.
LEMMA LegacyDrawsAlike ==
  ASSUME NEW c \in Cases, c.vulkan, ~Departs(c)
  PROVE  PixelVulkan(c) = PixelDX11(c)
<1>1. /\ ~c.inverted /\ c.mode # "AlphaTest" /\ ~c.useAppAlpha /\ ~(c.app < c.core)
      /\ ~KeyIsLost(c)
  BY DEF Departs, UnknownToVulkan
<1>2. /\ ~c.stereo /\ ~c.depth /\ ~c.gap /\ ~c.background
      /\ One \in Nat /\ c.core \in 0 .. One /\ c.app \in 0 .. One /\ c.mode \in Modes
  BY CaseParts, OneAssumption
<1>3. Opacity(c) = c.core /\ Opacity([c EXCEPT !.app = One]) = c.core
  <2>1. /\ [c EXCEPT !.app = One].core = c.core
        /\ [c EXCEPT !.app = One].app = One
    BY DEF Cases
  <2>2. Smaller(c.core, c.app) = c.core /\ Smaller(c.core, One) = c.core
    BY <1>1, <1>2 DEF Smaller
  <2>. QED
    BY <2>1, <2>2 DEF Opacity
<1>4. MaskedPrepassVulkan(c, Submitted(c)) = Prepass(c)
  <2>1. CASE c.mode = "Masked"
    <3>1. MaskCopyState(c) = m_blendStateWriteAlpha
      BY <1>1 DEF MaskCopyState
    <3>2. CopyMask(c, m_blendStateWriteAlpha, c.kept, Submitted(c))
            = Blend(m_blendStateWriteAlpha,
                    [app |-> 0, camera |-> 0, alpha |-> c.kept], Submitted(c))
      BY <1>1 DEF CopyMask
    <3>. QED
      BY <2>1, <3>1, <3>2 DEF MaskedPrepassVulkan, Prepass, MaskedPrepass
  <2>2. CASE c.mode # "Masked"
    BY <1>1, <2>2 DEF MaskedPrepassVulkan, Prepass
  <2>. QED
    BY <2>1, <2>2
<1>5. AlphaPrepassVulkan(c, Prepass(c)) = Readied(c)
  <2>1. c.mode = "Masked" => ~(c.core < One)
    BY <1>1, <1>3 DEF KeyIsLost, Translucent
  <2>2. RendersAlphaPrepass(c) <=> c.mode # "Masked" /\ (BlendsByAlpha(c) => c.core < One)
    BY <1>1, <1>2, <2>1 DEF RendersAlphaPrepass, BlendsByAlpha, Modes
  <2>3. AlphaPrepassState(c) = IF BlendsByAlpha(c) THEN m_blendStatePrepassUseAppAlpha
                                                  ELSE m_blendStatePrepassIgnoreAppAlpha
    BY <1>1, <1>2 DEF AlphaPrepassState, BlendsByAlpha
  <2>4. PrepassSource(c) = [app |-> 0, camera |-> 0, alpha |-> OneMinus(c.core)]
    BY <1>1, <1>3 DEF PrepassSource
  <2>5. Readied(c) = IF RendersAlphaPrepass(c)
                     THEN Blend(AlphaPrepassState(c), PrepassSource(c), Prepass(c))
                     ELSE Prepass(c)
    BY <1>2 DEF Readied, AlphaPrepass, PrepassSource
  <2>. QED
    BY <2>2, <2>3, <2>4, <2>5 DEF AlphaPrepassVulkan
<1>6. PassthroughViewVulkan(c, Readied(c)) = PassthroughView(c, Readied(c))
  <2>1. PassthroughState(c) = IF c.mode \in {"AlphaBlendPremultiplied", "Additive"}
                              THEN m_blendStateDestAlphaPremultiplied
                              ELSE m_blendStateDestAlpha
    BY <1>1, <1>2 DEF PassthroughState, Premultiplied
  <2>2. CameraColour([c EXCEPT !.app = One]) = CameraColour(c)
    <3>1. /\ [c EXCEPT !.app = One].mode = c.mode
          /\ [c EXCEPT !.app = One].depth = c.depth
      BY DEF Cases
    <3>. QED
      BY <1>3, <3>1 DEF CameraColour, Premultiplied
  <2>. QED
    BY <1>2, <2>1, <2>2 DEF PassthroughViewVulkan, PassthroughView
<1>7. PixelVulkan(c) = PassthroughViewVulkan(c, Readied(c))
  BY <1>4, <1>5 DEF PixelVulkan
<1>8. PixelDX11(c) = PassthroughView(c, Readied(c))
  <2>1. PixelDX11(c) = Background(c, PassthroughView(c, Readied(c)))
    BY Zenon DEF PixelDX11, Readied, Prepass
  <2>. QED
    BY <1>2, <2>1 DEF Background
<1>. QED
  BY <1>6, <1>7, <1>8

\* So both renderers do.
LEMMA RenderedAsAsked ==
  ASSUME NEW c \in Cases, ~Departs(c)
  PROVE  DrawnAs(c, RenderedPixel(c))
BY DrawnAsAskedDX11, LegacyDrawsAlike DEF RenderedPixel

-----------------------------------------------------------------------------
\* The pixel there is comes from its case.
PixelRendered ==
  pixel # <<>> => pixel[1] \in Cases /\ pixel[2] = RenderedPixel(pixel[1])

LEMMA FramePixelDX11 ==
  ASSUME NEW image, NEW c, NEW first, NEW valid, RenderFrame(image, c, first, valid)
  PROVE  pixel' = <<>> \/ pixel' = <<c, RenderedPixel(c)>>
BY Zenon DEF RenderFrame

LEMMA FramePixelVulkan ==
  ASSUME NEW image, NEW c, NEW handle, NEW fails,
         RenderFrameVulkan(image, c, handle, fails)
  PROVE  pixel' = <<>> \/ pixel' = <<c, RenderedPixel(c)>>
BY Zenon DEF RenderFrameVulkan

LEMMA NextKeepsPixel == PixelRendered /\ [Next]_vars => PixelRendered'
<1> SUFFICES ASSUME PixelRendered, [Next]_vars PROVE PixelRendered'
  OBVIOUS
<1>1. CASE pixel' = pixel
  BY <1>1 DEF PixelRendered
<1>2. ASSUME NEW c \in Pixels, pixel' = <<>> \/ pixel' = <<c, RenderedPixel(c)>>
      PROVE  PixelRendered'
  <2>1. c \in Cases
    BY PixelsAssumption DEF Pixels
  <2>. QED
    BY <1>2, <2>1 DEF PixelRendered
<1>3. CASE RenderPassthroughFrame
  <2>1. PICK c \in Pixels :
          \E image, first, valid : RenderFrame(image, c, first, valid)
    BY <1>3, Zenon DEF RenderPassthroughFrame
  <2>2. pixel' = <<>> \/ pixel' = <<c, RenderedPixel(c)>>
    BY <2>1, FramePixelDX11, Zenon
  <2>. QED
    BY <1>2, <2>2
<1>4. CASE RenderPassthroughFrameVulkan
  <2>1. PICK c \in Pixels :
          \E image, handle, fails : RenderFrameVulkan(image, c, handle, fails)
    BY <1>4, Zenon DEF RenderPassthroughFrameVulkan
  <2>2. pixel' = <<>> \/ pixel' = <<c, RenderedPixel(c)>>
    BY <2>1, FramePixelVulkan, Zenon
  <2>. QED
    BY <1>2, <2>2
<1>5. CASE \/ ChangeSetting \/ TakeNewSwapchain \/ NewDepthFrame \/ ChangeFieldOfView
           \/ InitRenderer \/ AskForDebugTexture \/ UpdateDebugTexture
  <2>1. \A what : Change(what) => pixel' = pixel
    BY DEF Change
  <2>2. pixel' = pixel
    BY <1>5, <2>1 DEF ChangeSetting, TakeNewSwapchain, NewDepthFrame, ChangeFieldOfView,
                      InitRenderer, AskForDebugTexture, UpdateDebugTexture
  <2>. QED
    BY <1>1, <2>2
<1>6. CASE UNCHANGED vars
  BY <1>1, <1>6 DEF vars
<1>. QED
  BY <1>1, <1>3, <1>4, <1>5, <1>6 DEF Next

\* Every pixel is drawn as its mode asks, by either renderer, at every scale of colour
\* and for every threshold of the alpha test, but for the cases of Departs (the passes
\* and blend states of both renderers and what their shaders return).
THEOREM RenderersPixelIsDrawnAsAsked == Spec => []PixelIsDrawnAsAsked
<1>1. Init => PixelRendered
  BY DEF Init, PixelRendered
<1>2. PixelRendered => PixelIsDrawnAsAsked
  <2> SUFFICES ASSUME PixelRendered, pixel # <<>>, ~Departs(pixel[1])
               PROVE  DrawnAs(pixel[1], pixel[2])
    BY DEF PixelIsDrawnAsAsked
  <2>1. pixel[1] \in Cases /\ pixel[2] = RenderedPixel(pixel[1])
    BY DEF PixelRendered
  <2>. QED
    BY <2>1, RenderedAsAsked
<1>. QED
  BY <1>1, <1>2, NextKeepsPixel, PTL DEF Spec

=============================================================================
