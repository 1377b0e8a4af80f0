------------------------------ MODULE Blending -----------------------------
(***************************************************************************)
(* What becomes of one pixel of the application's image in the passes that *)
(* PassthroughRendererDX11 draws over it: the prepasses that prepare its   *)
(* alpha, the pass that draws the camera image, and the background.  Each  *)
(* pass goes through one of the blend states that InitRenderer creates.    *)
(* PassthroughRendererVulkan, the legacy renderer, has fewer of both.      *)
(*                                                                         *)
(* A pixel is how much of the application's colour and how much of the     *)
(* camera's is in it, and its alpha.  A case is what a pass is chosen by:  *)
(*   vulkan      it is the legacy renderer that draws                      *)
(*   mode        renderParams.BlendMode                                    *)
(*   stereo      ProjectionMode = Projection_StereoReconstruction          *)
(*   inverted    bInvertLayerAlpha: alpha says how transparent a pixel is  *)
(*   depth       bEnableDepthBlending, with a depth buffer to test against *)
(*   nearer      the camera image is nearer there than the application's   *)
(*   core        CoreForcePassthroughOpacity                               *)
(*   app         RenderOpacity, which XR_FB_passthrough sets               *)
(*   cover       how opaque the application means the pixel to be          *)
(*   kept        what the chroma key says to keep of the application       *)
(*   useAppAlpha CoreForceMaskedUseAppAlpha                                *)
(*   gap         the reconstructed depth has no value there                *)
(*   background  bRenderBackground                                         *)
(*                                                                         *)
(* Not modelled: the render models, the range test of depth, reversed      *)
(* depth, and depth together with the chroma key or with the background.   *)
(***************************************************************************)
EXTENDS Integers

CONSTANTS
  One,                  \* the full value of an alpha
  g_alphaTestThreshold  \* what alpha_test_ps.hlsl compares an alpha with

ASSUME OneAssumption == One \in Nat \ {0}
ASSUME ThresholdAssumption == g_alphaTestThreshold \in 0 .. One

\* The full value of a colour, which no case divides by One more often.
Full == One * One * One * One

Modes == {"Masked", "Opaque", "Additive", "AlphaBlendPremultiplied",
          "AlphaBlendUnpremultiplied", "AlphaTest"}

\* The cases there are.
Cases ==
  {c \in [vulkan : BOOLEAN, mode : Modes, stereo : BOOLEAN,
          inverted : BOOLEAN, depth : BOOLEAN, nearer : BOOLEAN,
          core : 0 .. One, app : 0 .. One, cover : 0 .. One, kept : 0 .. One,
          useAppAlpha : BOOLEAN, gap : BOOLEAN,
          background : BOOLEAN] :
     /\ c.gap \/ c.background => c.stereo
     /\ c.depth => c.mode # "Masked" /\ ~c.background
     /\ ~c.depth => c.nearer
     /\ c.vulkan => ~c.stereo /\ ~c.depth
     /\ c.mode # "Masked" => c.kept = 0 /\ ~c.useAppAlpha}

Smaller(a, b) == IF a < b THEN a ELSE b
Larger(a, b) == IF a < b THEN b ELSE a
Clamp(a) == Larger(0, Smaller(One, a))
OneMinus(a) == One - a

Opacity(c) == Smaller(c.core, c.app)

-----------------------------------------------------------------------------
(***************************************************************************)
(* Blend states.  The colour becomes source * src + destination * dst; the *)
(* factors of alpha are 0 or 1.                                            *)
(***************************************************************************)
BlendState(src, dst, alpha, srcAlpha, dstAlpha) ==
  [src |-> src, dst |-> dst, alpha |-> alpha,
   srcAlpha |-> srcAlpha, dstAlpha |-> dstAlpha]

m_blendStateDestAlpha ==
  BlendState("inverse destination", "destination", "add", 1, 1)
m_blendStateInvDestAlpha ==
  BlendState("destination", "inverse destination", "add", 1, 1)
m_blendStateDestAlphaPremultiplied ==
  BlendState("inverse destination", "one", "add", 1, 1)
m_blendStateInvDestAlphaPremultiplied ==
  BlendState("destination", "one", "add", 1, 1)
m_blendStateSrcAlpha == BlendState("source", "inverse source", "add", 1, 1)

\* These write alpha alone.
AlphaState(alpha, srcAlpha, dstAlpha) ==
  BlendState("zero", "one", alpha, srcAlpha, dstAlpha)

m_blendStateWriteAlpha == AlphaState("add", 1, 0)
m_blendStateWriteMinAlpha == AlphaState("min", 1, 1)
m_blendStateWriteMaxAlpha == AlphaState("max", 1, 1)
m_blendStatePrepassUseAppAlpha == AlphaState("add", 1, 1)
m_blendStatePrepassUseInvertedAppAlpha == AlphaState("subtract", 1, 1)
m_blendStatePrepassIgnoreAppAlpha == AlphaState("add", 1, 0)
m_blendStatePrepassZeroAppAlpha == AlphaState("add", 0, 0)

m_blendStatePrepassBlendAppAlpha ==
  BlendState("destination", "inverse destination", "add", 0, 0)
m_blendStatePrepassBlendInverseAppAlpha ==
  BlendState("destination", "inverse destination", "subtract", 1, 1)

\* What Direct3D does with a state, a source and a destination.
Factor(f, s, d) ==
  CASE f = "zero" -> 0
    [] f = "one" -> One
    [] f = "source" -> s.alpha
    [] f = "inverse source" -> OneMinus(s.alpha)
    [] f = "destination" -> d.alpha
    [] f = "inverse destination" -> OneMinus(d.alpha)

Blend(state, s, d) ==
  LET Colour(a, b) == (Factor(state.src, s, d) * a + Factor(state.dst, s, d) * b)
                        \div One
      sa == state.srcAlpha * s.alpha
      da == state.dstAlpha * d.alpha
  IN  [app |-> Colour(s.app, d.app),
       camera |-> Colour(s.camera, d.camera),
       alpha |-> Clamp(CASE state.alpha = "add" -> sa + da
                         [] state.alpha = "subtract" -> sa - da
                         [] state.alpha = "min" -> Smaller(sa, da)
                         [] state.alpha = "max" -> Larger(sa, da))]

-----------------------------------------------------------------------------
(***************************************************************************)
(* The passes.                                                             *)
(***************************************************************************)
Premultiplied(c) == c.mode = "AlphaBlendPremultiplied"

\* The application's image before any pass.
Submitted(c) ==
  [app |-> IF Premultiplied(c) THEN (Full * c.cover) \div One ELSE Full,
   camera |-> 0,
   alpha |-> IF c.inverted THEN OneMinus(c.cover) ELSE c.cover]

\* alpha_copy_masked_ps.hlsl: the mask is written as the application means its
\* alpha.
CopyMask(c, state, mask, p) ==
  Blend(state, [app |-> 0, camera |-> 0,
                alpha |-> IF c.inverted THEN OneMinus(mask) ELSE mask], p)

\* The state of RenderMaskedPrepassView's second draw, which copies the mask.
MaskCopyState(c) ==
  IF ~c.useAppAlpha THEN m_blendStateWriteAlpha
  ELSE IF c.inverted THEN m_blendStateWriteMaxAlpha
  ELSE m_blendStateWriteMinAlpha

\* RenderMaskedPrepassView: the chroma key becomes the pixel's alpha.
MaskedPrepass(c, p) == CopyMask(c, MaskCopyState(c), c.kept, p)

\* RenderAlphaTestPrepassView and alpha_test_ps.hlsl.
AlphaTestPrepass(c, p) ==
  CopyMask(c, m_blendStateWriteAlpha,
           IF p.alpha < g_alphaTestThreshold THEN OneMinus(Opacity(c)) ELSE One,
           p)

\* A mutant: additive blending takes the application's alpha as it is.
RendersAlphaPrepassNotAdditive(c) ==
  \/ c.inverted /\ (~c.stereo \/ c.mode = "Masked")
  \/ c.mode = "Opaque" /\ ~c.depth
  \/ c.mode \notin {"Masked", "Additive"} /\ c.depth /\ ~c.stereo
  \/ c.core < One /\ c.mode \notin {"AlphaTest", "Additive"}

\* bRenderAlphaPrepass, in RenderPassthroughFrame.
RendersAlphaPrepass(c) ==
  \/ c.inverted /\ (~c.stereo \/ c.mode = "Masked")
  \/ c.mode = "Opaque" /\ ~c.depth
  \/ c.mode = "Additive"
  \/ c.mode # "Masked" /\ c.depth /\ ~c.stereo
  \/ c.core < One /\ c.mode # "AlphaTest"

\* The blend state of RenderAlphaPrepassView.
AlphaPrepassState(c) ==
  IF c.depth /\ c.mode # "Additive" /\ ~c.stereo
    THEN IF c.inverted THEN m_blendStatePrepassBlendAppAlpha
                       ELSE m_blendStatePrepassBlendInverseAppAlpha
  ELSE IF \/ c.mode \in {"AlphaBlendPremultiplied", "AlphaBlendUnpremultiplied"}
          \/ c.mode = "Masked" /\ c.inverted
    THEN IF c.inverted THEN m_blendStatePrepassUseInvertedAppAlpha
                       ELSE m_blendStatePrepassUseAppAlpha
  ELSE IF c.inverted /\ c.mode \in {"Additive", "Opaque"} /\ ~c.stereo
    THEN m_blendStatePrepassZeroAppAlpha
  ELSE m_blendStatePrepassIgnoreAppAlpha

\* With reconstructed depth the pass covers the view at the near plane.
AlphaPrepass(c, p) ==
  IF RendersAlphaPrepass(c) /\ (c.depth => c.stereo \/ c.nearer)
  THEN Blend(AlphaPrepassState(c),
             [app |-> 0, camera |-> 0,
              alpha |-> IF c.inverted THEN One ELSE OneMinus(Opacity(c))],
             p)
  ELSE p

\* What the shaders for the camera image return.
CameraColour(c) ==
  [app |-> 0,
   camera |-> IF Premultiplied(c) /\ ~c.depth
              THEN (Full * Opacity(c)) \div One ELSE Full,
   alpha |-> Opacity(c)]

\* The blend state of RenderPassthroughView.
PassthroughState(c) ==
  LET invert == c.inverted /\ c.stereo /\ c.mode # "Masked"
  IN  IF c.depth /\ c.stereo /\ c.mode # "Additive" THEN m_blendStateSrcAlpha
      ELSE IF \/ Premultiplied(c) /\ (~c.depth \/ c.stereo)
              \/ c.mode = "Additive"
        THEN IF invert THEN m_blendStateInvDestAlphaPremultiplied
                       ELSE m_blendStateDestAlphaPremultiplied
      ELSE IF invert THEN m_blendStateInvDestAlpha ELSE m_blendStateDestAlpha

\* RenderPassthroughView.
PassthroughView(c, p) ==
  IF ~c.gap /\ (c.depth => c.nearer)
  THEN Blend(PassthroughState(c), CameraColour(c), p) ELSE p

\* RenderBackgroundForView.
Background(c, p) ==
  IF c.background
  THEN Blend(IF c.inverted THEN m_blendStateInvDestAlpha ELSE m_blendStateDestAlpha,
             CameraColour(c), p)
  ELSE p

\* The passes for one eye, in the order of RenderPassthroughFrame.
PixelDX11(c) ==
  LET masked == IF c.mode = "Masked" THEN MaskedPrepass(c, Submitted(c))
                ELSE IF c.mode = "AlphaTest" THEN AlphaTestPrepass(c, Submitted(c))
                ELSE Submitted(c)
  IN  Background(c, PassthroughView(c, AlphaPrepass(c, masked)))

-----------------------------------------------------------------------------
(***************************************************************************)
(* The legacy renderer, which draws in two dimensions alone, and knows     *)
(* neither inverted alpha nor the opacity the application asks for.  The   *)
(* blend states of its pipelines are those of the same name above.         *)
(***************************************************************************)
\* RenderMaskedPrepassView
MaskedPrepassVulkan(c, p) ==
  IF c.mode = "Masked"
  THEN Blend(m_blendStateWriteAlpha, [app |-> 0, camera |-> 0, alpha |-> c.kept], p)
  ELSE p

BlendsByAlpha(c) ==
  c.mode \in {"AlphaBlendPremultiplied", "AlphaBlendUnpremultiplied"}

\* The "extra draw if we need to preadjust the alpha" of RenderPassthroughView.
AlphaPrepassVulkan(c, p) ==
  IF c.mode # "Masked" /\ (BlendsByAlpha(c) => c.core < One)
  THEN Blend(IF BlendsByAlpha(c) THEN m_blendStatePrepassUseAppAlpha
                                 ELSE m_blendStatePrepassIgnoreAppAlpha,
             [app |-> 0, camera |-> 0, alpha |-> OneMinus(c.core)], p)
  ELSE p

\* Its main pass, by m_pipelineAlphaPremultiplied or m_pipelineDefault.
PassthroughViewVulkan(c, p) ==
  Blend(IF c.mode \in {"AlphaBlendPremultiplied", "Additive"}
        THEN m_blendStateDestAlphaPremultiplied ELSE m_blendStateDestAlpha,
        CameraColour([c EXCEPT !.app = One]), p)

PixelVulkan(c) ==
  PassthroughViewVulkan(c,
    AlphaPrepassVulkan(c, MaskedPrepassVulkan(c, Submitted(c))))

RenderedPixel(c) == IF c.vulkan THEN PixelVulkan(c) ELSE PixelDX11(c)

-----------------------------------------------------------------------------
(***************************************************************************)
(* What is asked for.                                                      *)
(***************************************************************************)
\* How much of the application's image the mode leaves, where the camera's is
\* not tested for depth.
Keeps(c) ==
  CASE c.mode = "Opaque" -> 0
    [] c.mode = "Additive" -> One
    [] c.mode \in {"AlphaBlendPremultiplied", "AlphaBlendUnpremultiplied"} -> c.cover
    [] c.mode = "Masked" -> IF c.useAppAlpha THEN Smaller(c.kept, c.cover) ELSE c.kept
    [] c.mode = "AlphaTest" -> IF c.cover < g_alphaTestThreshold THEN 0 ELSE One

\* At full opacity the colours of the pixel are those the mode asks for: the
\* camera's in place of the application's, on top of it, or by its alpha or the
\* key; and with depth blending whichever is nearer.
Asked(c) ==
  LET s == Submitted(c)
      part == (Full * OneMinus(Keeps(c))) \div One
  IN  IF (c.depth /\ ~c.nearer) \/ (c.gap /\ ~c.background)
        THEN [app |-> s.app, camera |-> 0]
      ELSE IF c.mode = "Additive" THEN [app |-> s.app, camera |-> Full]
      ELSE IF c.depth THEN [app |-> 0, camera |-> Full]
      ELSE IF Premultiplied(c) THEN [app |-> s.app, camera |-> part]
      ELSE [app |-> Full - part, camera |-> part]

Translucent(c) == Opacity(c) < One

\* Where the code draws something else; each is described in the README.
InvertedAlphaTest(c) == c.mode = "AlphaTest" /\ c.inverted
InvertedBackground(c) == c.background /\ c.inverted
GapIsReplaced(c) ==
  c.background /\ c.gap /\ c.mode \in {"Additive", "AlphaBlendPremultiplied"}
KeyIsLost(c) == Translucent(c) /\ c.mode = "Masked"
OpacityIsIgnored(c) ==
  /\ Translucent(c)
  /\ \/ c.inverted
     \/ c.depth /\ ~c.stereo
     \/ c.background
     \/ c.core = One /\ c.mode = "AlphaBlendUnpremultiplied" /\ ~c.depth
UnknownToVulkan(c) ==
  c.inverted \/ c.app < c.core \/ c.mode = "AlphaTest" \/ c.useAppAlpha

Departs(c) ==
  \/ InvertedAlphaTest(c) \/ InvertedBackground(c) \/ GapIsReplaced(c)
  \/ KeyIsLost(c) \/ OpacityIsIgnored(c) \/ (c.vulkan /\ UnknownToVulkan(c))

\* The pixel is drawn as asked for; with less opacity there is less of the
\* camera in it, and none with none.
DrawnAs(c, p) ==
  LET a == Asked(c)
  IN  /\ ~Translucent(c) => p.app = a.app /\ p.camera = a.camera
      /\ p.camera <= a.camera
      /\ Opacity(c) = 0 => p.camera = 0
=============================================================================
