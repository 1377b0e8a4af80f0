----------------------------- MODULE MCRenderers -----------------------------
(***************************************************************************)
(* A small instance of Renderers: short sequences of frames with every     *)
(* kind of change between them, and every case of a pixel.                 *)
(***************************************************************************)
EXTENDS Renderers

\* Every case of a pixel there is.
MCAllPixels == Cases

\* Of the modes, masked has a temporary target and opaque does not.
MCPlainPixels ==
  {[vulkan |-> v, mode |-> m, stereo |-> s, inverted |-> FALSE, depth |-> FALSE,
    nearer |-> TRUE, core |-> One, app |-> One, cover |-> One, kept |-> 0,
    useAppAlpha |-> FALSE, gap |-> FALSE, background |-> FALSE] :
     <<v, s>> \in (BOOLEAN \X BOOLEAN) \ {<<TRUE, TRUE>>}, m \in {"Masked", "Opaque"}}

Between == {"setting", "swapchain", "depth", "field of view", "reset"}

Setup(vulkan, m, n, what, cases) ==
  [vulkan |-> vulkan, frames |-> m, changes |-> n, change |-> what, pixels |-> cases]

MCSetups ==
  { Setup(FALSE, 4, 1, Between, "plain"), Setup(FALSE, 3, 2, Between, "plain"),
    Setup(FALSE, 2, 3, {"debug texture"}, "plain"), Setup(FALSE, 1, 0, {}, "all"),
    Setup(TRUE, 3, 2, {"swapchain", "field of view", "reset"}, "plain"),
    Setup(TRUE, 2, 4, {"debug texture", "reset"}, "plain"),
    Setup(TRUE, 5, 0, {}, "plain"), Setup(TRUE, 1, 0, {}, "all") }
=============================================================================
