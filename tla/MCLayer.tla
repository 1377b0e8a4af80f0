------------------------------- MODULE MCLayer ------------------------------
(***************************************************************************)
(* Two swapchains, one for each eye or one shared, of three images: enough *)
(* for an image that is held while the application has a second one and    *)
(* waits for a third.  A first session ends with any of them acquired or   *)
(* held, and in a second one the handles come back; there, nothing is      *)
(* acquired while the layer has noted MaxQueued images of the handle.      *)
(* Behaviours about passthrough layers have all the calls of the           *)
(* extensions and none of those for swapchains.                            *)
(***************************************************************************)
EXTENDS Layer

\* The swapchains are interchangeable.
Symmetry == Permutations(Swapchain)
=============================================================================
