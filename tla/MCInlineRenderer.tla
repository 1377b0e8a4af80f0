-------------------------- MODULE MCInlineRenderer --------------------------
(***************************************************************************)
(* A small instance of InlineRenderer: all graphics APIs, with layers of   *)
(* two eyes or of one eye and its depth.                                   *)
(***************************************************************************)
EXTENDS InlineRenderer

Eyes == {"left", "right"}
EyeWithDepth == {"left", "depth"}

AllApis ==
  { [api |-> "D3D11", attachments |-> EyeWithDepth],
    [api |-> "D3D12", attachments |-> EyeWithDepth],
    [api |-> "VulkanLegacy", attachments |-> Eyes],
    [api |-> "Vulkan", attachments |-> Eyes],
    [api |-> "OpenGL", attachments |-> EyeWithDepth] }

OnlyVulkan == {[api |-> "Vulkan", attachments |-> Eyes]}

\* Handles are compared with each other only.
Handles == Permutations(Handle)
=============================================================================
