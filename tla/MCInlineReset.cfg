SPECIFICATION Spec
CONSTANTS
  Setups <- OnlyVulkan
  Handle = {a, b}
  NUM_SWAPCHAINS = 2
  LastFrame = 3
  MaxSwapchains = 2
  MaxTakeovers = 2
  MaxFailures = 0
  MaxResets = 1
SYMMETRY Handles
INVARIANT ResetWaitsForQueue
CHECK_DEADLOCK FALSE
