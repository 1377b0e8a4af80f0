SPECIFICATION Spec
CONSTANTS
  Setups <- AllApis
  Handle = {a, b}
  NUM_SWAPCHAINS = 2
  LastFrame = 3
  MaxSwapchains = 3
  MaxTakeovers = 2
  MaxFailures = 1
  MaxResets = 1
SYMMETRY Handles
INVARIANTS
  FramesGetTheirPassthrough
  QueuesNeverStuck
CHECK_DEADLOCK FALSE
