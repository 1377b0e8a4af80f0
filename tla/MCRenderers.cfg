SPECIFICATION Spec
CONSTANTS
  One = 2
  g_alphaTestThreshold = 1
  Setups <- MCSetups
  AllPixels <- MCAllPixels
  PlainPixels <- MCPlainPixels
  Sizes = {1, 2}
  NUM_SWAPCHAINS = 2
  Handles = {1, 2}
INVARIANTS
  HistoryIsOfItsPose
  ResourcesFitTheFrame
  PixelIsDrawnAsAsked
CHECK_DEADLOCK FALSE
