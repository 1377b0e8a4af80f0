CONSTANTS
  Swapchain = {left, right}
  NumImages = 3
  Scopes = {"images", "layers"}
  MaxSessions = 2
  MaxQueued = 3
  MaxLayers = 2
  MaxHandle = 3
SPECIFICATION LayerSpec
SYMMETRY Symmetry
INVARIANTS
  TypeOK
  RuntimeInSync
  OneHeld
  
PROPERTIES
  NothingRejected
  DrawsOnWaitedImage
CHECK_DEADLOCK FALSE
