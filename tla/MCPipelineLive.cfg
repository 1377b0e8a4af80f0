CONSTANTS
  Kinds <- Textures
  StereoFrameSkip = 0
  LastImage = 2
SPECIFICATION Spec
PROPERTIES
  NewestIsRendered
  NewestIsReconstructed
VIEW View
