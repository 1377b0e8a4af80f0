SPECIFICATION AsyncSpec
CONSTANTS
  NumFrames = 4
  Ptr <- OneReader
  Content <- Images
  Uses <- BothUses
  Size = {1, 2}
  Setting = {1}
  LastImage = 5
  MaxTextures = 5
VIEW View
INVARIANTS
  FramesShowTheirImage
  TexturesFitTheirFrames
CHECK_DEADLOCK FALSE
