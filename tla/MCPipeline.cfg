SPECIFICATION Spec
CONSTANTS
  Kinds <- EveryKind
  StereoFrameSkip = 1
  LastImage = 4
INVARIANTS
  QueuesSuffice
  RenderLeaksNothing
  DepthHasItsCameraFrame
  ProjectionIsOfFrame
PROPERTIES
  HeldFramesStable
  NeverRendersOlder
  FallsBackOnlyToWork
VIEW View
