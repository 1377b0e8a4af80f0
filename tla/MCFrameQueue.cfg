CONSTANTS
  NumFrames = 3
  Ptr = {p1, p2, p3, p4}
  Content = {c1, c2}
SPECIFICATION Spec
SYMMETRY Symmetry
INVARIANTS
  TypeOK
  OnePlace
  ReadersCounted
  OnlyNewestUnread
  WriterFindsFrame
PROPERTIES
  ReaderSeesStableFrame
  AlwaysAFrame
  ImplementsExchange
