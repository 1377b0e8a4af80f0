SPECIFICATION LiveSpec
CONSTANT
  Users <- SingleAndDouble
INVARIANTS
  ThreadUsesOpenStream
  PausedIsQuiet
  NothingLeftRunning
PROPERTIES
  CallsReturn
  IdleStops
  ReopenIsRetried
