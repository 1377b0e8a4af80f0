SPECIFICATION LiveSpec
CONSTANTS
  a = a
  b = b
  Nobody = Nobody
  Clients <- OneClient
  Early <- NoClient
  MaxMessages = 1
  MaxCalls = 2
PROPERTY
  BroadcastsReturn
CHECK_DEADLOCK FALSE
