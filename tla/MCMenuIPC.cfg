SPECIFICATION LiveSpec
CONSTANTS
  a = a
  b = b
  Nobody = Nobody
  Clients <- TwoClients
  Early <- OneClient
  MaxMessages = 1
  MaxCalls = 1
INVARIANTS
  RowsAreOfTheirConnections
  IdlePipesNotOvercounted
PROPERTY
  ClientsAreAttended
CHECK_DEADLOCK FALSE
