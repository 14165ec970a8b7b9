CHECK_DEADLOCK FALSE
CONSTANTS
  a = a
  b = b
  c = c
  Clients <- TwoClients
  AddressOf <- OwnAddresses
  MaxConnections = 3
  MaxFailures = 1
  MaxRequests = 1
SPECIFICATION FairSpec
PROPERTIES
  DeadControllerReplaced
  ClientReconnects
