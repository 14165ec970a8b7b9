CHECK_DEADLOCK FALSE
CONSTANTS
  a = a
  b = b
  c = c
  Clients <- ThreeClients
  AddressOf <- OwnAddresses
  MaxConnections = 3
  MaxFailures = 1
  MaxRequests = 2
SPECIFICATION Spec
INVARIANTS
  TypeOK
  SomeoneControls
  RoleAgreement
PROPERTY ImplementsControl
SYMMETRY Symmetry
