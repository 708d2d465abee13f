SPECIFICATION Spec
CONSTANTS
  h1 = h1
  h2 = h2
  h3 = h3
  h4 = h4
  h5 = h5
  t1 = t1
  t2 = t2
  None = None
  Handlers  <- FiveHandlers
  Transfers <- TwoTransfers
  MaxDevices = 2
  MaxGrants = 2
SYMMETRY Symmetry
INVARIANTS
  TypeOK
  OneChain
  SignedByAuthorized
  SomeDeviceLeft
  DeviceLimit
  OneDevicePerGrant
  RowsMatchLog
PROPERTIES
  AppendOnly
  ImplementsRegistry
CHECK_DEADLOCK FALSE
