CONSTANTS
  Devices <- SomeDevices
  Table <- SomeTable
  Addrs <- SomeAddrs
  Loaders <- SomeLoaders
  MaxAttempts = 3
  None = None
SPECIFICATION Spec
INVARIANTS ConnectedAtVector LeftRunning KnowsTheTarget
PROPERTY CallEnds
