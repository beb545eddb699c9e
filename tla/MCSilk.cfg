CONSTANTS
  AddrBits = 3
  NoSubnet = NoSubnet
  None = None
  Network <- MCNetwork
  SubnetPrefixLength = 2
  LeaseExpirationSeconds = 5
  PollInterval = 1
  PartitionToleranceSeconds = 2
  ClientTimeoutSeconds = 1
  MaxTime = 6
  MaxCrashes = 1
  MaxFailures = 2
SPECIFICATION Spec
INVARIANTS TypeOK UniqueRanges ServedStaysLeased
PROPERTIES ImplementsRegistry
