CONSTANTS
  AddrBits = 3
  NoSubnet = NoSubnet
  None = None
  c1 = c1
  c2 = c2
  Network <- MCNetwork
  SubnetPrefixLength = 2
  SingleIPOnly = FALSE
  OldSubnets <- MCOldSubnets
  Container = {c1}
  LeaseExpirationSeconds = 5
  PollInterval = 1
  PartitionToleranceSeconds = 2
  ClientTimeoutSeconds = 1
  MaxTime = 8
  MaxCrashes = 1
  MaxFailures = 4
SPECIFICATION Spec
PROPERTY ContainersKeepVTEP
