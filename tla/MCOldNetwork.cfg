CONSTANTS
  AddrBits = 3
  NoSubnet = NoSubnet
  None = None
  Malformed = Malformed
  h1 = h1
  h2 = h2
  h3 = h3
  p1 = p1
  p2 = p2
  Host = {h1, h2, h3}
  Handler = {p1, p2}
  Network <- MCNetwork
  SubnetPrefixLength = 2
  OldSubnets <- MCOldSubnets
  PresentedSubnets <- MCPresented
  LeaseExpirationSeconds = 1
  AcquireSubnetLeaseAttempts = 2
  MaxTime = 2
SPECIFICATION Spec
SYMMETRY Symmetry
PROPERTIES AcquiredInNetwork
