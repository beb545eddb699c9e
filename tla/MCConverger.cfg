CONSTANTS
  AddrBits = 4
  NoSubnet = NoSubnet
  None = None
  h1 = h1
  h2 = h2
  Host = {h1, h2}
  OverlayNetwork <- MCOverlayNetwork
  LocalSubnet <- MCLocalSubnet
  LeasedSubnets <- MCLeasedSubnets
  MaxChanges = 2
  MaxFailures = 1
  MaxUnresolved = 1
SPECIFICATION Spec
INVARIANTS TypeOK ConnectedRouteStays
PROPERTIES NeverBreaksWorkingPath SuccessMeansConverged EventuallyConverged
