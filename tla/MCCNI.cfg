SPECIFICATION Spec
CONSTANTS
  c1 = c1
  c2 = c2
  Daemon = Daemon
  Host = Host
  None = None
  Torn = Torn
  Other = Other
  HostAddress = HostAddress
  Container <- MCContainer
  Handle <- MCContainer
  Proc <- MCProc
  Address <- MCAddress
  MaxFailures = 1
  MaxCalls <- MCMaxCalls
INVARIANTS TypeOK AddedIsWired AddedIsStored UniqueAddresses DeletedIsGone FreeAddressIsUsable
PROPERTIES ImplementsPromise EveryCallReturns
