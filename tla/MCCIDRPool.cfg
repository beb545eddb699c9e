CONSTANTS
  AddrBits = 4
  MaxPool = 8
  NoSubnet = NoSubnet
SPECIFICATION Spec
INVARIANTS TypeOK PoolsTileNetwork
PROPERTIES HandedOutDisjoint
