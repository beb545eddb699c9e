--------------------------- MODULE PoolClientTheorems ---------------------------
(***************************************************************************)
(* The pools and their client for every width of an address, every network *)
(* and every prefix length, with FiniteSets' cardinality.                   *)
(***************************************************************************)
EXTENDS MCCIDRPool, CIDRPoolTheorems, FiniteSetTheorems

LEMMA DivMod ==
  ASSUME NEW a \in Nat, NEW b \in Nat \ {0}, a % b = 0
  PROVE  a \div b \in Nat /\ a = (a \div b) * b
<1>1. a = (a \div b) * b + (a % b)
  OBVIOUS
<1> QED BY <1>1

(* The address of a network without host bits is a multiple of its size. *)
LEMMA NoHostBits ==
  ASSUME NEW c \in CIDR, c.ip % Size(c.len) = 0
  PROVE  IsNetwork(c.ip, c.len)
<1> DEFINE S == Size(c.len)
           q == c.ip \div S
<1>1. c.ip \in Nat /\ S \in Nat \ {0}
  BY SizePositive DEF CIDR, Address
<1> HIDE DEF S
<1>2. c.ip % S = 0
  BY DEF S
<1>3. q \in Nat /\ c.ip = q * S
  BY <1>1, <1>2, DivMod
<1> HIDE DEF q
<1> QED BY <1>3, NetworkFits DEF S

Pools == blockPool \cup singlePool

(* Whatever network and prefix length it starts with, the client has taken  *)
(* members of the two pools only.                                           *)
PInv ==
  /\ network \in CIDR /\ IsNetwork(network.ip, network.len)
  /\ prefix \in 1..AddrBits
  /\ taken \subseteq Pools

LEMMA PoolMembers ==
  ASSUME network \in CIDR, prefix \in 1..AddrBits
  PROVE  Pools \subseteq CIDR
<1>1. 2^AddrBits \in Nat \ {0} /\ network.ip \in Nat /\ network.len \in 0..AddrBits
  BY SizePositive DEF CIDR, Address
<1>2. \A i \in Nat : IPAdd(network.ip, i) \in Address
  BY <1>1 DEF IPAdd, Address
<1>3. Size(network.len) \in Nat /\ Size(prefix) \in Nat
  BY <1>1, SizePositive, AddrBitsAssumption
<1>4. BlockOffsets(Size(network.len), Size(prefix)) \subseteq Nat /\ 1..(Size(prefix) - 1) \subseteq Nat
  BY <1>3 DEF BlockOffsets
<1> QED BY <1>2, <1>4, AddrBitsAssumption
        DEF Pools, blockPool, singlePool, generateBlockPool, generateSingleIPPool, CIDR

LEMMA PoolsKept == UNCHANGED <<network, prefix>> => blockPool' = blockPool /\ singlePool' = singlePool
BY DEF blockPool, singlePool

(* What a step hands out is a member of a pool that was not out. *)
LEMMA TakenFromPools ==
  ASSUME PInv, [Next]_vars
  PROVE  /\ UNCHANGED <<network, prefix>>
         /\ \A s \in taken' \ taken : s \in Pools
<1>1. ASSUME NEW pool \in {blockPool, singlePool}, Take(pool)
      PROVE  UNCHANGED <<network, prefix>> /\ \A s \in taken' \ taken : s \in Pools
  BY <1>1 DEF Take, getAvailable, Pools
<1>2. CASE GiveBack
  BY <1>2 DEF GiveBack
<1>3. CASE UNCHANGED vars
  BY <1>3 DEF vars
<1> QED BY <1>1, <1>2, <1>3 DEF Next

LEMMA PInvariance == Spec => []PInv
<1>1. Init => PInv
  BY NoHostBits DEF Init, PInv
<1>2. PInv /\ [Next]_vars => PInv'
  <2> SUFFICES ASSUME PInv, [Next]_vars PROVE PInv'
    OBVIOUS
  <2>1. UNCHANGED <<network, prefix>> /\ taken' \subseteq Pools
    BY TakenFromPools DEF PInv
  <2>2. Pools' = Pools
    BY <2>1, PoolsKept DEF Pools
  <2> QED BY <2>1, <2>2 DEF PInv
<1> QED BY <1>1, <1>2, PTL DEF Spec

-------------------------------------------------------------------------------
(* What generateBlockPool and generateSingleIPPool hand out is always an    *)
(* address of the address width with a prefix length, even when the prefix  *)
(* length does not cut the network.                                         *)
THEOREM PoolTypeCorrect == Spec => []TypeOK
<1>1. PInv => TypeOK
  BY PoolMembers DEF PInv, TypeOK
<1> QED BY PInvariance, <1>1, PTL

LEMMA MembersApart ==
  ASSUME PInv, Cuts, NEW s \in Pools, NEW t \in Pools, s # t
  PROVE  ~ Overlap(s, t)
<1>1. network.len \in 0..AddrBits /\ prefix \in network.len..AddrBits
  BY AddrBitsAssumption DEF PInv, Cuts, CIDR
<1> QED BY <1>1, PoolsAreDisjoint DEF PInv, Pools, blockPool, singlePool

(* The pools tile every overlay network that the prefix length cuts: each   *)
(* address but the network's own is in exactly one member of                *)
(* generateBlockPool and generateSingleIPPool, and no other address in any. *)
THEOREM PoolsTile == Spec => []PoolsTileNetwork
<1>1. PInv => PoolsTileNetwork
  <2> SUFFICES ASSUME PInv, Cuts, NEW a \in Address
               PROVE  Cardinality({s \in Pools : Contains(s, a)})
                        = IF Contains(network, a) /\ a # network.ip THEN 1 ELSE 0
    BY DEF PoolsTileNetwork, Pools
  <2> DEFINE M == {s \in Pools : Contains(s, a)}
  <2>1. network.len \in 0..AddrBits /\ prefix \in network.len..AddrBits
    BY AddrBitsAssumption DEF PInv, Cuts, CIDR
  <2>2. (\E s \in Pools : Contains(s, a)) <=> (Contains(network, a) /\ a # network.ip)
    <3>1. (\E s \in Pools : Contains(s, a))
             <=> (Contains([ip |-> network.ip, len |-> network.len], a) /\ a # network.ip)
      BY <2>1, PoolsCoverNetwork DEF PInv, Pools, blockPool, singlePool
    <3> QED BY <3>1 DEF Contains
  <2>3. \A s, t \in M : s = t
    BY MembersApart DEF Overlap
  <2>4. CASE Contains(network, a) /\ a # network.ip
    <3>1. PICK s \in Pools : Contains(s, a)
      BY <2>2, <2>4
    <3>2. M = {s}
      BY <2>3, <3>1
    <3> QED BY <2>4, <3>2, FS_Singleton
  <2>5. CASE ~ (Contains(network, a) /\ a # network.ip)
    <3>1. M = {}
      BY <2>2, <2>5
    <3> QED BY <2>5, <3>1, FS_EmptySet
  <2> QED BY <2>4, <2>5
<1> QED BY PInvariance, <1>1, PTL

(* GetAvailableBlock and GetAvailableSingleIP never hand out a subnet that  *)
(* overlaps one still out, of either pool, in whatever order subnets are    *)
(* taken and given back.                                                    *)
THEOREM HandsOutDisjoint == Spec => HandedOutDisjoint
<1>1. PInv /\ [Next]_vars =>
        [Cuts => \A s \in taken' \ taken : \A t \in taken : ~ Overlap(s, t)]_vars
  <2> SUFFICES ASSUME PInv, [Next]_vars, Cuts,
                      NEW s \in taken' \ taken, NEW t \in taken
               PROVE  ~ Overlap(s, t)
    OBVIOUS
  <2>1. s \in Pools /\ t \in Pools /\ s # t
    BY TakenFromPools DEF PInv
  <2> QED BY <2>1, MembersApart
<1> QED BY PInvariance, <1>1, PTL DEF Spec, HandedOutDisjoint
=================================================================================
