------------------------------ MODULE MCCIDRPool ------------------------------
(***************************************************************************)
(* Every network of a small address space, cut with every prefix length    *)
(* into its two pools, and a client that takes subnets from the pools and  *)
(* gives them back in any order.                                           *)
(***************************************************************************)
EXTENDS CIDRPool, FiniteSets

CONSTANT MaxPool        \* only networks whose pools have at most this many members

VARIABLES
  network,              \* the overlay network, a CIDR with no host bits
  prefix,               \* subnet_prefix_length
  taken                 \* the subnets handed out and not given back

vars == <<network, prefix, taken>>

blockPool  == generateBlockPool(network.ip, network.len, prefix)
singlePool == generateSingleIPPool(network.ip, prefix)

Init ==
  /\ network \in {c \in CIDR : c.ip % Size(c.len) = 0}
  /\ prefix \in 1..AddrBits
  /\ taken = {}
  /\ Cardinality(blockPool \cup singlePool) \in 1..MaxPool

Take(pool) ==
  /\ \E s \in getAvailable(taken, pool) :
       taken' = IF s = NoSubnet THEN taken ELSE taken \cup {s}
  /\ UNCHANGED <<network, prefix>>

GiveBack ==
  /\ \E s \in taken : taken' = taken \ {s}
  /\ UNCHANGED <<network, prefix>>

Next == Take(blockPool) \/ Take(singlePool) \/ GiveBack

Spec == Init /\ [][Next]_vars

-------------------------------------------------------------------------------
(* What the pools hand out is always an address of the address width with  *)
(* a prefix length: the arithmetic of netaddr.IPAdd never leaves it.       *)
TypeOK ==
  /\ network \in CIDR
  /\ prefix \in 1..AddrBits
  /\ taken \subseteq CIDR

(* The prefix length cuts the network: the configurations the pools are    *)
(* meant for (a prefix shorter than the network's leaves no block at all). *)
Cuts == network.len <= prefix

(* The blocks and the single addresses of generateBlockPool and            *)
(* generateSingleIPPool together tile the overlay network: every address   *)
(* but the network's first is in exactly one member of the two pools, and  *)
(* no address outside the network is in any.                               *)
PoolsTileNetwork ==
  Cuts => \A a \in Address :
            Cardinality({s \in blockPool \cup singlePool : Contains(s, a)})
              = IF Contains(network, a) /\ a # network.ip THEN 1 ELSE 0

(* Whatever was taken and given back, GetAvailableBlock and                *)
(* GetAvailableSingleIP never hand out a subnet that overlaps one still    *)
(* out, be it of the same pool or of the other one.                        *)
HandedOutDisjoint ==
  [][Cuts => \A s \in taken' \ taken : \A t \in taken : ~ Overlap(s, t)]_vars
===============================================================================
