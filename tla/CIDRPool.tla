------------------------------- MODULE CIDRPool -------------------------------
(***************************************************************************)
(* The address arithmetic of the silk-controller: CIDRs, the pool of host  *)
(* blocks and the pool of single addresses cut from the overlay network    *)
(* (controller/leaser/cidrpool.go).  An address is a number of AddrBits    *)
(* bits (32 in the code); a CIDR keeps the address and the prefix length   *)
(* it is printed with, so that equal records are equal strings.            *)
(***************************************************************************)
EXTENDS Integers

CONSTANTS
  AddrBits,            \* bits of an address: 32 in the code
  NoSubnet             \* the empty string, "no subnet"

ASSUME AddrBitsAssumption == AddrBits \in Nat \ {0}

(* Facts about 1 << n that the proofs use and TLC evaluates. *)
ASSUME ShiftAssumption ==
  /\ 2^0 = 1
  /\ \A n \in 0..AddrBits : 2^n \in Nat \ {0}
  /\ \A m, n \in 0..AddrBits : m <= n => 2^n = 2^(n - m) * 2^m

Address == 0 .. (2^AddrBits - 1)

CIDR == [ip : Address, len : 0..AddrBits]

(* How many addresses a prefix length leaves: 1 << (32 - mask). *)
Size(len) == 2^(AddrBits - len)

(* net.IPNet.Contains: the address and the network agree on the masked bits. *)
Contains(c, a) == a \div Size(c.len) = c.ip \div Size(c.len)

Overlap(c, d) == \E a \in Address : Contains(c, a) /\ Contains(d, a)

(* The definitions named for a mistake (Unwrapped, FromZero, ...) vary the  *)
(* one that follows them; the properties are shown to tell them apart.      *)
IPAddUnwrapped(ip, n) == ip + n

(* netaddr.IPAdd, with the wrap-around of the address width. *)
IPAdd(ip, n) == (ip + n) % 2^AddrBits

(* The loop of generateBlockPool: i = blockSize; i < fullRange; i += blockSize. *)
BlockOffsets(fullRange, blockSize) ==
  {i \in {k * blockSize : k \in 1..fullRange} : i < fullRange}

BlockOffsetsFromZero(fullRange, blockSize) ==
  {i \in {k * blockSize : k \in 0..fullRange} : i < fullRange}

generateBlockPoolFromZero(ipStart, cidrMask, cidrMaskBlock) ==
  {[ip |-> IPAdd(ipStart, i), len |-> cidrMaskBlock] :
     i \in BlockOffsetsFromZero(Size(cidrMask), Size(cidrMaskBlock))}

generateBlockPool(ipStart, cidrMask, cidrMaskBlock) ==
  {[ip |-> IPAdd(ipStart, i), len |-> cidrMaskBlock] :
     i \in BlockOffsets(Size(cidrMask), Size(cidrMaskBlock))}

generateSingleIPPoolWholeNetwork(ipStart, cidrMaskBlock) ==
  {[ip |-> IPAdd(ipStart, i), len |-> AddrBits] : i \in 1..Size(cidrMaskBlock)}

generateSingleIPPool(ipStart, cidrMaskBlock) ==
  {[ip |-> IPAdd(ipStart, i), len |-> AddrBits] : i \in 1..(Size(cidrMaskBlock) - 1)}

(* Every subnet a random choice may return; NoSubnet alone when none is left. *)
getAvailable(taken, pool) ==
  IF pool \ taken = {} THEN {NoSubnet} ELSE pool \ taken

IsMember(subnet, blockPool, singlePool) ==
  subnet \in blockPool \/ subnet \in singlePool

===============================================================================
