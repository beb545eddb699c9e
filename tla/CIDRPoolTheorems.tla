---------------------------- MODULE CIDRPoolTheorems ----------------------------
(***************************************************************************)
(* What the pools of generateBlockPool and generateSingleIPPool are for    *)
(* every width of an address, every network and every prefix length: sets  *)
(* of CIDRs no two of which overlap.                                       *)
(***************************************************************************)
EXTENDS CIDRPool, TLAPS

(* Dividing k * b + i by b, with i below b, gives k: the block an address   *)
(* of a block is in.                                                        *)
LEMMA DivBlock ==
  ASSUME NEW k \in Nat, NEW b \in Nat \ {0}, NEW i \in 0..(b - 1)
  PROVE  (k * b + i) \div b = k
<1> DEFINE a == k * b + i
           d == a \div b
<1>1. a \in Nat /\ k * b \in Nat
  OBVIOUS
<1>2. d \in Int /\ d * b <= a /\ a < d * b + b
  BY <1>1
<1>3. CASE d < k
  <2>1. (d + 1) * b <= k * b
    BY <1>2, <1>3
  <2> QED BY <2>1, <1>1, <1>2
<1>4. CASE d > k
  <2>1. (k + 1) * b <= d * b
    BY <1>2, <1>4
  <2> QED BY <2>1, <1>1, <1>2
<1> QED BY <1>2, <1>3, <1>4

LEMMA DivOne ==
  ASSUME NEW a \in Nat
  PROVE  a \div 1 = a
OBVIOUS

LEMMA ModSmall ==
  ASSUME NEW n \in Nat \ {0}, NEW a \in 0..(n - 1)
  PROVE  a % n = a
OBVIOUS

(* A prefix length leaves at least one address, and the longest exactly one. *)
LEMMA SizePositive ==
  /\ 2^AddrBits \in Nat \ {0}
  /\ Size(AddrBits) = 1
  /\ \A n \in 0..AddrBits : Size(n) \in Nat \ {0}
<1>1. 2^AddrBits \in Nat \ {0}
  BY AddrBitsAssumption, ShiftAssumption
<1>2. Size(AddrBits) = 1
  <2>1. AddrBits - AddrBits = 0
    BY AddrBitsAssumption
  <2> QED BY <2>1, ShiftAssumption DEF Size
<1>3. \A n \in 0..AddrBits : Size(n) \in Nat \ {0}
  <2> TAKE n \in 0..AddrBits
  <2>1. AddrBits - n \in 0..AddrBits
    BY AddrBitsAssumption
  <2> QED BY <2>1, ShiftAssumption DEF Size
<1> QED BY <1>1, <1>2, <1>3

(* A shorter prefix leaves a whole number of times as many addresses as a    *)
(* longer one.                                                               *)
LEMMA SizeDivides ==
  ASSUME NEW n \in 0..AddrBits, NEW p \in n..AddrBits
  PROVE  \E c \in Nat \ {0} : Size(n) = c * Size(p)
<1> DEFINE e == AddrBits - n
           f == AddrBits - p
<1>1. e \in 0..AddrBits /\ f \in 0..AddrBits /\ f <= e /\ e - f \in 0..AddrBits
  BY AddrBitsAssumption
<1>2. 2^e = 2^(e - f) * 2^f
  BY <1>1, ShiftAssumption
<1>3. 2^(e - f) \in Nat \ {0}
  BY <1>1, ShiftAssumption
<1> QED BY <1>2, <1>3 DEF Size

-------------------------------------------------------------------------------
(* A network without host bits that fits in the address space. *)
IsNetwork(ip, n) ==
  /\ n \in 0..AddrBits
  /\ \E q \in Nat : ip = q * Size(n)
  /\ ip + Size(n) <= 2^AddrBits

(* A member of the block pool is a multiple of the block size, past the      *)
(* network's first block.                                                    *)
LEMMA BlockShape ==
  ASSUME NEW ip, NEW n \in 0..AddrBits, NEW p \in n..AddrBits, IsNetwork(ip, n),
         NEW s \in generateBlockPool(ip, n, p)
  PROVE  \E k \in Nat \ {0} : /\ s = [ip |-> ip + k * Size(p), len |-> p]
                              /\ k * Size(p) < Size(n)
                              /\ s \in CIDR
<1>1. Size(n) \in Nat \ {0} /\ Size(p) \in Nat \ {0} /\ 2^AddrBits \in Nat \ {0}
  <2>1. p \in 0..AddrBits
    BY AddrBitsAssumption
  <2> QED BY <2>1, SizePositive
<1>2. ip \in Nat /\ ip + Size(n) <= 2^AddrBits
  BY <1>1 DEF IsNetwork
<1>3. PICK i \in BlockOffsets(Size(n), Size(p)) : s = [ip |-> IPAdd(ip, i), len |-> p]
  BY DEF generateBlockPool
<1>4. PICK k \in 1..Size(n) : i = k * Size(p) /\ i < Size(n)
  BY <1>3 DEF BlockOffsets
<1>5. k \in Nat \ {0} /\ i \in Nat
  BY <1>1, <1>4
<1>6. ip + i \in 0..(2^AddrBits - 1)
  BY <1>1, <1>2, <1>4, <1>5
<1>7. IPAdd(ip, i) = ip + i
  BY <1>1, <1>6, ModSmall DEF IPAdd
<1>8. s \in CIDR
  BY <1>3, <1>6, <1>7, AddrBitsAssumption DEF CIDR, Address
<1> QED BY <1>3, <1>4, <1>5, <1>7, <1>8

(* A member of the single-address pool is an address of the network's first  *)
(* block, other than the network's own.                                      *)
LEMMA SingleShape ==
  ASSUME NEW ip, NEW n \in 0..AddrBits, NEW p \in n..AddrBits, IsNetwork(ip, n),
         NEW s \in generateSingleIPPool(ip, p)
  PROVE  \E i \in 1..(Size(p) - 1) : /\ s = [ip |-> ip + i, len |-> AddrBits]
                                     /\ s \in CIDR
<1>1. Size(n) \in Nat \ {0} /\ Size(p) \in Nat \ {0} /\ 2^AddrBits \in Nat \ {0}
  <2>1. p \in 0..AddrBits
    BY AddrBitsAssumption
  <2> QED BY <2>1, SizePositive
<1>2. ip \in Nat /\ ip + Size(n) <= 2^AddrBits
  BY <1>1 DEF IsNetwork
<1>3. Size(p) <= Size(n)
  <2>1. PICK c \in Nat \ {0} : Size(n) = c * Size(p)
    BY SizeDivides
  <2>2. c * Size(p) = Size(p) + (c - 1) * Size(p) /\ (c - 1) * Size(p) >= 0
    BY <1>1
  <2> QED BY <1>1, <2>1, <2>2
<1>4. PICK i \in 1..(Size(p) - 1) : s = [ip |-> IPAdd(ip, i), len |-> AddrBits]
  BY DEF generateSingleIPPool
<1>5. ip + i \in 0..(2^AddrBits - 1)
  BY <1>1, <1>2, <1>3, <1>4
<1>6. IPAdd(ip, i) = ip + i
  BY <1>1, <1>5, ModSmall DEF IPAdd
<1>7. s \in CIDR
  BY <1>4, <1>5, <1>6, AddrBitsAssumption DEF CIDR, Address
<1> QED BY <1>4, <1>6, <1>7

(* Every subnet of the two pools is a CIDR. *)
THEOREM PoolsAreCIDRs ==
  ASSUME NEW ip, NEW n \in 0..AddrBits, NEW p \in n..AddrBits, IsNetwork(ip, n)
  PROVE  generateBlockPool(ip, n, p) \cup generateSingleIPPool(ip, p) \subseteq CIDR
BY BlockShape, SingleShape

(* The index of the block of size Size(p) an address of a pool member is in: *)
(* the blocks have pairwise different indices, and no block has that of the  *)
(* single addresses.                                                         *)
THEOREM PoolsAreDisjoint ==
  ASSUME NEW ip, NEW n \in 0..AddrBits, NEW p \in n..AddrBits, IsNetwork(ip, n),
         NEW s \in generateBlockPool(ip, n, p) \cup generateSingleIPPool(ip, p),
         NEW t \in generateBlockPool(ip, n, p) \cup generateSingleIPPool(ip, p),
         s # t
  PROVE  ~ Overlap(s, t)
<1> DEFINE B == Size(p)
<1>1. B \in Nat \ {0} /\ Size(AddrBits) = 1 /\ 2^AddrBits \in Nat \ {0}
  <2>1. p \in 0..AddrBits
    BY AddrBitsAssumption
  <2> QED BY <2>1, SizePositive
<1>2. PICK m \in Nat : ip = m * B
  <2>1. PICK q \in Nat : ip = q * Size(n)
    BY DEF IsNetwork
  <2>2. PICK c \in Nat \ {0} : Size(n) = c * B
    BY SizeDivides
  <2>3. q * (c * B) = (q * c) * B /\ q * c \in Nat
    BY <1>1
  <2> QED BY <2>1, <2>2, <2>3
<1> HIDE DEF B
<1>3. ASSUME NEW x \in generateBlockPool(ip, n, p), NEW a \in Address, Contains(x, a)
      PROVE  \E k \in Nat \ {0} : /\ x = [ip |-> ip + k * B, len |-> p]
                                  /\ a \div B = m + k
  <2>1. PICK k \in Nat \ {0} : x = [ip |-> ip + k * B, len |-> p]
    BY BlockShape DEF B
  <2>2. a \div B = (ip + k * B) \div B
    BY <1>3, <2>1 DEF Contains, B
  <2>3. ip + k * B = (m + k) * B + 0
    BY <1>1, <1>2
  <2>4. m + k \in Nat /\ 0 \in 0..(B - 1)
    BY <1>1
  <2>5. (ip + k * B) \div B = m + k
    BY <1>1, <2>3, <2>4, DivBlock
  <2> QED BY <2>1, <2>2, <2>5
<1>4. ASSUME NEW x \in generateSingleIPPool(ip, p), NEW a \in Address, Contains(x, a)
      PROVE  x = [ip |-> a, len |-> AddrBits] /\ a \div B = m
  <2>1. PICK i \in 1..(B - 1) : x = [ip |-> ip + i, len |-> AddrBits]
    BY SingleShape DEF B
  <2>2. a \in Nat /\ ip + i \in Nat
    BY <1>1, <1>2, <2>1 DEF Address
  <2>3. a \div 1 = (ip + i) \div 1
    BY <1>1, <1>4, <2>1 DEF Contains
  <2>4. a = ip + i
    BY <2>2, <2>3, DivOne
  <2>5. i \in 0..(B - 1)
    BY <1>1
  <2>6. a \div B = m
    BY <1>1, <1>2, <2>4, <2>5, DivBlock
  <2> QED BY <2>1, <2>4, <2>6
<1> SUFFICES ASSUME NEW a \in Address, Contains(s, a), Contains(t, a) PROVE FALSE
  BY DEF Overlap
<1>5. a \div B \in Int
  BY <1>1 DEF Address
<1>6. CASE s \in generateBlockPool(ip, n, p) /\ t \in generateBlockPool(ip, n, p)
  <2>1. PICK k \in Nat \ {0} : s = [ip |-> ip + k * B, len |-> p] /\ a \div B = m + k
    BY <1>3, <1>6
  <2>2. PICK j \in Nat \ {0} : t = [ip |-> ip + j * B, len |-> p] /\ a \div B = m + j
    BY <1>3, <1>6
  <2>3. k = j
    BY <2>1, <2>2
  <2> QED BY <2>1, <2>2, <2>3
<1>7. CASE s \in generateBlockPool(ip, n, p) /\ t \in generateSingleIPPool(ip, p)
  BY <1>3, <1>4, <1>7
<1>8. CASE s \in generateSingleIPPool(ip, p) /\ t \in generateBlockPool(ip, n, p)
  BY <1>3, <1>4, <1>8
<1>9. CASE s \in generateSingleIPPool(ip, p) /\ t \in generateSingleIPPool(ip, p)
  BY <1>4, <1>9
<1> QED BY <1>6, <1>7, <1>8, <1>9

(* A single address given the prefix length of a block is the network's     *)
(* first block, which generateBlockPool leaves out: it overlaps no block.   *)
THEOREM FirstBlockApart ==
  ASSUME NEW ip, NEW n \in 0..AddrBits, NEW p \in n..AddrBits, IsNetwork(ip, n),
         NEW s \in generateBlockPool(ip, n, p), NEW t \in generateSingleIPPool(ip, p)
  PROVE  ~ Overlap(s, [ip |-> t.ip, len |-> p])
<1>1. s.len = p /\ s \in CIDR
  BY BlockShape
<1>2. PICK i \in 1..(Size(p) - 1) : t = [ip |-> ip + i, len |-> AddrBits] /\ t \in CIDR
  BY SingleShape
<1>3. s # t
  <2> SUFFICES ASSUME s = t PROVE FALSE
    OBVIOUS
  <2>1. p = AddrBits
    BY <1>1, <1>2
  <2> QED BY <1>2, <2>1, SizePositive
<1>4. t.ip \in Address
  BY <1>2 DEF CIDR
<1>5. ASSUME NEW a \in Address, Contains(s, a), Contains([ip |-> t.ip, len |-> p], a)
      PROVE  Contains(s, t.ip)
  BY <1>1, <1>5 DEF Contains
<1>6. Contains(t, t.ip)
  BY DEF Contains
<1>7. ~ Overlap(s, t)
  BY <1>3, PoolsAreDisjoint
<1> QED BY <1>4, <1>5, <1>6, <1>7 DEF Overlap

(* A CIDR without host bits lies in the address space as a whole. *)
LEMMA NetworkFits ==
  ASSUME NEW c \in CIDR, NEW q \in Nat, c.ip = q * Size(c.len)
  PROVE  IsNetwork(c.ip, c.len)
<1> DEFINE S == Size(c.len)
<1>1. c.len \in 0..AddrBits /\ c.ip \in Nat /\ c.ip < 2^AddrBits
  BY SizePositive DEF CIDR, Address
<1>2. S \in Nat \ {0}
  BY <1>1, SizePositive
<1>3. PICK d \in Nat \ {0} : 2^AddrBits = d * S
  <2>1. 0 \in 0..AddrBits /\ c.len \in 0..AddrBits
    BY <1>1, AddrBitsAssumption
  <2>2. Size(0) = 2^AddrBits
    BY AddrBitsAssumption DEF Size
  <2> QED BY <2>1, <2>2, SizeDivides
<1> HIDE DEF S
<1>4. q * S < d * S
  BY <1>1, <1>3 DEF S
<1>5. q < d
  <2> SUFFICES ASSUME d <= q PROVE FALSE
    OBVIOUS
  <2>1. d * S <= q * S
    BY <1>2
  <2> QED BY <1>2, <1>4, <2>1
<1>6. (q + 1) * S <= d * S /\ (q + 1) * S = q * S + S
  BY <1>2, <1>5
<1>7. c.ip + S <= 2^AddrBits
  BY <1>3, <1>6 DEF S
<1> QED BY <1>1, <1>7 DEF IsNetwork, S

(* The two pools together cover the network but for its own address, and    *)
(* nothing else: an address is in a member of generateBlockPool or          *)
(* generateSingleIPPool exactly when it is in the network and not its first. *)
THEOREM PoolsCoverNetwork ==
  ASSUME NEW ip, NEW n \in 0..AddrBits, NEW p \in n..AddrBits, IsNetwork(ip, n),
         NEW a \in Address
  PROVE  (\E s \in generateBlockPool(ip, n, p) \cup generateSingleIPPool(ip, p) : Contains(s, a))
           <=> (Contains([ip |-> ip, len |-> n], a) /\ a # ip)
<1> DEFINE B == Size(p)
           N == Size(n)
           W == 2^AddrBits
<1>1. B \in Nat \ {0} /\ N \in Nat \ {0} /\ W \in Nat \ {0} /\ Size(AddrBits) = 1
  <2>1. p \in 0..AddrBits
    BY AddrBitsAssumption
  <2> QED BY <2>1, SizePositive
<1>2. PICK c \in Nat \ {0} : N = c * B
  BY SizeDivides
<1>3. PICK q \in Nat : ip = q * N
  BY DEF IsNetwork
<1>4. ip \in Nat /\ ip + N <= W /\ a \in Nat /\ a < W
  BY <1>1, <1>3 DEF IsNetwork, Address
<1> HIDE DEF B, N, W
<1>5. ASSUME ip <= a, a < ip + N PROVE Contains([ip |-> ip, len |-> n], a)
  <2>1. a - ip \in 0..(N - 1) /\ a = q * N + (a - ip) /\ 0 \in 0..(N - 1) /\ ip = q * N + 0
    BY <1>1, <1>3, <1>4, <1>5
  <2>2. a \div N = q /\ ip \div N = q
    BY <1>1, <2>1, DivBlock
  <2> QED BY <2>2 DEF Contains, N
<1>6. ASSUME NEW s \in generateBlockPool(ip, n, p), Contains(s, a)
      PROVE  Contains([ip |-> ip, len |-> n], a) /\ a # ip
  <2>1. PICK k \in Nat \ {0} : s = [ip |-> ip + k * B, len |-> p] /\ k * B < N
    BY BlockShape DEF B, N
  <2>2. a \div B = q * c + k
    <3>1. ip + k * B = (q * c + k) * B + 0 /\ q * c + k \in Nat /\ 0 \in 0..(B - 1)
      BY <1>1, <1>2, <1>3
    <3>2. (ip + k * B) \div B = q * c + k
      BY <1>1, <3>1, DivBlock
    <3> QED BY <1>6, <2>1, <3>2 DEF Contains, B
  <2>3. (q * c + k) * B <= a /\ a < (q * c + k) * B + B
    BY <1>1, <1>4, <2>2
  <2>4. (q * c + k) * B = ip + k * B
    BY <1>1, <1>2, <1>3
  <2>5. k * B + B <= N
    <3>1. k < c
      <4> SUFFICES ASSUME c <= k PROVE FALSE
        OBVIOUS
      <4>1. c * B <= k * B
        BY <1>1
      <4> QED BY <1>1, <1>2, <2>1, <4>1
    <3>2. (k + 1) * B <= c * B /\ (k + 1) * B = k * B + B
      BY <1>1, <3>1
    <3> QED BY <1>2, <3>2
  <2>6. k * B > 0
    BY <1>1
  <2>7. ip < a /\ a < ip + N
    BY <1>1, <1>4, <2>3, <2>4, <2>5, <2>6
  <2> QED BY <1>4, <1>5, <2>7
<1>7. ASSUME NEW s \in generateSingleIPPool(ip, p), Contains(s, a)
      PROVE  Contains([ip |-> ip, len |-> n], a) /\ a # ip
  <2>1. PICK i \in 1..(B - 1) : s = [ip |-> ip + i, len |-> AddrBits]
    BY SingleShape DEF B
  <2>2. a = ip + i
    BY <1>1, <1>4, <1>7, <2>1, DivOne DEF Contains
  <2>3. B <= N
    <3>1. c * B = B + (c - 1) * B /\ (c - 1) * B >= 0
      BY <1>1
    <3> QED BY <1>1, <1>2, <3>1
  <2>4. ip < a /\ a < ip + N
    BY <1>1, <1>4, <2>1, <2>2, <2>3
  <2> QED BY <1>4, <1>5, <2>4
<1>8. ASSUME Contains([ip |-> ip, len |-> n], a), a # ip
      PROVE  \E s \in generateBlockPool(ip, n, p) \cup generateSingleIPPool(ip, p) : Contains(s, a)
  <2> DEFINE r == a - ip
             k == r \div B
             j == r - k * B
  <2>1. r \in 1..(N - 1) /\ a = ip + r
    <3>1. 0 \in 0..(N - 1) /\ ip = q * N + 0
      BY <1>1, <1>3
    <3>2. ip \div N = q
      BY <1>1, <3>1, DivBlock
    <3>3. a \div N = q
      BY <1>8, <3>2 DEF Contains, N
    <3>4. q * N <= a /\ a < q * N + N
      BY <1>1, <1>4, <3>3
    <3> QED BY <1>1, <1>3, <1>4, <1>8, <3>4
  <2> HIDE DEF r
  <2>2. k \in Nat /\ k * B <= r /\ r < k * B + B
    BY <1>1, <2>1
  <2>3. CASE k = 0
    <3>1. r \in 1..(B - 1)
      BY <1>1, <2>1, <2>2, <2>3
    <3>2. IPAdd(ip, r) = a
      BY <1>1, <1>4, <2>1, ModSmall DEF IPAdd, W
    <3>3. [ip |-> a, len |-> AddrBits] \in generateSingleIPPool(ip, p)
      BY <3>1, <3>2 DEF generateSingleIPPool, B
    <3>4. Contains([ip |-> a, len |-> AddrBits], a)
      BY DEF Contains
    <3> QED BY <3>3, <3>4
  <2>4. CASE k # 0
    <3> DEFINE t == [ip |-> ip + k * B, len |-> p]
    <3>1. k \in Nat \ {0} /\ k * B \in Nat /\ k * B < N
      BY <1>1, <2>1, <2>2, <2>4
    <3>2. k \in 1..N
      <4>1. k * B = k + k * (B - 1) /\ k * (B - 1) >= 0
        BY <1>1, <3>1
      <4> QED BY <1>1, <3>1, <4>1
    <3>3. IPAdd(ip, k * B) = ip + k * B
      <4>1. ip + k * B \in 0..(W - 1)
        BY <1>1, <1>4, <3>1
      <4> QED BY <1>1, <4>1, ModSmall DEF IPAdd, W
    <3>4. t \in generateBlockPool(ip, n, p)
      <4>1. k * B \in BlockOffsets(N, B)
        BY <3>1, <3>2 DEF BlockOffsets
      <4> QED BY <3>3, <4>1 DEF generateBlockPool, N, B
    <3>5. Contains(t, a)
      <4>1. ip + k * B = (q * c + k) * B + 0 /\ a = (q * c + k) * B + j /\ q * c + k \in Nat
        BY <1>1, <1>2, <1>3, <2>1, <2>2
      <4>2. j \in 0..(B - 1) /\ 0 \in 0..(B - 1)
        BY <1>1, <2>1, <2>2
      <4>3. (ip + k * B) \div B = q * c + k /\ a \div B = q * c + k
        BY <1>1, <4>1, <4>2, DivBlock
      <4> QED BY <4>3 DEF Contains, B
    <3> QED BY <3>4, <3>5
  <2> QED BY <2>3, <2>4
<1> QED BY <1>6, <1>7, <1>8
=================================================================================
