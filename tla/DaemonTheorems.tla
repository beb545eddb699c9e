------------------------------ MODULE DaemonTheorems ------------------------------
(***************************************************************************)
(* The daemon, for every network, every timing that meets TimingAssumption, *)
(* and any number of crashes, failures and containers: its types, the match *)
(* of what it serves with the VTEP, the lease behind what it serves, and    *)
(* the containers it takes into account before it deletes the VTEP.         *)
(***************************************************************************)
EXTENDS Daemon, CIDRPoolTheorems

Serving == {"poll", "list", "sleep"}

(* What the process relies on at each label: while it serves, and before it *)
(* renews or asks for the state of the VTEP, the link has its lease's       *)
(* address; nobody tears down beside a running process.                     *)
LabelsInv ==
  /\ served # None <=> pc \in Serving
  /\ renewed => pc \in Serving
  /\ tearing => pc = "down"
  /\ pc \in {"renew", "info"} \cup Serving => vtep # None /\ vtep.ip = lease.ip
  /\ pc = "addr" => vtep # None
  /\ pc = "acquire" /\ call = "ok" => offer # None

DInv == TypeOK /\ LabelsInv

-------------------------------------------------------------------------------
LEMMA WrapsIntoAddress ==
  ASSUME NEW i \in Nat, NEW ip \in Nat
  PROVE  IPAdd(ip, i) \in Address
<1>1. 2^AddrBits \in Nat \ {0}
  BY SizePositive
<1> DEFINE N == 2^AddrBits
<1>2. ASSUME NEW m \in Nat \ {0}, NEW x \in Nat
      PROVE  x % m \in Int /\ 0 <= x % m /\ x % m < m
  OBVIOUS
<1>3. (ip + i) % N \in 0..(N - 1)
  BY <1>1, <1>2
<1> QED BY <1>3 DEF IPAdd, Address

LEMMA PoolsInCIDR == blockPool \cup singlePool \subseteq CIDR
<1>1. /\ Network.ip \in Nat /\ Network.len \in 0..AddrBits
      /\ SubnetPrefixLength \in 0..AddrBits /\ AddrBits \in 0..AddrBits
  BY DaemonAssumption, AddrBitsAssumption, SizePositive DEF DaemonConstants, CIDR, Address
<1>2. Size(Network.len) \in Nat /\ Size(SubnetPrefixLength) \in Nat
  BY <1>1, SizePositive
<1>3. blockPool \subseteq CIDR
  <2>1. BlockOffsets(Size(Network.len), Size(SubnetPrefixLength)) \subseteq Nat
    BY <1>2 DEF BlockOffsets
  <2> QED BY <1>1, <2>1, WrapsIntoAddress DEF blockPool, generateBlockPool, CIDR
<1>4. singlePool \subseteq CIDR
  <2>1. ASSUME NEW n \in Nat PROVE 1..(n - 1) \subseteq Nat
    OBVIOUS
  <2> QED BY <1>1, <1>2, <2>1, WrapsIntoAddress DEF singlePool, generateSingleIPPool, CIDR
<1> QED BY <1>3, <1>4

(* The lease rebuilt from a VTEP with an address is a subnet, with that     *)
(* address.                                                                 *)
LEMMA DiscoveredLease ==
  ASSUME vtep \in [ip : Address \cup {None}] \cup {None}, HasAddress
  PROVE  leaseFromVTEPState \in CIDR /\ leaseFromVTEPState.ip = vtep.ip
<1>1. SubnetPrefixLength \in 0..AddrBits
  BY DaemonAssumption, AddrBitsAssumption DEF DaemonConstants, CIDR
<1>2. vtep.ip \in Address
  BY DEF HasAddress
<1> QED BY <1>1, <1>2 DEF leaseFromVTEPState, CIDR

LEMMA LeaseAddress == \A l \in CIDR : l.ip \in Address /\ l # None
BY DaemonAssumption DEF DaemonConstants, CIDR

-------------------------------------------------------------------------------
LEMMA Seconds ==
  /\ MaxTime \in Nat /\ ClientTimeoutSeconds \in Nat /\ PollInterval \in Nat
  /\ 0 \in 0..MaxTime
BY DaemonAssumption DEF DaemonConstants

LEMMA NoneApart == None \notin Address /\ None \notin CIDR /\ None \notin [ip : Address \cup {None}]
BY DaemonAssumption DEF DaemonConstants

(* TypeOK in parts. *)
Data ==
  /\ vtep \in [ip : Address \cup {None}] \cup {None}
  /\ madeFor \in CIDR \cup {None} /\ row \in CIDR \cup {None}
  /\ lease \in CIDR \cup {None} /\ offer \in CIDR \cup {None}

Sets == containers \in SUBSET Container /\ adding \in SUBSET Container /\ late \in SUBSET Container

Control ==
  /\ served \in {lease, None}
  /\ pc \notin {"down", "acquire", "read store", "delete vtep"} => lease # None
  /\ pc \in waiting \cup {"down", "read store", "delete vtep", "link", "addr", "info", "sleep"}
  /\ call \in {None, "sent", "ok", "refused", "error"}
  /\ afterwards \in {None, "info", "renew"}
  /\ renewed \in BOOLEAN /\ tearing \in BOOLEAN

Clock ==
  /\ renewedAt \in 0..MaxTime /\ lastSuccess \in 0..MaxTime /\ now \in 0..MaxTime
  /\ timer \in Nat

Parts == Data /\ Sets /\ Control /\ Clock /\ LabelsInv

LEMMA DInvParts == (DInv <=> Parts) /\ (DInv' <=> Parts')
BY Zenon DEF DInv, Parts, Data, Sets, Control, Clock, TypeOK

-------------------------------------------------------------------------------
(* Each step keeps the types and what the labels promise. *)

LEMMA StartKeeps ==
  ASSUME Parts, Start
  PROVE  Parts'
<1>1. Data'
  BY Zenon, LeaseAddress, NoneApart, DiscoveredLease
     DEF Start, Goto, Call, Fault, Fine, host, table,
     process, Parts, Data, Control
<1>2. Sets'
  BY Zenon DEF Start, cni, Parts, Sets
<1>3. Control'
  BY Zenon, LeaseAddress, DiscoveredLease DEF Start, Goto, Call, process, Parts, Data, Control,
     LabelsInv, Serving, waiting
<1>4. Clock'
  <2>1. /\ timer' \in {now, now + ClientTimeoutSeconds} /\ lastSuccess' \in {lastSuccess, 0}
        /\ UNCHANGED <<renewedAt, now>>
    BY Zenon DEF Start, Goto, Call, table
  <2> QED BY <2>1, Seconds DEF Parts, Clock
<1>5. LabelsInv'
  <2>1. /\ UNCHANGED <<vtep, served, renewed, tearing>> /\ ~ tearing
        /\ pc = "down" /\ pc' \in {"renew", "read store", "acquire"}
        /\ pc' = "renew" => HasAddress /\ lease' = leaseFromVTEPState
        /\ pc' = "acquire" => call' = "sent"
    BY Zenon DEF Start, Goto, Call, host
  <2> QED BY Zenon, <2>1, DiscoveredLease DEF Parts, Data, HasAddress, LabelsInv, Serving
<1> QED BY <1>1, <1>2, <1>3, <1>4, <1>5 DEF Parts

LEMMA ReadStoreKeeps ==
  ASSUME Parts, ReadStore
  PROVE  Parts'
<1>1. Data'
  BY Zenon, LeaseAddress, NoneApart
     DEF ReadStore, Goto, Exit, Fault, Fine, host, table, process,
     Parts, Data, Control
<1>2. Sets'
  BY Zenon DEF ReadStore, cni, Parts, Sets
<1>3. Control'
  BY Zenon, LeaseAddress DEF ReadStore, Goto, Exit, process, Parts, Data, Control, LabelsInv,
     Serving, waiting
<1>4. Clock'
  <2>1. /\ timer' \in {now, now + ClientTimeoutSeconds} /\ lastSuccess' \in {lastSuccess, 0}
        /\ UNCHANGED <<renewedAt, now>>
    BY Zenon DEF ReadStore, Goto, Exit, table
  <2> QED BY <2>1, Seconds DEF Parts, Clock
<1>5. LabelsInv'
  <2>1. CASE Goto("delete vtep") /\ UNCHANGED <<lease, afterwards, lastSuccess, renewed, served>>
    BY Zenon, <2>1 DEF ReadStore, Goto, host, Parts, LabelsInv, Serving
  <2>2. CASE Exit
    BY Zenon, <2>2 DEF ReadStore, Exit, Goto, host, Parts, LabelsInv, Serving
  <2> QED BY <2>1, <2>2, Zenon DEF ReadStore
<1> QED BY <1>1, <1>2, <1>3, <1>4, <1>5 DEF Parts

LEMMA DeleteVTEPKeeps ==
  ASSUME Parts, DeleteVTEP
  PROVE  Parts'
<1>1. Data'
  BY Zenon, LeaseAddress, NoneApart DEF DeleteVTEP, Call, Goto, Exit, Fault, Fine, host, table,
     process, Parts, Data, Control
<1>2. Sets'
  BY Zenon DEF DeleteVTEP, cni, Parts, Sets
<1>3. Control'
  BY Zenon, LeaseAddress
     DEF DeleteVTEP, Call, Goto, Exit, process, Parts, Data, Control, LabelsInv,
     Serving, waiting
<1>4. Clock'
  <2>1. /\ timer' \in {now, now + ClientTimeoutSeconds} /\ lastSuccess' \in {lastSuccess, 0}
        /\ UNCHANGED <<renewedAt, now>>
    BY Zenon DEF DeleteVTEP, Call, Goto, Exit, table
  <2> QED BY <2>1, Seconds DEF Parts, Clock
<1>5. LabelsInv'
  <2>1. CASE Call("acquire") /\ UNCHANGED <<lease, afterwards, lastSuccess, renewed, served>>
    BY Zenon, <2>1 DEF DeleteVTEP, Call, Parts, LabelsInv, Serving
  <2>2. CASE Exit
    BY Zenon, <2>2 DEF DeleteVTEP, Exit, Goto, Parts, LabelsInv, Serving
  <2> QED BY <2>1, <2>2, Zenon DEF DeleteVTEP
<1> QED BY <1>1, <1>2, <1>3, <1>4, <1>5 DEF Parts

LEMMA LinkAddKeeps ==
  ASSUME Parts, LinkAdd
  PROVE  Parts'
<1>1. Data'
  BY LeaseAddress, NoneApart DEF LinkAdd, Goto, Exit, Fault, Fine, host, table, process,
     Parts, Data, Control
<1>2. Sets'
  BY DEF LinkAdd, cni, Parts, Sets
<1>3. Control'
  BY Zenon, LeaseAddress
     DEF LinkAdd, Goto, Exit, process, Parts, Data, Control, LabelsInv, Serving,
     waiting
<1>4. Clock'
  BY Seconds DEF LinkAdd, Goto, Exit, table, process, Parts, Clock
<1>5. LabelsInv'
  BY LeaseAddress, NoneApart DEF LinkAdd, Goto, Exit, Fault, Fine, host, table, process,
     Parts, Data, Control, LabelsInv, Serving, waiting
<1> QED BY <1>1, <1>2, <1>3, <1>4, <1>5 DEF Parts

LEMMA AddrAddKeeps ==
  ASSUME Parts, AddrAdd
  PROVE  Parts'
<1>1. Data'
  BY LeaseAddress, NoneApart DEF AddrAdd, Goto, Call, Exit, Fault, Fine, host, table, process,
     Parts, Data, Control
<1>2. Sets'
  BY DEF AddrAdd, cni, Parts, Sets
<1>3. Control'
  BY Zenon, LeaseAddress
     DEF AddrAdd, Goto, Call, Exit, process, Parts, Data, Control, LabelsInv,
     Serving, waiting
<1>4. Clock'
  BY Seconds DEF AddrAdd, Goto, Call, Exit, table, process, Parts, Clock
<1>5. LabelsInv'
  BY LeaseAddress, NoneApart DEF AddrAdd, Goto, Call, Exit, Fault, Fine, host, table, process,
     Parts, Data, Control, LabelsInv, Serving, waiting
<1> QED BY <1>1, <1>2, <1>3, <1>4, <1>5 DEF Parts

LEMMA ServeKeeps ==
  ASSUME Parts, Serve
  PROVE  Parts'
<1>1. Data'
  BY LeaseAddress, NoneApart DEF Serve, HasAddress, Goto, Call, Exit, Fault, Fine, host,
     table, process, Parts, Data, Control
<1>2. Sets'
  BY DEF Serve, cni, Parts, Sets
<1>3. Control'
  BY Zenon, LeaseAddress DEF Serve, HasAddress, Goto, Call, Exit, process, Parts, Data, Control,
     LabelsInv, Serving, waiting
<1>4. Clock'
  BY Seconds DEF Serve, HasAddress, Goto, Call, Exit, table, process, Parts, Clock
<1>5. LabelsInv'
  BY LeaseAddress, NoneApart DEF Serve, HasAddress, Goto, Call, Exit, Fault, Fine, host,
     table, process, Parts, Data, Control, LabelsInv, Serving, waiting
<1> QED BY <1>1, <1>2, <1>3, <1>4, <1>5 DEF Parts

LEMMA ServeAcquireKeeps ==
  ASSUME Parts, ServeAcquire
  PROVE  Parts'
<1>1. Data'
  BY LeaseAddress, DaemonAssumption, PoolsInCIDR DEF DaemonConstants, ServeAcquire, IsMember, host, table,
     process, Parts, Data, Control
<1>2. Sets'
  BY DEF ServeAcquire, cni, Parts, Sets
<1>3. Control'
  BY LeaseAddress, PoolsInCIDR DEF ServeAcquire, IsMember, process, Parts, Data, Control,
     LabelsInv, Serving, waiting
<1>4. Clock'
  BY Seconds DEF ServeAcquire, IsMember, table, process, Parts, Clock
<1>5. LabelsInv'
  BY LeaseAddress, DaemonAssumption, PoolsInCIDR DEF DaemonConstants, ServeAcquire, IsMember, host, table,
     process, Parts, Data, Control, LabelsInv, Serving, waiting
<1> QED BY <1>1, <1>2, <1>3, <1>4, <1>5 DEF Parts

LEMMA ServeRenewKeeps ==
  ASSUME Parts, ServeRenew
  PROVE  Parts'
<1>1. Data'
  BY Zenon, LeaseAddress, NoneApart
     DEF ServeRenew, Fault, Fine, host, table, process, Parts, Data,
     Control
<1>2. Sets'
  BY DEF ServeRenew, cni, Parts, Sets
<1>3. Control'
  BY Zenon, LeaseAddress
     DEF ServeRenew, process, Parts, Data, Control, LabelsInv, Serving, waiting
<1>4. Clock'
  BY Seconds DEF ServeRenew, table, process, Parts, Clock
<1>5. LabelsInv'
  BY Zenon, LeaseAddress, NoneApart
     DEF ServeRenew, Fault, Fine, host, table, process, Parts, Data,
     Control, LabelsInv, Serving, waiting
<1> QED BY <1>1, <1>2, <1>3, <1>4, <1>5 DEF Parts

LEMMA ServeListKeeps ==
  ASSUME Parts, ServeList
  PROVE  Parts'
<1>1. Data'
  BY LeaseAddress, NoneApart DEF ServeList, Fault, Fine, host, table, process, Parts, Data,
     Control
<1>2. Sets'
  BY DEF ServeList, cni, Parts, Sets
<1>3. Control'
  BY LeaseAddress DEF ServeList, process, Parts, Data, Control, LabelsInv, Serving, waiting
<1>4. Clock'
  BY Seconds DEF ServeList, table, process, Parts, Clock
<1>5. LabelsInv'
  BY LeaseAddress, NoneApart DEF ServeList, Fault, Fine, host, table, process, Parts, Data,
     Control, LabelsInv, Serving, waiting
<1> QED BY <1>1, <1>2, <1>3, <1>4, <1>5 DEF Parts

LEMMA UnansweredKeeps ==
  ASSUME Parts, Unanswered
  PROVE  Parts'
<1>1. Data'
  BY Zenon, LeaseAddress, NoneApart
     DEF Unanswered, Fault, Fine, host, table, process, Parts, Data,
     Control
<1>2. Sets'
  BY DEF Unanswered, cni, Parts, Sets
<1>3. Control'
  BY Zenon, LeaseAddress
     DEF Unanswered, process, Parts, Data, Control, LabelsInv, Serving, waiting
<1>4. Clock'
  BY Seconds DEF Unanswered, table, process, Parts, Clock
<1>5. LabelsInv'
  BY Zenon, LeaseAddress, NoneApart
     DEF Unanswered, Fault, Fine, host, table, process, Parts, Data,
     Control, LabelsInv, Serving, waiting
<1> QED BY <1>1, <1>2, <1>3, <1>4, <1>5 DEF Parts

LEMMA ReclaimedKeeps ==
  ASSUME Parts, Reclaimed
  PROVE  Parts'
<1>1. Data'
  BY Zenon, LeaseAddress, NoneApart
     DEF Reclaimed, Fault, Fine, host, table, process, Parts, Data,
     Control
<1>2. Sets'
  BY DEF Reclaimed, cni, Parts, Sets
<1>3. Control'
  BY Zenon, LeaseAddress
     DEF Reclaimed, process, Parts, Data, Control, LabelsInv, Serving, waiting
<1>4. Clock'
  BY Seconds DEF Reclaimed, table, process, Parts, Clock
<1>5. LabelsInv'
  BY Zenon, LeaseAddress, NoneApart
     DEF Reclaimed, Fault, Fine, host, table, process, Parts, Data,
     Control, LabelsInv, Serving, waiting
<1> QED BY <1>1, <1>2, <1>3, <1>4, <1>5 DEF Parts

LEMMA AcquiredKeeps ==
  ASSUME Parts, Acquired
  PROVE  Parts'
<1>1. Data'
  BY LeaseAddress, NoneApart DEF Acquired, Goto, Exit, Fault, Fine, host, table, process,
     Parts, Data, Control
<1>2. Sets'
  BY DEF Acquired, cni, Parts, Sets
<1>3. Control'
  BY Zenon, LeaseAddress
     DEF Acquired, Goto, Exit, process, Parts, Data, Control, LabelsInv, Serving,
     waiting
<1>4. Clock'
  BY Seconds DEF Acquired, Goto, Exit, table, process, Parts, Clock
<1>5. LabelsInv'
  BY LeaseAddress, NoneApart DEF Acquired, Goto, Exit, Fault, Fine, host, table, process,
     Parts, Data, Control, LabelsInv, Serving, waiting
<1> QED BY <1>1, <1>2, <1>3, <1>4, <1>5 DEF Parts

LEMMA RenewedKeeps ==
  ASSUME Parts, Renewed
  PROVE  Parts'
<1>1. Data'
  BY Zenon, LeaseAddress, NoneApart DEF Renewed, Goto, Fault, Fine, host, table, process, Parts,
     Data, Control
<1>2. Sets'
  BY Zenon DEF Renewed, cni, Parts, Sets
<1>3. Control'
  BY Zenon, LeaseAddress
     DEF Renewed, Goto, process, Parts, Data, Control, LabelsInv, Serving, waiting
<1>4. Clock'
  <2>1. /\ timer' \in {now, now + ClientTimeoutSeconds} /\ lastSuccess' \in {lastSuccess, 0}
        /\ UNCHANGED <<renewedAt, now>>
    BY Zenon DEF Renewed, Goto, table
  <2> QED BY <2>1, Seconds DEF Parts, Clock
<1>5. LabelsInv'
  BY Zenon, LeaseAddress, NoneApart DEF Renewed, Goto, Fault, Fine, host, table, process, Parts,
     Data, Control, LabelsInv, Serving, waiting
<1> QED BY <1>1, <1>2, <1>3, <1>4, <1>5 DEF Parts

LEMMA DoCycleKeeps ==
  ASSUME Parts, DoCycle
  PROVE  Parts'
<1>1. Data'
  BY LeaseAddress, NoneApart DEF DoCycle, Sleep, Call, Goto, Exit, Fault, Fine, host, table,
     process, Parts, Data, Control
<1>2. Sets'
  BY DEF DoCycle, cni, Parts, Sets
<1>3. Control'
  BY Zenon, LeaseAddress DEF DoCycle, Sleep, Call, Goto, Exit, process, Parts, Data, Control,
     LabelsInv, Serving, waiting
<1>4. Clock'
  BY Seconds DEF DoCycle, Sleep, Call, Goto, Exit, table, process, Parts, Clock
<1>5. LabelsInv'
  BY LeaseAddress, NoneApart DEF DoCycle, Sleep, Call, Goto, Exit, Fault, Fine, host, table,
     process, Parts, Data, Control, LabelsInv, Serving, waiting
<1> QED BY <1>1, <1>2, <1>3, <1>4, <1>5 DEF Parts

LEMMA ListedKeeps ==
  ASSUME Parts, Listed
  PROVE  Parts'
<1>1. Data'
  BY LeaseAddress, NoneApart DEF Listed, Sleep, Fault, Fine, host, table, process, Parts,
     Data, Control
<1>2. Sets'
  BY DEF Listed, cni, Parts, Sets
<1>3. Control'
  BY LeaseAddress DEF Listed, Sleep, process, Parts, Data, Control, LabelsInv, Serving, waiting
<1>4. Clock'
  BY Seconds DEF Listed, Sleep, table, process, Parts, Clock
<1>5. LabelsInv'
  BY LeaseAddress, NoneApart DEF Listed, Sleep, Fault, Fine, host, table, process, Parts,
     Data, Control, LabelsInv, Serving, waiting
<1> QED BY <1>1, <1>2, <1>3, <1>4, <1>5 DEF Parts

LEMMA WakeKeeps ==
  ASSUME Parts, Wake
  PROVE  Parts'
<1>1. Data'
  BY LeaseAddress, NoneApart DEF Wake, Call, Fault, Fine, host, table, process, Parts, Data,
     Control
<1>2. Sets'
  BY DEF Wake, cni, Parts, Sets
<1>3. Control'
  BY LeaseAddress DEF Wake, Call, process, Parts, Data, Control, LabelsInv, Serving, waiting
<1>4. Clock'
  BY Seconds DEF Wake, Call, table, process, Parts, Clock
<1>5. LabelsInv'
  BY LeaseAddress, NoneApart DEF Wake, Call, Fault, Fine, host, table, process, Parts, Data,
     Control, LabelsInv, Serving, waiting
<1> QED BY <1>1, <1>2, <1>3, <1>4, <1>5 DEF Parts

LEMMA CrashKeeps ==
  ASSUME Parts, Crash
  PROVE  Parts'
<1>1. Data'
  BY Zenon, LeaseAddress, NoneApart
     DEF Crash, Goto, Exit, Fault, Fine, host, table, process, Parts,
     Data, Control
<1>2. Sets'
  BY DEF Crash, cni, Parts, Sets
<1>3. Control'
  BY Zenon, LeaseAddress
     DEF Crash, Goto, Exit, process, Parts, Data, Control, LabelsInv, Serving,
     waiting
<1>4. Clock'
  BY Seconds DEF Crash, Goto, Exit, table, process, Parts, Clock
<1>5. LabelsInv'
  BY Zenon, LeaseAddress, NoneApart
     DEF Crash, Goto, Exit, Fault, Fine, host, table, process, Parts,
     Data, Control, LabelsInv, Serving, waiting
<1> QED BY <1>1, <1>2, <1>3, <1>4, <1>5 DEF Parts

LEMMA TeardownReleaseKeeps ==
  ASSUME Parts, TeardownRelease
  PROVE  Parts'
<1>1. Data'
  BY LeaseAddress, NoneApart DEF TeardownRelease, Fault, Fine, host, table, process, Parts,
     Data, Control
<1>2. Sets'
  BY DEF TeardownRelease, cni, Parts, Sets
<1>3. Control'
  BY LeaseAddress DEF TeardownRelease, process, Parts, Data, Control, LabelsInv, Serving,
     waiting
<1>4. Clock'
  BY Seconds DEF TeardownRelease, table, process, Parts, Clock
<1>5. LabelsInv'
  BY LeaseAddress, NoneApart DEF TeardownRelease, Fault, Fine, host, table, process, Parts,
     Data, Control, LabelsInv, Serving, waiting
<1> QED BY <1>1, <1>2, <1>3, <1>4, <1>5 DEF Parts

LEMMA TeardownDeleteKeeps ==
  ASSUME Parts, TeardownDelete
  PROVE  Parts'
<1>1. Data'
  BY Zenon, LeaseAddress, NoneApart
     DEF TeardownDelete, Fault, Fine, host, table, process, Parts,
     Data, Control
<1>2. Sets'
  BY DEF TeardownDelete, cni, Parts, Sets
<1>3. Control'
  BY Zenon, LeaseAddress
     DEF TeardownDelete, process, Parts, Data, Control, LabelsInv, Serving, waiting
<1>4. Clock'
  BY Seconds DEF TeardownDelete, table, process, Parts, Clock
<1>5. LabelsInv'
  BY LeaseAddress, NoneApart DEF TeardownDelete, Fault, Fine, host, table, process, Parts,
     Data, Control, LabelsInv, Serving, waiting
<1> QED BY <1>1, <1>2, <1>3, <1>4, <1>5 DEF Parts

LEMMA TickKeeps ==
  ASSUME Parts, Tick
  PROVE  Parts'
<1>1. Data'
  BY Zenon, LeaseAddress, NoneApart
     DEF Tick, Fault, Fine, host, table, process, Parts, Data, Control
<1>2. Sets'
  BY DEF Tick, cni, Parts, Sets
<1>3. Control'
  BY Zenon, LeaseAddress DEF Tick, process, Parts, Data, Control, LabelsInv, Serving, waiting
<1>4. Clock'
  BY Seconds DEF Tick, table, process, Parts, Clock
<1>5. LabelsInv'
  BY Zenon, LeaseAddress, NoneApart DEF Tick, Fault, Fine, host, table, process, Parts, Data,
     Control, LabelsInv, Serving, waiting
<1> QED BY <1>1, <1>2, <1>3, <1>4, <1>5 DEF Parts

LEMMA CNIKeeps ==
  ASSUME Parts, NEW c \in Container, AddBegins(c) \/ AddStores(c) \/ Del(c)
  PROVE  Parts'
<1>1. Sets'
  BY DEF AddBegins, AddStores, Del, StoreAdd, StoreDelete, Parts, Sets
<1>2. UNCHANGED <<host, table, process, tearing, now>>
  BY DEF AddBegins, AddStores, Del
<1>3. Data'
  BY <1>2 DEF host, table, process, Parts, Data
<1>5. Control'
  BY Zenon, <1>2 DEF process, Parts, Control
<1>4. Clock' /\ LabelsInv'
  BY <1>2 DEF host, table, process, Parts, Clock, LabelsInv
<1> QED BY <1>1, <1>3, <1>4, <1>5 DEF Parts

(* The host's row may change beside the daemon: another request's doing. *)
LEMMA TableKeeps ==
  ASSUME Parts, UNCHANGED <<host, cni, process, tearing, now>>,
         row' \in CIDR \cup {None}, renewedAt' \in 0..MaxTime
  PROVE  Parts'
<1>1. Data' /\ Sets'
  BY Zenon DEF host, cni, process, Parts, Data, Sets
<1>2. Control'
  BY Zenon DEF process, Parts, Control
<1>3. Clock' /\ LabelsInv'
  BY Zenon DEF host, process, Parts, Clock, LabelsInv
<1> QED BY <1>1, <1>2, <1>3 DEF Parts

LEMMA QuietKeeps ==
  ASSUME Parts, UNCHANGED <<host, cni, table, process, tearing, now>>
  PROVE  Parts'
<1>1. row' \in CIDR \cup {None} /\ renewedAt' \in 0..MaxTime
  BY Zenon DEF table, Parts, Data, Clock
<1> QED BY Zenon, <1>1, TableKeeps

(* An acquire is refused for want of a subnet. *)
LEMMA RefusedKeeps ==
  ASSUME Parts, pc = "acquire", call' = "error",
         UNCHANGED <<host, cni, table, pc, lease, afterwards, offer, timer, lastSuccess,
                     renewed, served, tearing, now>>
  PROVE  Parts'
<1>1. Data' /\ Sets'
  BY Zenon DEF host, cni, table, Parts, Data, Sets
<1>2. Control'
  BY Zenon DEF Parts, Control
<1>3. Clock' /\ LabelsInv'
  BY Zenon DEF host, table, Parts, Clock, LabelsInv, Serving
<1> QED BY <1>1, <1>2, <1>3 DEF Parts

LEMMA DInitially == Init => DInv
<1> SUFFICES ASSUME Init PROVE Parts
  BY DInvParts
<1>1. Data
  BY LeaseAddress, DaemonAssumption DEF DaemonConstants, Init, Data
<1>2. Sets /\ Control
  BY Zenon DEF Init, Sets, Control, waiting
<1>3. Clock
  BY DaemonAssumption DEF DaemonConstants, Init, Clock
<1>4. LabelsInv
  BY DEF Init, LabelsInv, Serving
<1> QED BY <1>1, <1>2, <1>3, <1>4 DEF Parts

LEMMA DNext ==
  ASSUME DInv, [Next]_vars
  PROVE  DInv'
<1>1. Parts
  BY DInvParts
<1> SUFFICES Parts'
  BY DInvParts
<1>2. CASE Daemon
  BY <1>1, <1>2, StartKeeps, ReadStoreKeeps, DeleteVTEPKeeps, LinkAddKeeps, AddrAddKeeps,
     ServeKeeps, AcquiredKeeps, RenewedKeeps, DoCycleKeeps, ListedKeeps, WakeKeeps DEF Daemon
<1>3. CASE Controller \/ Unanswered \/ Reclaimed
  BY <1>1, <1>3, ServeAcquireKeeps, ServeRenewKeeps, ServeListKeeps, UnansweredKeeps,
     ReclaimedKeeps DEF Controller
<1>4. CASE Crash \/ TeardownRelease \/ TeardownDelete \/ Tick
  BY <1>1, <1>4, CrashKeeps, TeardownReleaseKeeps, TeardownDeleteKeeps, TickKeeps
<1>5. CASE UNCHANGED vars
  BY Zenon, <1>1, <1>5, QuietKeeps DEF vars
<1> QED BY <1>1, <1>2, <1>3, <1>4, <1>5, CNIKeeps DEF Next

LEMMA DInvariance == Spec => []DInv
BY DInitially, DNext, PTL DEF Spec

(* The daemon's variables keep their types, and it has a lease wherever it  *)
(* uses one.                                                                *)
THEOREM DaemonTypeCorrect == Spec => []TypeOK
BY DInvariance, PTL DEF DInv

(* What the health check tells silk-cni is the subnet whose address the     *)
(* VTEP carries, through every start, failure, crash and teardown.          *)
THEOREM ServesItsVTEP == Spec => []ServedMatchesVTEP
<1>1. DInv => ServedMatchesVTEP
  <2> SUFFICES ASSUME DInv, served # None PROVE HasAddress /\ vtep.ip = served.ip
    BY DEF ServedMatchesVTEP
  <2>1. served = lease /\ lease \in CIDR /\ vtep # None /\ vtep.ip = lease.ip
    BY Zenon DEF DInv, TypeOK, LabelsInv
  <2> QED BY <2>1, LeaseAddress, DaemonAssumption DEF DaemonConstants, HasAddress
<1> QED BY DInvariance, <1>1, PTL
-------------------------------------------------------------------------------
(* How far behind the lease's stamp and the detector's last success can be  *)
(* at each label.  A renewal is stamped before its answer is seen, at most  *)
(* one client timeout earlier; after the last success the loop runs until   *)
(* the tolerance is used up, then one interval and one call more.           *)
TInv ==
  /\ renewedAt <= now /\ lastSuccess <= now
  /\ pc \in waiting \cup {"sleep"} => now <= timer
  /\ pc = "poll" => timer <= now + ClientTimeoutSeconds
  /\ pc = "poll" /\ call = "ok" => row = lease /\ timer <= renewedAt + ClientTimeoutSeconds
  /\ renewed =>
       /\ row = lease /\ lastSuccess <= renewedAt + ClientTimeoutSeconds
       /\ pc = "list" => timer <= lastSuccess + ClientTimeoutSeconds
       /\ pc = "sleep" => timer < lastSuccess + PartitionToleranceSeconds + PollInterval
       /\ pc = "poll" => timer < lastSuccess + PartitionToleranceSeconds + PollInterval
                                  + ClientTimeoutSeconds

LEMMA Timing ==
  /\ MaxTime \in Nat /\ LeaseExpirationSeconds \in Nat /\ PartitionToleranceSeconds \in Nat
  /\ PollInterval \in Nat \ {0} /\ ClientTimeoutSeconds \in Nat \ {0}
  /\ PartitionToleranceSeconds > ClientTimeoutSeconds
  /\ LeaseExpirationSeconds
       >= PartitionToleranceSeconds + PollInterval + 2 * ClientTimeoutSeconds
BY DaemonAssumption, TimingAssumption DEF DaemonConstants, LeaseOutlivesServing

LEMMA ClockIntegers ==
  ASSUME Clock
  PROVE  /\ now \in Nat /\ renewedAt \in Nat /\ lastSuccess \in Nat /\ timer \in Nat
         /\ now <= MaxTime
BY Timing DEF Clock

(* The heart of the argument: before the first label at which the daemon    *)
(* would notice, the lease has not expired.                                 *)
LEMMA StillLive ==
  ASSUME Parts, TInv, renewed
  PROVE  now < renewedAt + LeaseExpirationSeconds
<1>1. pc \in {"poll", "list", "sleep"}
  BY DEF Parts, LabelsInv, Serving
<1> QED BY <1>1, Timing, ClockIntegers DEF Parts, TInv, waiting

LEMMA StillLiveAtAnswer ==
  ASSUME Parts, TInv, pc = "poll", call = "ok"
  PROVE  now < renewedAt + LeaseExpirationSeconds
BY Timing, ClockIntegers DEF Parts, TInv, waiting

(* Steps that leave the lease, its stamp and the clock alone and do not     *)
(* lead into the poll loop.                                                 *)
LEMMA OutsideLoop ==
  ASSUME Parts, TInv, UNCHANGED <<renewedAt, now>>, lastSuccess' \in {lastSuccess, 0},
         pc' \notin Serving, renewed' = FALSE, timer' \in Nat, now <= timer'
  PROVE  TInv'
BY Timing, ClockIntegers DEF Parts, TInv, Serving

LEMMA StartUpTimes ==
  ASSUME Parts, TInv,
         Start \/ ReadStore \/ DeleteVTEP \/ LinkAdd \/ AddrAdd \/ Acquired \/ Renewed \/ Crash
  PROVE  TInv'
<1>1. Start \/ pc \in {"read store", "delete vtep", "link", "addr", "acquire", "renew"} \/ Crash
  BY Zenon DEF ReadStore, DeleteVTEP, LinkAdd, AddrAdd, Acquired, Renewed
<1>2. renewed' = FALSE /\ pc' \notin Serving
  <2>1. renewed' \in {renewed, FALSE}
    BY Zenon DEF Start, ReadStore, DeleteVTEP, LinkAdd, AddrAdd, Acquired, Renewed, Crash, Exit
  <2>2. Crash => renewed' = FALSE
    BY DEF Crash, Exit
  <2>3. ~ Crash => renewed = FALSE
    BY Zenon, <1>1 DEF Start, Parts, Control, LabelsInv, Serving
  <2>4. pc' \in {"renew", "read store", "acquire", "delete vtep", "link", "addr", "info", "down"}
    BY Zenon DEF Start, ReadStore, DeleteVTEP, LinkAdd, AddrAdd, Acquired, Renewed, Crash, Exit,
       Goto, Call
  <2> QED BY Zenon, <2>1, <2>2, <2>3, <2>4 DEF Serving
<1>3. UNCHANGED <<renewedAt, now>> /\ lastSuccess' \in {lastSuccess, 0}
  BY Zenon DEF Start, ReadStore, DeleteVTEP, LinkAdd, AddrAdd, Acquired, Renewed, Crash, Exit,
     table
<1>4. timer' \in {now, now + ClientTimeoutSeconds}
  BY Zenon DEF Start, ReadStore, DeleteVTEP, LinkAdd, AddrAdd, Acquired, Renewed, Crash, Exit,
     Goto, Call
<1>5. timer' \in Nat /\ now <= timer'
  BY <1>4, Timing, ClockIntegers DEF Parts
<1> QED BY Zenon, <1>2, <1>3, <1>5, OutsideLoop

LEMMA ServeTimes ==
  ASSUME Parts, TInv, Serve
  PROVE  TInv'
<1>1. CASE Exit
  <2>1. UNCHANGED <<renewedAt, now>>
    BY DEF Serve, table
  <2>2. pc' = "down" /\ renewed' = FALSE /\ lastSuccess' = 0 /\ timer' = now
    BY <1>1 DEF Exit, Goto
  <2>3. now \in Nat
    BY ClockIntegers DEF Parts
  <2>4. pc' \notin Serving
    BY <2>2 DEF Serving
  <2>5. timer' \in Nat /\ now <= timer'
    BY <2>2, <2>3
  <2> QED BY Zenon, <2>1, <2>2, <2>4, <2>5, OutsideLoop
<1>2. CASE Call("poll") /\ lastSuccess' = now /\ renewed' = FALSE
  BY <1>2, Timing, ClockIntegers DEF Serve, Call, table, Parts, TInv
<1> QED BY <1>1, <1>2, Zenon DEF Serve

LEMMA ControllerTimes ==
  ASSUME Parts, TInv, Controller
  PROVE  TInv'
<1>1. CASE ServeAcquire
  <2>1. pc = "acquire" /\ pc' = pc /\ renewed' = FALSE /\ UNCHANGED <<timer, lastSuccess, now>>
    BY <1>1 DEF ServeAcquire, Parts, Control, LabelsInv, Serving
  <2>2. renewedAt' \in {renewedAt, now, 0}
    BY <1>1, Zenon DEF ServeAcquire, table
  <2> QED BY <2>1, <2>2, ClockIntegers DEF Parts, TInv, waiting
<1>2. CASE ServeRenew
  <2>1. /\ UNCHANGED <<pc, lease, timer, lastSuccess, renewed, now>>
        /\ pc \in {"renew", "poll"}
    BY <1>2 DEF ServeRenew
  <2>2. \/ row' = lease /\ renewedAt' = now
        \/ row' = row /\ renewedAt' = renewedAt /\ call' = "refused"
    BY <1>2 DEF ServeRenew, table
  <2> QED BY <2>1, <2>2, Timing, ClockIntegers DEF Parts, TInv, waiting
<1>3. CASE ServeList
  <2>1. UNCHANGED <<pc, lease, timer, lastSuccess, renewed, now, row, renewedAt>> /\ pc = "list"
    BY <1>3 DEF ServeList, table
  <2> QED BY <2>1 DEF TInv
<1> QED BY <1>1, <1>2, <1>3 DEF Controller

LEMMA UnansweredTimes ==
  ASSUME Parts, TInv, Unanswered
  PROVE  TInv'
<1>1. /\ UNCHANGED <<pc, lease, timer, lastSuccess, renewed, now, row, renewedAt>>
      /\ call' = "error"
  BY DEF Unanswered, table
<1> QED BY <1>1 DEF TInv

(* A lease that a serving daemon relies on is not one that can be given     *)
(* away.                                                                    *)
LEMMA ReclaimedTimes ==
  ASSUME Parts, TInv, Reclaimed
  PROVE  TInv'
<1>1. UNCHANGED <<pc, lease, call, timer, lastSuccess, renewed, now>>
  BY DEF Reclaimed, process
<1>2. renewedAt' = 0 /\ renewedAt + LeaseExpirationSeconds <= now
  BY DEF Reclaimed
<1>3. ~ renewed /\ ~ (pc = "poll" /\ call = "ok")
  BY <1>2, StillLive, StillLiveAtAnswer, Timing, ClockIntegers DEF Parts
<1> QED BY <1>1, <1>2, <1>3, ClockIntegers DEF Parts, TInv

LEMMA DoCycleTimes ==
  ASSUME Parts, TInv, DoCycle
  PROVE  TInv'
<1>1. CASE Exit
  <2>1. UNCHANGED <<renewedAt, now>>
    BY DEF DoCycle, table
  <2>2. pc' = "down" /\ renewed' = FALSE /\ lastSuccess' = 0 /\ timer' = now
    BY <1>1 DEF Exit, Goto
  <2>3. now \in Nat
    BY ClockIntegers DEF Parts
  <2>4. pc' \notin Serving
    BY <2>2 DEF Serving
  <2>5. timer' \in Nat /\ now <= timer'
    BY <2>2, <2>3
  <2> QED BY Zenon, <2>1, <2>2, <2>4, <2>5, OutsideLoop
<1>2. CASE call = "ok" /\ lastSuccess' = now /\ Call("list") /\ UNCHANGED lease
  <2>1. UNCHANGED <<row, renewedAt, now, lease>> /\ pc = "poll"
    BY <1>2 DEF DoCycle, table
  <2>2. row = lease /\ timer <= renewedAt + ClientTimeoutSeconds /\ now <= timer
    BY <1>2, <2>1 DEF TInv, waiting
  <2>3. pc' = "list" /\ timer' = now + ClientTimeoutSeconds
    BY <1>2 DEF Call
  <2> QED BY <1>2, <2>1, <2>2, <2>3, Timing, ClockIntegers DEF Parts, TInv
<1>3. CASE Sleep /\ ~ IsFatal /\ UNCHANGED <<lease, lastSuccess, renewed>>
  <2>1. UNCHANGED <<row, renewedAt, now>>
    BY <1>3 DEF DoCycle, table
  <2>2. pc' = "sleep" /\ timer' = now + PollInterval /\ UNCHANGED <<lease, lastSuccess, renewed>>
    BY <1>3 DEF Sleep
  <2>3. now - lastSuccess < PartitionToleranceSeconds
    BY <1>3, Timing, ClockIntegers DEF IsFatal, Parts
  <2> QED BY <2>1, <2>2, <2>3, Timing, ClockIntegers DEF Parts, TInv
<1> QED BY <1>1, <1>2, <1>3, Zenon DEF DoCycle

LEMMA ListedTimes ==
  ASSUME Parts, TInv, Listed
  PROVE  TInv'
<1>1. /\ UNCHANGED <<row, renewedAt, now, lease, lastSuccess, renewed>> /\ pc = "list"
      /\ pc' = "sleep" /\ timer' = now + PollInterval
  BY DEF Listed, Sleep, table
<1> QED BY <1>1, Timing, ClockIntegers DEF Parts, TInv, waiting

LEMMA WakeTimes ==
  ASSUME Parts, TInv, Wake
  PROVE  TInv'
<1>1. /\ UNCHANGED <<row, renewedAt, now, lease, lastSuccess, renewed>> /\ pc = "sleep"
      /\ now = timer /\ pc' = "poll" /\ call' = "sent" /\ timer' = now + ClientTimeoutSeconds
  BY DEF Wake, Call, table
<1> QED BY <1>1, Timing, ClockIntegers DEF Parts, TInv, waiting

LEMMA TeardownTimes ==
  ASSUME Parts, TInv, TeardownRelease \/ TeardownDelete
  PROVE  TInv'
<1>1. UNCHANGED <<pc, lease, call, timer, lastSuccess, renewed, now>>
  BY DEF TeardownRelease, TeardownDelete, process
<1>2. pc = "down" /\ ~ renewed
  BY DEF TeardownRelease, TeardownDelete, Parts, LabelsInv, Serving
<1>3. renewedAt' \in {renewedAt, 0}
  BY DEF TeardownRelease, TeardownDelete, table
<1> QED BY <1>1, <1>2, <1>3, ClockIntegers DEF Parts, TInv, waiting

LEMMA TickTimes ==
  ASSUME Parts, TInv, Tick
  PROVE  TInv'
<1>1. /\ UNCHANGED <<pc, lease, call, timer, lastSuccess, renewed, row, renewedAt>>
      /\ now' = now + 1 /\ (pc \in waiting \cup {"sleep"} => now < timer)
  BY DEF Tick, process, table
<1> QED BY <1>1, Timing, ClockIntegers DEF Parts, TInv

LEMMA QuietTimes ==
  ASSUME TInv, UNCHANGED <<table, process, now>>
  PROVE  TInv'
BY DEF TInv, table, process

(* A row that is there may be stamped anew beside the daemon; one that is   *)
(* not may come.                                                            *)
LEMMA TableTimes ==
  ASSUME Parts, TInv, UNCHANGED <<process, now>>, renewedAt' \in Nat, renewedAt' <= now,
         row # None => row' = row /\ renewedAt <= renewedAt'
  PROVE  TInv'
<1>1. UNCHANGED <<pc, lease, call, timer, lastSuccess, renewed, now>>
  BY DEF process
<1>2. renewed \/ pc = "poll" => lease # None
  BY Zenon DEF Parts, Control, LabelsInv, Serving
<1> QED BY <1>1, <1>2, Timing, ClockIntegers DEF Parts, TInv

LEMMA RefusedTimes ==
  ASSUME Parts, TInv, pc = "acquire",
         UNCHANGED <<row, renewedAt, pc, lease, timer, lastSuccess, renewed, now>>
  PROVE  TInv'
BY DEF TInv

LEMMA TNext ==
  ASSUME Parts, TInv, [Next]_vars
  PROVE  TInv'
<1>1. CASE Daemon
  BY <1>1, StartUpTimes, ServeTimes, DoCycleTimes, ListedTimes, WakeTimes DEF Daemon
<1>2. CASE Controller \/ Unanswered \/ Reclaimed
  BY <1>2, ControllerTimes, UnansweredTimes, ReclaimedTimes
<1>3. CASE Crash \/ TeardownRelease \/ TeardownDelete \/ Tick
  BY <1>3, StartUpTimes, TeardownTimes, TickTimes
<1>4. ASSUME NEW c \in Container, AddBegins(c) \/ AddStores(c) \/ Del(c) PROVE TInv'
  BY <1>4, QuietTimes DEF AddBegins, AddStores, Del
<1>5. CASE UNCHANGED vars
  BY <1>5, QuietTimes DEF vars
<1> QED BY <1>1, <1>2, <1>3, <1>4, <1>5 DEF Next

(* A daemon that has renewed while serving serves only a lease the          *)
(* controller still keeps for this host: for every expiry, interval,        *)
(* tolerance and timeout that meet TimingAssumption, it exits before the    *)
(* lease can be given to another host.                                      *)
THEOREM ServedLeaseIsLive == Spec => []ServesLiveLease
<1>1. Init => TInv
  BY DEF Init, TInv, waiting
<1>2. DInv /\ TInv /\ [Next]_vars => TInv'
  BY TNext, DInvParts
<1>3. DInv /\ TInv => ServesLiveLease
  <2> SUFFICES ASSUME DInv, TInv, renewed
               PROVE  row = served /\ renewedAt + LeaseExpirationSeconds > now
    BY DEF ServesLiveLease
  <2>1. Parts
    BY DInvParts
  <2>2. row = lease /\ served = lease
    BY Zenon, <2>1 DEF TInv, Parts, Control, LabelsInv
  <2> QED BY <2>1, <2>2, StillLive, Timing, ClockIntegers DEF Parts
<1> QED BY DInvariance, <1>1, <1>2, <1>3, PTL DEF Spec

-------------------------------------------------------------------------------
(* Once started, the process knows every ADD under way as a late one, since *)
(* none begins before it serves; and when it goes to delete the VTEP only   *)
(* those can have been stored since it read the datastore.                  *)
LateInv ==
  /\ \A a \in adding : a \notin containers
  /\ pc \notin Serving \cup {"down"} => adding \subseteq late
  /\ pc = "delete vtep" => containers \subseteq late

LEMMA CallersLate ==
  ASSUME DInv, LateInv, NEW c \in Container, AddBegins(c) \/ AddStores(c) \/ Del(c)
  PROVE  LateInv'
<1>1. CASE AddBegins(c)
  <2>1. pc \in Serving /\ pc' = pc
    BY <1>1 DEF AddBegins, process, DInv, LabelsInv
  <2> QED BY Zenon, <1>1, <2>1 DEF AddBegins, LateInv, Serving
<1>2. CASE AddStores(c)
  <2>1. c \in adding /\ c \notin containers /\ adding' = adding \ {c} /\ pc' = pc
    BY Zenon, <1>2 DEF AddStores, process, LateInv
  <2>2. CASE containers' = containers \cup {c} /\ late' = late
    BY Zenon, <2>1, <2>2 DEF LateInv, Serving
  <2>3. CASE late' = late \ {c} /\ containers' = containers
    BY Zenon, <2>1, <2>3 DEF LateInv
  <2> QED BY <1>2, <2>2, <2>3 DEF AddStores, StoreAdd
<1>3. CASE Del(c)
  BY Zenon, <1>3 DEF Del, StoreDelete, process, LateInv
<1> QED BY <1>1, <1>2, <1>3

LEMMA LateKept ==
  ASSUME LateInv, UNCHANGED cni,
         pc' \in Serving \cup {"down"} \/ pc \notin Serving \cup {"down"} \/ pc' = pc,
         pc' = "delete vtep" => pc = "delete vtep" \/ containers = {}
  PROVE  LateInv'
BY Zenon DEF LateInv, cni, Serving

LEMMA ProcessLate ==
  ASSUME LateInv, Daemon \/ Crash
  PROVE  LateInv'
<1>1. CASE Start
  BY Zenon, <1>1 DEF Start, Call, Goto, LateInv, Serving
<1>2. CASE ReadStore
  BY Zenon, <1>2, LateKept DEF ReadStore, Exit, Goto, Serving
<1>3. CASE DeleteVTEP \/ LinkAdd \/ AddrAdd \/ Serve
  BY Zenon, <1>3, LateKept DEF DeleteVTEP, LinkAdd, AddrAdd, Serve, Exit, Goto, Call, Serving
<1>4. CASE Acquired \/ Renewed
  BY Zenon, <1>4, LateKept DEF Acquired, Renewed, Exit, Goto, Serving
<1>5. CASE DoCycle \/ Listed \/ Wake
  BY Zenon, <1>5, LateKept DEF DoCycle, Listed, Wake, Exit, Goto, Call, Sleep, Serving
<1>6. CASE Crash
  BY <1>6, LateKept DEF Crash, Exit, Goto
<1> QED BY <1>1, <1>2, <1>3, <1>4, <1>5, <1>6 DEF Daemon

LEMMA OthersLate ==
  ASSUME LateInv,
         \/ Controller \/ Unanswered \/ Reclaimed \/ TeardownRelease \/ TeardownDelete \/ Tick
         \/ UNCHANGED vars
  PROVE  LateInv'
<1>1. UNCHANGED <<cni, pc>>
  BY Zenon DEF Controller, ServeAcquire, ServeRenew, ServeList, Unanswered, Reclaimed, Tick,
         TeardownRelease, TeardownDelete, process, vars
<1> QED BY Zenon, <1>1, LateKept

(* Start-up deletes the VTEP under no container but those whose ADD had     *)
(* learned the subnet from the daemon's previous life: the datastore is     *)
(* read first, and nobody learns the subnet before the daemon serves.       *)
THEOREM StartUpSparesContainers == Spec => OnlyLateAddsLoseNetwork
<1>1. Init => LateInv
  BY DEF Init, LateInv
<1>2. DInv /\ LateInv /\ [Next]_vars => LateInv'
  BY CallersLate, ProcessLate, OthersLate DEF Next
<1>3. LateInv /\ [Next]_vars =>
        [(pc = "delete vtep" /\ vtep # None /\ vtep' = None) => containers \subseteq late]_vars
  BY Zenon DEF LateInv
<1> QED BY DInvariance, <1>1, <1>2, <1>3, PTL DEF Spec, OnlyLateAddsLoseNetwork

-------------------------------------------------------------------------------
(* A host whose leases, past and present, are blocks of the configured      *)
(* prefix length: leaseFromVTEPState loses nothing.                         *)
BlocksOnly == SingleIPOnly = FALSE /\ \A s \in OldSubnets : s.len = SubnetPrefixLength

Blocks == blockPool \cup OldSubnets

Relying == {"addr", "renew", "info"} \cup Serving

(* The link has the address of the block it was made for, or none yet, and  *)
(* the daemon's lease is that block wherever it relies on the link.         *)
BInv ==
  /\ row \in Blocks \cup {None} /\ lease \in Blocks \cup {None}
  /\ offer \in Blocks \cup {None} /\ madeFor \in Blocks \cup {None}
  /\ vtep # None => madeFor # None /\ vtep.ip \in {madeFor.ip, None}
  /\ pc \in Relying => lease = madeFor

LEMMA BlockIsItsAddress ==
  ASSUME BlocksOnly, NEW s \in Blocks
  PROVE  s = [ip |-> s.ip, len |-> SubnetPrefixLength] /\ s # None /\ s.ip # None
<1>1. s \in CIDR
  BY DaemonAssumption, PoolsInCIDR DEF DaemonConstants, Blocks
<1>2. s.len = SubnetPrefixLength
  BY DEF Blocks, BlocksOnly, blockPool, generateBlockPool
<1> QED BY <1>1, <1>2, NoneApart DEF CIDR

(* Steps that bring in no subnet and do not come to rely on the link. *)
LEMMA BlocksKept ==
  ASSUME BInv, UNCHANGED host, row' \in {row, None}, lease' \in {lease, None},
         offer' \in {offer, None}, pc' \in Relying => pc \in Relying /\ lease' = lease
  PROVE  BInv'
BY Zenon DEF BInv, host

LEMMA StartBlocks ==
  ASSUME BlocksOnly, Parts, BInv, Start
  PROVE  BInv'
<1>1. UNCHANGED host /\ row' = row /\ offer' = None
  BY Zenon DEF Start, Call, Goto, table
<1>2. CASE HasAddress /\ lease' = leaseFromVTEPState
  <2>1. madeFor \in Blocks /\ vtep.ip = madeFor.ip
    BY Zenon, <1>2 DEF BInv, HasAddress
  <2>2. leaseFromVTEPState = madeFor
    BY <2>1, BlockIsItsAddress DEF leaseFromVTEPState
  <2> QED BY Zenon, <1>1, <1>2, <2>1, <2>2 DEF BInv, host
<1>3. CASE pc' = "acquire" /\ UNCHANGED lease
  BY Zenon, <1>1, <1>3, BlocksKept DEF Relying, Serving
<1> QED BY Zenon, <1>2, <1>3 DEF Start, Call

LEMMA LinkBlocks ==
  ASSUME BlocksOnly, Parts, BInv, DeleteVTEP \/ LinkAdd \/ AddrAdd
  PROVE  BInv'
<1>1. CASE Exit /\ UNCHANGED host
  BY Zenon, <1>1, BlocksKept DEF DeleteVTEP, LinkAdd, AddrAdd, Exit, Goto, table, Relying, Serving
<1>2. CASE DeleteVTEP /\ vtep' = None /\ madeFor' = None /\ Call("acquire") /\ UNCHANGED lease
  BY Zenon, <1>2 DEF DeleteVTEP, Call, table, BInv, Relying, Serving
<1>3. CASE /\ LinkAdd /\ vtep' = [ip |-> None] /\ madeFor' = lease /\ Goto("addr")
           /\ UNCHANGED lease
  <2>1. lease # None /\ row' = row
    BY Zenon, <1>3 DEF LinkAdd, table, Parts, Control
  <2>2. vtep'.ip = None
    BY <1>3
  <2> QED BY Zenon, <1>3, <2>1, <2>2 DEF Goto, BInv
<1>4. CASE /\ AddrAdd /\ vtep' = [ip |-> lease.ip] /\ (Call("renew") \/ Goto("info"))
           /\ UNCHANGED <<lease, madeFor>>
  <2>1. lease # None /\ row' = row /\ pc = "addr" /\ offer' = None
    BY Zenon, <1>4 DEF AddrAdd, Call, Goto, table, Parts, Control
  <2>2. vtep'.ip = lease.ip
    BY <1>4
  <2> QED BY Zenon, <1>4, <2>1, <2>2 DEF BInv, Relying
<1>5. CASE DeleteVTEP
  BY Zenon, <1>1, <1>2, <1>5 DEF DeleteVTEP
<1>6. CASE LinkAdd
  BY Zenon, <1>1, <1>3, <1>6 DEF LinkAdd
<1>7. CASE AddrAdd
  BY Zenon, <1>1, <1>4, <1>7 DEF AddrAdd, host
<1> QED BY <1>5, <1>6, <1>7

LEMMA LoopBlocks ==
  ASSUME Parts, BInv,
         ReadStore \/ Serve \/ Acquired \/ Renewed \/ DoCycle \/ Listed \/ Wake \/ Crash
  PROVE  BInv'
<1>1. UNCHANGED host /\ row' = row /\ offer' = None
  BY Zenon DEF ReadStore, Serve, Acquired, Renewed, DoCycle, Listed, Wake, Crash, Exit, Goto,
     Call, Sleep, table
<1>2. CASE Acquired /\ lease' = offer /\ pc' = "link"
  BY Zenon, <1>1, <1>2 DEF BInv, host, Relying, Serving
<1>3. CASE ReadStore \/ (Acquired /\ Exit) \/ Crash
  BY Zenon, <1>1, <1>3, BlocksKept DEF ReadStore, Crash, Exit, Goto, Relying, Serving
<1>4. CASE Serve \/ Renewed \/ DoCycle \/ Listed \/ Wake
  <2>1. pc \in Relying /\ ((pc' = "down" /\ lease' = None) \/ lease' = lease)
    BY Zenon, <1>4 DEF Serve, Renewed, DoCycle, Listed, Wake, Exit, Goto, Relying, Serving
  <2> QED BY Zenon, <1>1, <2>1, BlocksKept DEF Relying, Serving
<1>5. Acquired => Exit \/ (lease' = offer /\ pc' = "link")
  BY Zenon DEF Acquired, Goto
<1> QED BY <1>2, <1>3, <1>4, <1>5

LEMMA ControllerBlocks ==
  ASSUME BlocksOnly, Parts, BInv, Controller
  PROVE  BInv'
<1>1. UNCHANGED host /\ lease' = lease /\ pc' = pc
  BY Zenon DEF Controller, ServeAcquire, ServeRenew, ServeList
<1>2. CASE ServeAcquire
  <2>1. row' \in Blocks \cup {None} /\ offer' \in Blocks \cup {None}
    BY <1>2 DEF ServeAcquire, table, BInv, BlocksOnly, Blocks
  <2> QED BY Zenon, <1>1, <2>1 DEF BInv, host
<1>3. CASE ServeRenew
  <2>1. row' \in {row, lease} /\ offer' = offer
    BY Zenon, <1>3 DEF ServeRenew, table
  <2> QED BY Zenon, <1>1, <2>1 DEF BInv, host
<1>4. CASE ServeList
  BY Zenon, <1>1, <1>4, BlocksKept DEF ServeList, table
<1> QED BY <1>2, <1>3, <1>4 DEF Controller

LEMMA OutsideBlocks ==
  ASSUME Parts, BInv,
         Unanswered \/ Reclaimed \/ TeardownRelease \/ TeardownDelete \/ Tick
  PROVE  BInv'
<1>1. row' \in {row, None} /\ lease' = lease /\ offer' \in {offer, None} /\ pc' = pc
  BY Zenon DEF Unanswered, Reclaimed, TeardownRelease, TeardownDelete, Tick, table, process
<1>2. CASE UNCHANGED host
  BY Zenon, <1>1, <1>2, BlocksKept
<1>3. CASE TeardownDelete /\ vtep' = None /\ madeFor' = None
  <2>1. pc = "down"
    BY Zenon, <1>3 DEF TeardownDelete, Parts, LabelsInv
  <2> QED BY Zenon, <1>1, <1>3, <2>1 DEF BInv, Relying, Serving
<1> QED BY Zenon, <1>2, <1>3 DEF Unanswered, Reclaimed, TeardownRelease, TeardownDelete, Tick

LEMMA BNext ==
  ASSUME BlocksOnly, DInv, BInv, [Next]_vars
  PROVE  BInv'
<1>1. Parts
  BY DInvParts
<1>2. CASE Daemon
  BY <1>1, <1>2, StartBlocks, LinkBlocks, LoopBlocks DEF Daemon
<1>3. CASE \/ Controller \/ Unanswered \/ Reclaimed \/ Crash \/ TeardownRelease
           \/ TeardownDelete \/ Tick
  BY <1>1, <1>3, ControllerBlocks, OutsideBlocks, LoopBlocks
<1>4. ASSUME NEW c \in Container, AddBegins(c) \/ AddStores(c) \/ Del(c) PROVE BInv'
  BY Zenon, <1>4, BlocksKept DEF AddBegins, AddStores, Del, table, process
<1>5. CASE UNCHANGED vars
  BY Zenon, <1>5, BlocksKept DEF vars, table, process
<1> QED BY <1>2, <1>3, <1>4, <1>5 DEF Next

LEMMA BInitially == Init => BInv
<1> SUFFICES ASSUME Init PROVE BInv
  OBVIOUS
<1>1. lease = None /\ offer = None /\ pc = "down"
  BY Zenon DEF Init
<1>2. CASE vtep = None /\ madeFor = None /\ row = None
  BY Zenon, <1>1, <1>2 DEF BInv, Relying, Serving
<1>3. ASSUME NEW s \in OldSubnets, vtep = [ip |-> s.ip], madeFor = s, row = s PROVE BInv
  <2>1. vtep.ip = s.ip /\ s # None /\ s \in Blocks
    BY <1>3, DaemonAssumption DEF DaemonConstants, Blocks
  <2> QED BY Zenon, <1>1, <1>3, <2>1 DEF BInv, Relying, Serving
<1> QED BY Zenon, <1>2, <1>3 DEF Init

LEMMA DaemonCalls ==
  ASSUME Daemon \/ Crash
  PROVE  call' \in {None, "sent"}
BY Zenon DEF Daemon, Start, ReadStore, DeleteVTEP, LinkAdd, AddrAdd, Serve, Acquired, Renewed,
   DoCycle, Listed, Wake, Crash, Exit, Goto, Call, Sleep

LEMMA OthersCall ==
  ASSUME [Next]_vars
  PROVE  \/ Daemon \/ Crash \/ ServeAcquire \/ ServeRenew \/ ServeList \/ Unanswered \/ Reclaimed
         \/ UNCHANGED <<pc, call, lease, row>>
         \/ UNCHANGED <<pc, call, lease>> /\ pc = "down"
<1>1. TeardownRelease => UNCHANGED <<pc, call, lease>> /\ pc = "down"
  BY Zenon DEF TeardownRelease, process
<1>2. TeardownDelete \/ Tick => UNCHANGED <<pc, call, lease, row>>
  BY Zenon DEF TeardownDelete, Tick, process, table
<1>3. ASSUME NEW c \in Container, AddBegins(c) \/ AddStores(c) \/ Del(c)
      PROVE  UNCHANGED <<pc, call, lease, row>>
  BY Zenon, <1>3 DEF AddBegins, AddStores, Del, process, table
<1>4. UNCHANGED vars => UNCHANGED <<pc, call, lease, row>>
  BY Zenon DEF vars, process, table
<1> QED BY <1>1, <1>2, <1>3, <1>4 DEF Next, Controller

LEMMA Answers == None # "refused"
BY DaemonAssumption DEF DaemonConstants

(* A renewal is refused when the row is of another subnet or is missing. *)
LEMMA RefusedStep ==
  ASSUME DInv, [Next]_vars, pc = "renew", call = "sent", call' = "refused"
  PROVE  row # lease
<1>1. CASE Daemon \/ Crash
  BY Zenon, <1>1, DaemonCalls, Answers
<1>2. CASE ServeAcquire \/ ServeList \/ Unanswered
  BY Zenon, <1>2 DEF ServeAcquire, ServeList, Unanswered
<1>3. CASE ServeRenew
  <2>1. lease # None
    BY Zenon DEF DInv, TypeOK
  <2> QED BY Zenon, <1>3, <2>1 DEF ServeRenew
<1>4. CASE Reclaimed
  BY Zenon, <1>4 DEF Reclaimed, process
<1>5. CASE UNCHANGED <<pc, call, lease, row>>
  BY Zenon, <1>5
<1> QED BY <1>1, <1>2, <1>3, <1>4, <1>5, OthersCall

(* Where every lease is a block of the configured prefix length, a daemon   *)
(* that starts on a host whose VTEP and lease are intact has its renewal    *)
(* accepted: what it rebuilds from the VTEP is the lease the VTEP was made  *)
(* for.  Leases of single addresses are what this needs to exclude.         *)
THEOREM BlockRestartRenews ==
  ASSUME BlocksOnly
  PROVE  Spec => RestartRenewsLease
<1>1. DInv /\ BInv /\ [Next]_vars => BInv'
  BY BNext
<1>2. DInv /\ BInv /\ [Next]_vars =>
        [(pc = "renew" /\ call = "sent" /\ call' = "refused") => row # madeFor]_vars
  BY Zenon, RefusedStep DEF BInv, Relying
<1> QED BY DInvariance, BInitially, <1>1, <1>2, PTL DEF Spec, RestartRenewsLease

-------------------------------------------------------------------------------
(* A host among others: steps of its own, steps of others that leave it     *)
(* alone or change its row.                                                 *)

HostInv == Parts /\ BInv

HostStep ==
  Daemon \/ Controller \/ Unanswered \/ Crash \/ TeardownRelease \/ TeardownDelete \/ Tick

LEMMA OwnStep ==
  ASSUME BlocksOnly, HostInv, HostStep
  PROVE  HostInv' /\ (TInv => TInv')
<1>1. [Next]_vars
  BY DEF HostStep, Next
<1>2. DInv /\ Parts /\ BInv
  BY DInvParts DEF HostInv
<1>3. Parts'
  BY <1>1, <1>2, DNext, DInvParts
<1> QED BY <1>1, <1>2, <1>3, BNext, TNext DEF HostInv

LEMMA QuietStep ==
  ASSUME HostInv, UNCHANGED <<host, cni, table, process, tearing, now>>
  PROVE  HostInv' /\ (TInv => TInv')
<1>1. Parts'
  BY Zenon, QuietKeeps DEF HostInv
<1>2. BInv'
  BY Zenon, BlocksKept DEF HostInv, table, process
<1> QED BY Zenon, <1>1, <1>2, QuietTimes DEF HostInv

LEMMA RefusedStepHost ==
  ASSUME HostInv, pc = "acquire", call' = "error",
         UNCHANGED <<host, cni, table, pc, lease, afterwards, offer, timer, lastSuccess,
                     renewed, served, tearing, now>>
  PROVE  HostInv' /\ (TInv => TInv')
<1>1. Parts'
  BY Zenon, RefusedKeeps DEF HostInv
<1>2. BInv'
  BY Zenon, BlocksKept DEF HostInv, table
<1> QED BY Zenon, <1>1, <1>2, RefusedTimes DEF HostInv, table

LEMMA RowStep ==
  ASSUME BlocksOnly, HostInv, UNCHANGED <<host, cni, process, tearing, now>>,
         row' \in Blocks \cup {None}, renewedAt' \in 0..MaxTime
  PROVE  /\ HostInv'
         /\ /\ TInv /\ renewedAt' <= now
            /\ \/ row # None => row' = row /\ renewedAt <= renewedAt'
               \/ renewedAt + LeaseExpirationSeconds <= now
            => TInv'
<1> USE DEF HostInv
<1>1. Parts'
  <2>1. row' \in CIDR \cup {None}
    BY DaemonAssumption, PoolsInCIDR DEF DaemonConstants, Blocks
  <2> QED BY Zenon, <2>1, TableKeeps
<1>2. BInv'
  BY Zenon DEF BInv, host, process
<1>3. ASSUME TInv, renewedAt' <= now, row # None => row' = row /\ renewedAt <= renewedAt' PROVE TInv'
  <2>1. renewedAt' \in Nat
    BY Timing
  <2> QED BY Zenon, <1>3, <2>1, TableTimes
<1>4. ASSUME TInv, renewedAt' <= now, renewedAt + LeaseExpirationSeconds <= now PROVE TInv'
  <2>1. UNCHANGED <<pc, lease, call, timer, lastSuccess, renewed, now>>
    BY Zenon DEF process
  <2>2. ~ renewed /\ ~ (pc = "poll" /\ call = "ok")
    BY <1>4, StillLive, StillLiveAtAnswer, Timing, ClockIntegers DEF Parts
  <2> QED BY <1>4, <2>1, <2>2, ClockIntegers DEF Parts, TInv
<1> QED BY <1>1, <1>2, <1>3, <1>4

(* What a host's own steps make of its row. *)
LEMMA OwnRow ==
  ASSUME BlocksOnly, HostInv
  PROVE  /\ Daemon \/ ServeList \/ Unanswered \/ Crash \/ TeardownDelete \/ Tick => row' = row
         /\ TeardownRelease => row' \in {row, None}
         /\ ServeAcquire => \/ row' = row
                            \/ row \in OldSubnets \cup {None} /\ row' \in Blocks \cup {None}
         /\ ServeRenew => row' = row \/ (row = None /\ row' = lease)
<1>1. Daemon => row' = row
  BY Zenon DEF Daemon, Start, ReadStore, DeleteVTEP, LinkAdd, AddrAdd, Serve, Acquired, Renewed,
     DoCycle, Listed, Wake, table
<1>2. ServeList \/ Unanswered \/ Crash \/ TeardownDelete \/ Tick => row' = row
  BY Zenon DEF ServeList, Unanswered, Crash, TeardownDelete, Tick, table
<1>3. TeardownRelease => row' \in {row, None}
  BY Zenon DEF TeardownRelease, table
<1>4. ServeRenew => row' = row \/ (row = None /\ row' = lease)
  BY Zenon DEF ServeRenew, table
<1>5. ServeAcquire => \/ row' = row
                      \/ row \in OldSubnets \cup {None} /\ row' \in Blocks \cup {None}
  BY DEF ServeAcquire, table, HostInv, BInv, BlocksOnly, Blocks, IsMember
<1> QED BY <1>1, <1>2, <1>3, <1>4, <1>5

LEMMA OwnClock ==
  Daemon \/ Controller \/ Unanswered \/ Crash \/ TeardownRelease \/ TeardownDelete => now' = now
<1>1. Daemon => now' = now
  BY Zenon DEF Daemon, Start, ReadStore, DeleteVTEP, LinkAdd, AddrAdd, Serve, Acquired, Renewed,
     DoCycle, Listed, Wake
<1> QED BY Zenon, <1>1 DEF Controller, ServeAcquire, ServeRenew, ServeList, Unanswered, Crash,
            TeardownRelease, TeardownDelete

(* A daemon that has renewed serves its row. *)
LEMMA ServesItsRow ==
  ASSUME HostInv, TInv, renewed
  PROVE  row = served /\ served # None
BY Zenon DEF HostInv, TInv, Parts, Control, LabelsInv

LEMMA HostInitially == Init => HostInv /\ TInv
<1>1. Init => TInv
  BY DEF Init, TInv, waiting
<1> QED BY <1>1, DInitially, DInvParts, BInitially DEF HostInv

LEMMA HostTypes ==
  ASSUME HostInv
  PROVE  /\ TypeOK /\ row \in Blocks \cup {None}
         /\ pc \in {"renew", "poll"} => lease \in Blocks
<1>1. TypeOK
  BY Zenon, DInvParts DEF HostInv, DInv
<1> QED BY <1>1 DEF HostInv, Parts, Control, BInv
=================================================================================
