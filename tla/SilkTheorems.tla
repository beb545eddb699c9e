------------------------------- MODULE SilkTheorems -------------------------------
(***************************************************************************)
(* Two hosts and the controller's table, for every overlay network and      *)
(* every timing that meet the assumptions.  DaemonTheorems says what the    *)
(* steps of one host keep, be they its own or changes of its row; here its  *)
(* lemmas are used for each of the two, and what relates the hosts is       *)
(* added: their rows differ, and what a late request asks for is a block.   *)
(***************************************************************************)
EXTENDS Silk, CIDRPoolTheorems

-------------------------------------------------------------------------------
(* The table and the requests, whatever the daemons do. *)

Requests ==
  {Acquire(1), Acquire(2), Release(1), Release(2)}
    \cup [host : {1, 2}, op : {"renew"}, subnet : blockPool]

Gains(row, new, others) == row = None /\ new \in blockPool /\ new # others

(* A step changes one row at most: it ends the lease or grants a free block. *)
RowsStep ==
  \/ row1' = row1 /\ row2' = row2
  \/ row2' = row2 /\ (row1' = None \/ Gains(row1, row1', row2))
  \/ row1' = row1 /\ (row2' = None \/ Gains(row2, row2', row1))

LEMMA Pool ==
  /\ blockPool \subseteq CIDR /\ None \notin blockPool
  /\ \A s, t \in blockPool : s # t => ~ Overlap(s, t)
<1>1. /\ Network.len \in 0..AddrBits /\ SubnetPrefixLength \in Network.len..AddrBits
      /\ IsNetwork(Network.ip, Network.len)
  BY SilkNetworkAssumption, NetworkFits, AddrBitsAssumption, SizePositive DEF CIDR, Address
<1>2. blockPool \subseteq CIDR
  BY <1>1, PoolsAreCIDRs DEF blockPool
<1>3. \A s, t \in blockPool : s # t => ~ Overlap(s, t)
  BY <1>1, PoolsAreDisjoint DEF blockPool
<1> QED BY <1>2, <1>3, SilkNetworkAssumption

(* A request of a client that gave up renews the row it finds, fills an     *)
(* empty one with a free block, or does nothing, unless it is a release.    *)
LEMMA ServedLate ==
  ASSUME NEW r \in Requests, NEW row \in blockPool \cup {None}, NEW renewedAt \in 0..MaxTime,
         NEW others, now \in 0..MaxTime, NEW t \in Served(r, row, renewedAt, others)
  PROVE  /\ t[1] \in blockPool \cup {None} /\ t[2] \in 0..MaxTime
         /\ t[1] \in {row, None} \/ Gains(row, t[1], others)
         /\ r.op # "release" /\ renewedAt <= now =>
              t[2] <= now /\ (row # None => t[1] = row /\ renewedAt <= t[2])
<1>1. MaxTime \in Nat
  BY SilkTimingAssumption
<1>2. CASE r \in {Acquire(1), Acquire(2)}
  <2>1. r.op = "acquire"
    BY <1>2 DEF Acquire
  <2>2. t \in IF row # None \/ blockPool = {others} THEN {<<row, renewedAt>>}
              ELSE {<<s, now>> : s \in blockPool \ {others}}
    BY <2>1 DEF Served
  <2> QED BY <1>1, <2>1, <2>2 DEF Gains
<1>3. CASE r \in {Release(1), Release(2)}
  <2>1. r.op = "release"
    BY <1>3 DEF Release
  <2>2. t = <<None, 0>>
    BY <2>1 DEF Served
  <2> QED BY <1>1, <2>1, <2>2
<1>4. CASE r \in [host : {1, 2}, op : {"renew"}, subnet : blockPool]
  <2>1. r.op = "renew" /\ r.subnet \in blockPool
    BY <1>4
  <2>2. t = IF row \in {r.subnet, None} /\ MayLease(r.subnet, others)
            THEN <<r.subnet, now>> ELSE <<row, renewedAt>>
    BY <2>1 DEF Served
  <2> QED BY <1>1, <2>1, <2>2, Pool DEF MayLease, Gains
<1> QED BY Zenon, <1>2, <1>3, <1>4 DEF Requests

LEMMA PendingRequests ==
  ASSUME NEW h \in {1, 2}, NEW pc, NEW call, NEW lease,
         pc \in {"renew", "poll"} => lease \in blockPool
  PROVE  Pending(h, pc, call, lease) \cup {Release(h)} \subseteq Requests
BY DEF Pending, Requests, Acquire

LEMMA RequestTypes == \A r \in Requests : r.op = "renew" => r.subnet \in CIDR
BY Pool DEF Requests, Acquire, Release

(* A lease that ends leaves the registry, and a block that a host without   *)
(* a row gains overlaps none that is granted.                               *)
LEMMA EndsOrGrants1 ==
  ASSUME row2 \in blockPool \cup {None}, row2' = row2, row1' = None \/ Gains(row1, row1', row2)
  PROVE  [Registry!Next]_held
<1> DEFINE l == [host |-> 1, subnet |-> row1]
           g == [host |-> 1, subnet |-> row1']
<1>1. CASE row1' = None /\ row1 = None
  BY <1>1 DEF held
<1>2. CASE row1' = None /\ row1 # None
  <2>1. l \in held /\ held' = held \ {l}
    BY <1>2 DEF held
  <2> QED BY Zenon, <2>1 DEF Registry!Next, Registry!End
<1>3. CASE Gains(row1, row1', row2)
  <2>1. row1' \in blockPool /\ row1 = None /\ row1' # None /\ row1' # row2
    BY Zenon, <1>3, Pool DEF Gains
  <2>2. held' = held \cup {g}
    BY <2>1 DEF held
  <2>3. \A m \in held : m.host = 2 /\ m.subnet = row2 /\ row2 # None
    BY <2>1 DEF held
  <2>4. row2 # None => Registry!Apart(row2, row1')
    <3>1. row2 # None => ~ Overlap(row2, row1')
      BY Zenon, <2>1, Pool
    <3> QED BY Zenon, <2>1, <3>1 DEF Registry!Apart, Overlap, Registry!Overlap, Contains,
               Registry!Contains, Size, Registry!Size, Address, Registry!Address
  <2>5. Registry!Free(1, row1')
    BY <2>3, <2>4 DEF Registry!Free
  <2> QED BY Zenon, <2>1, <2>2, <2>5 DEF Registry!Next, Registry!Grant
<1> QED BY Zenon, <1>1, <1>2, <1>3

LEMMA EndsOrGrants2 ==
  ASSUME row1 \in blockPool \cup {None}, row1' = row1, row2' = None \/ Gains(row2, row2', row1)
  PROVE  [Registry!Next]_held
<1> DEFINE l == [host |-> 2, subnet |-> row2]
           g == [host |-> 2, subnet |-> row2']
<1>1. CASE row2' = None /\ row2 = None
  BY <1>1 DEF held
<1>2. CASE row2' = None /\ row2 # None
  <2>1. l \in held /\ held' = held \ {l}
    BY <1>2 DEF held
  <2> QED BY Zenon, <2>1 DEF Registry!Next, Registry!End
<1>3. CASE Gains(row2, row2', row1)
  <2>1. row2' \in blockPool /\ row2 = None /\ row2' # None /\ row2' # row1
    BY Zenon, <1>3, Pool DEF Gains
  <2>2. held' = held \cup {g}
    BY <2>1 DEF held
  <2>3. \A m \in held : m.host = 1 /\ m.subnet = row1 /\ row1 # None
    BY <2>1 DEF held
  <2>4. row1 # None => Registry!Apart(row1, row2')
    <3>1. row1 # None => ~ Overlap(row1, row2')
      BY Zenon, <2>1, Pool
    <3> QED BY Zenon, <2>1, <3>1 DEF Registry!Apart, Overlap, Registry!Overlap, Contains,
               Registry!Contains, Size, Registry!Size, Address, Registry!Address
  <2>5. Registry!Free(2, row2')
    BY <2>3, <2>4 DEF Registry!Free
  <2> QED BY Zenon, <2>1, <2>2, <2>5 DEF Registry!Next, Registry!Grant
<1> QED BY Zenon, <1>1, <1>2, <1>3

(* The initial table is the empty registry, and a step of the rows is a     *)
(* step of the registry or leaves it alone.                                 *)
LEMMA RegistryInitially == Init => row1 = None /\ row2 = None /\ Registry!Init
<1> SUFFICES ASSUME Init PROVE row1 = None /\ row2 = None /\ Registry!Init
  OBVIOUS
<1>1. row1 = None /\ row2 = None
  BY DEF Init, H1!Init, H2!Init
<1>2. held = {}
  BY <1>1 DEF held
<1> QED BY <1>1, <1>2 DEF Registry!Init

LEMMA RegistryStep ==
  ASSUME row1 \in blockPool \cup {None}, row2 \in blockPool \cup {None}, RowsStep
  PROVE  [Registry!Next]_held
<1>1. CASE row1' = row1 /\ row2' = row2
  BY <1>1 DEF held
<1> QED BY Zenon, <1>1, EndsOrGrants1, EndsOrGrants2 DEF RowsStep

-------------------------------------------------------------------------------
(* The first host: a step of H1 is a step of D1, and what D1's lemmas say    *)
(* of it.                                                                    *)

D1 == INSTANCE DaemonTheorems WITH
        SingleIPOnly <- FALSE, OldSubnets <- {}, Container <- {},
        containers <- {}, adding <- {}, late <- {},
        row <- row1, renewedAt <- renewedAt1, vtep <- vtep1, madeFor <- madeFor1,
        pc <- pc1, lease <- lease1, afterwards <- afterwards1, call <- call1,
        offer <- offer1, timer <- timer1, lastSuccess <- lastSuccess1,
        renewed <- renewed1, served <- served1, tearing <- tearing1

LEMMA Same1 ==
  /\ H1!Daemon => D1!Daemon
  /\ H1!ServeAcquire => D1!ServeAcquire
  /\ H1!ServeRenew => D1!ServeRenew
  /\ H1!ServeList => D1!ServeList
  /\ H1!Unanswered => D1!Unanswered
  /\ H1!Crash => D1!Crash
  /\ H1!TeardownRelease => D1!TeardownRelease
  /\ H1!TeardownDelete => D1!TeardownDelete
  /\ H1!Tick => D1!Tick
<1>1. H1!Daemon => D1!Daemon
  BY Zenon DEF H1!Daemon, D1!Daemon, H1!Start, D1!Start, H1!ReadStore, D1!ReadStore,
       H1!DeleteVTEP, D1!DeleteVTEP, H1!LinkAdd, D1!LinkAdd, H1!AddrAdd, D1!AddrAdd, H1!Serve,
       D1!Serve, H1!Acquired, D1!Acquired, H1!Renewed, D1!Renewed, H1!DoCycle, D1!DoCycle,
       H1!Listed, D1!Listed, H1!Wake, D1!Wake, H1!Goto, D1!Goto, H1!Call, D1!Call, H1!Exit,
       D1!Exit, H1!Fault, D1!Fault, H1!Fine, D1!Fine, H1!leaseFromVTEPState,
       D1!leaseFromVTEPState, H1!HasAddress, D1!HasAddress, H1!Contains, D1!Contains, H1!Size,
       D1!Size, H1!IsFatal, D1!IsFatal, H1!Sleep, D1!Sleep, H1!host, D1!host, H1!cni, D1!cni,
       H1!table, D1!table, H1!process, D1!process, H1!waiting, D1!waiting
<1> QED BY Zenon, <1>1 DEF H1!ServeAcquire, D1!ServeAcquire, H1!ServeRenew, D1!ServeRenew, H1!ServeList,
     D1!ServeList, H1!Unanswered, D1!Unanswered, H1!Crash, D1!Crash, H1!TeardownRelease,
     D1!TeardownRelease, H1!TeardownDelete, D1!TeardownDelete, H1!Tick, D1!Tick, H1!Goto,
     D1!Goto, H1!Exit, D1!Exit, H1!Fault, D1!Fault, H1!Fine, D1!Fine, H1!host, D1!host, H1!cni,
     D1!cni, H1!table, D1!table, H1!process, D1!process, H1!waiting, D1!waiting, H1!Size,
     D1!Size, H1!IsMember, D1!IsMember, H1!blockPool, D1!blockPool, H1!singlePool,
     D1!singlePool, H1!generateBlockPool, D1!generateBlockPool, H1!generateSingleIPPool,
     D1!generateSingleIPPool, H1!IPAdd, D1!IPAdd, H1!BlockOffsets, D1!BlockOffsets

LEMMA Assumed1 ==
  D1!AddrBitsAssumption /\ D1!ShiftAssumption /\ D1!DaemonAssumption /\ D1!TimingAssumption
BY AddrBitsAssumption, ShiftAssumption, SilkNetworkAssumption, SilkTimingAssumption
   DEF D1!AddrBitsAssumption, D1!ShiftAssumption, D1!DaemonAssumption, D1!TimingAssumption,
       D1!DaemonConstants, D1!LeaseOutlivesServing, D1!CIDR, D1!Address, CIDR, Address

LEMMA Blocks1 == D1!Blocks = blockPool /\ D1!BlocksOnly
BY Zenon DEF D1!Blocks, D1!BlocksOnly, D1!blockPool, D1!generateBlockPool, D1!BlockOffsets, D1!IPAdd,
     D1!Size, blockPool, generateBlockPool, BlockOffsets, IPAdd, Size

LEMMA Own1 ==
  ASSUME D1!HostInv,
         \/ H1!Daemon \/ H1!ServeList \/ H1!TeardownDelete \/ H1!ServeAcquire \/ H1!ServeRenew
         \/ H1!Unanswered \/ H1!Crash \/ H1!TeardownRelease \/ H1!Tick
  PROVE  D1!HostInv' /\ (D1!TInv => D1!TInv')
<1>1. D1!HostStep
  BY Zenon, Same1 DEF D1!HostStep, D1!Controller
<1> QED BY Zenon, <1>1, D1!OwnStep, Blocks1, Assumed1

LEMMA Rows1 ==
  ASSUME D1!HostInv
  PROVE  /\ H1!Daemon \/ H1!ServeList \/ H1!TeardownDelete \/ H1!Unanswered \/ H1!Crash
            => row1' = row1 /\ now' = now
         /\ H1!Tick => row1' = row1
         /\ H1!TeardownRelease => row1' \in {row1, None} /\ now' = now
         /\ H1!ServeAcquire =>
              /\ row1' = row1 \/ (row1 = None /\ row1' \in blockPool \cup {None})
              /\ now' = now
         /\ H1!ServeRenew =>
              /\ row1' = row1 \/ (row1 = None /\ row1' = lease1 /\ lease1 \in blockPool)
              /\ now' = now
<1>1. /\ D1!Daemon \/ D1!ServeList \/ D1!Unanswered \/ D1!Crash \/ D1!TeardownDelete \/ D1!Tick
         => row1' = row1
      /\ D1!TeardownRelease => row1' \in {row1, None}
      /\ D1!ServeAcquire => \/ row1' = row1
                            \/ row1 \in {} \cup {None} /\ row1' \in D1!Blocks \cup {None}
      /\ D1!ServeRenew => row1' = row1 \/ (row1 = None /\ row1' = lease1)
  BY Zenon, D1!OwnRow, Blocks1, Assumed1
<1>2. D1!Daemon \/ D1!Controller \/ D1!Unanswered \/ D1!Crash \/ D1!TeardownRelease
      \/ D1!TeardownDelete => now' = now
  BY Zenon, D1!OwnClock, Assumed1
<1>3. pc1 \in {"renew", "poll"} => lease1 \in D1!Blocks
  BY Zenon, D1!HostTypes, Assumed1
<1>4. H1!ServeRenew => pc1 \in {"renew", "poll"}
  BY Zenon DEF H1!ServeRenew
<1> QED BY Zenon, <1>1, <1>2, <1>3, <1>4, Blocks1, Same1 DEF D1!Controller

LEMMA Quiet1 ==
  ASSUME D1!HostInv, UNCHANGED <<host1, now>>
  PROVE  D1!HostInv' /\ (D1!TInv => D1!TInv')
<1>1. UNCHANGED <<D1!host, D1!cni, D1!table, D1!process, tearing1, now>>
  BY Zenon DEF D1!host, D1!cni, D1!table, D1!process, host1, table1, rest1
<1> QED BY Zenon, <1>1, D1!QuietStep, Assumed1

LEMMA Refused1 ==
  ASSUME D1!HostInv, asking1, call1' = "error", UNCHANGED <<table1, rest1, now>>
  PROVE  D1!HostInv' /\ (D1!TInv => D1!TInv')
<1>1. pc1 = "acquire" /\ UNCHANGED <<D1!host, D1!cni, D1!table, pc1, lease1, afterwards1, offer1, timer1,
                 lastSuccess1, renewed1, served1, tearing1, now>>
  BY Zenon DEF D1!host, D1!cni, D1!table, table1, rest1, asking1
<1> QED BY Zenon, <1>1, D1!RefusedStepHost, Assumed1

LEMMA Table1 ==
  ASSUME D1!HostInv, UNCHANGED <<rest1, call1, now>>,
         row1' \in blockPool \cup {None}, renewedAt1' \in 0..MaxTime
  PROVE  /\ D1!HostInv'
         /\ /\ D1!TInv /\ renewedAt1' <= now
            /\ \/ row1 # None => row1' = row1 /\ renewedAt1 <= renewedAt1'
               \/ renewedAt1 + LeaseExpirationSeconds <= now
            => D1!TInv'
<1>1. UNCHANGED <<D1!host, D1!cni, D1!process, tearing1, now>>
  BY Zenon DEF D1!host, D1!cni, D1!process, rest1
<1> QED BY Zenon, <1>1, D1!RowStep, Blocks1, Assumed1

LEMMA Types1 ==
  ASSUME D1!HostInv
  PROVE  /\ H1!TypeOK /\ row1 \in blockPool \cup {None}
         /\ renewedAt1 \in 0..MaxTime /\ now \in 0..MaxTime
         /\ pc1 \in {"renew", "poll"} => lease1 \in blockPool
<1>1. D1!TypeOK /\ row1 \in D1!Blocks \cup {None} /\ (pc1 \in {"renew", "poll"} => lease1 \in D1!Blocks)
  BY Zenon, D1!HostTypes, Assumed1
<1>2. H1!TypeOK /\ renewedAt1 \in 0..MaxTime /\ now \in 0..MaxTime
  BY Zenon, <1>1 DEF H1!TypeOK, D1!TypeOK, H1!waiting, D1!waiting, H1!CIDR, D1!CIDR, H1!Address, D1!Address
<1> QED BY Zenon, <1>1, <1>2, Blocks1

LEMMA Initially1 == H1!Init => D1!HostInv /\ D1!TInv
<1>1. H1!Init => D1!Init
  BY Zenon DEF H1!Init, D1!Init
<1> QED BY Zenon, <1>1, D1!HostInitially, Assumed1

LEMMA Renewed1 ==
  ASSUME D1!HostInv, D1!TInv, renewed1
  PROVE  row1 = served1 /\ served1 # None
BY Zenon, D1!ServesItsRow, Assumed1

-------------------------------------------------------------------------------
(* The second host, in the same way. *)

D2 == INSTANCE DaemonTheorems WITH
        SingleIPOnly <- FALSE, OldSubnets <- {}, Container <- {},
        containers <- {}, adding <- {}, late <- {},
        row <- row2, renewedAt <- renewedAt2, vtep <- vtep2, madeFor <- madeFor2,
        pc <- pc2, lease <- lease2, afterwards <- afterwards2, call <- call2,
        offer <- offer2, timer <- timer2, lastSuccess <- lastSuccess2,
        renewed <- renewed2, served <- served2, tearing <- tearing2

LEMMA Same2 ==
  /\ H2!Daemon => D2!Daemon
  /\ H2!ServeAcquire => D2!ServeAcquire
  /\ H2!ServeRenew => D2!ServeRenew
  /\ H2!ServeList => D2!ServeList
  /\ H2!Unanswered => D2!Unanswered
  /\ H2!Crash => D2!Crash
  /\ H2!TeardownRelease => D2!TeardownRelease
  /\ H2!TeardownDelete => D2!TeardownDelete
  /\ H2!Tick => D2!Tick
<1>1. H2!Daemon => D2!Daemon
  BY Zenon DEF H2!Daemon, D2!Daemon, H2!Start, D2!Start, H2!ReadStore, D2!ReadStore,
       H2!DeleteVTEP, D2!DeleteVTEP, H2!LinkAdd, D2!LinkAdd, H2!AddrAdd, D2!AddrAdd, H2!Serve,
       D2!Serve, H2!Acquired, D2!Acquired, H2!Renewed, D2!Renewed, H2!DoCycle, D2!DoCycle,
       H2!Listed, D2!Listed, H2!Wake, D2!Wake, H2!Goto, D2!Goto, H2!Call, D2!Call, H2!Exit,
       D2!Exit, H2!Fault, D2!Fault, H2!Fine, D2!Fine, H2!leaseFromVTEPState,
       D2!leaseFromVTEPState, H2!HasAddress, D2!HasAddress, H2!Contains, D2!Contains, H2!Size,
       D2!Size, H2!IsFatal, D2!IsFatal, H2!Sleep, D2!Sleep, H2!host, D2!host, H2!cni, D2!cni,
       H2!table, D2!table, H2!process, D2!process, H2!waiting, D2!waiting
<1> QED BY Zenon, <1>1 DEF H2!ServeAcquire, D2!ServeAcquire, H2!ServeRenew, D2!ServeRenew, H2!ServeList,
     D2!ServeList, H2!Unanswered, D2!Unanswered, H2!Crash, D2!Crash, H2!TeardownRelease,
     D2!TeardownRelease, H2!TeardownDelete, D2!TeardownDelete, H2!Tick, D2!Tick, H2!Goto,
     D2!Goto, H2!Exit, D2!Exit, H2!Fault, D2!Fault, H2!Fine, D2!Fine, H2!host, D2!host, H2!cni,
     D2!cni, H2!table, D2!table, H2!process, D2!process, H2!waiting, D2!waiting, H2!Size,
     D2!Size, H2!IsMember, D2!IsMember, H2!blockPool, D2!blockPool, H2!singlePool,
     D2!singlePool, H2!generateBlockPool, D2!generateBlockPool, H2!generateSingleIPPool,
     D2!generateSingleIPPool, H2!IPAdd, D2!IPAdd, H2!BlockOffsets, D2!BlockOffsets

LEMMA Assumed2 ==
  D2!AddrBitsAssumption /\ D2!ShiftAssumption /\ D2!DaemonAssumption /\ D2!TimingAssumption
BY AddrBitsAssumption, ShiftAssumption, SilkNetworkAssumption, SilkTimingAssumption
   DEF D2!AddrBitsAssumption, D2!ShiftAssumption, D2!DaemonAssumption, D2!TimingAssumption,
       D2!DaemonConstants, D2!LeaseOutlivesServing, D2!CIDR, D2!Address, CIDR, Address

LEMMA Blocks2 == D2!Blocks = blockPool /\ D2!BlocksOnly
BY Zenon DEF D2!Blocks, D2!BlocksOnly, D2!blockPool, D2!generateBlockPool, D2!BlockOffsets, D2!IPAdd,
     D2!Size, blockPool, generateBlockPool, BlockOffsets, IPAdd, Size

LEMMA Own2 ==
  ASSUME D2!HostInv,
         \/ H2!Daemon \/ H2!ServeList \/ H2!TeardownDelete \/ H2!ServeAcquire \/ H2!ServeRenew
         \/ H2!Unanswered \/ H2!Crash \/ H2!TeardownRelease \/ H2!Tick
  PROVE  D2!HostInv' /\ (D2!TInv => D2!TInv')
<1>1. D2!HostStep
  BY Zenon, Same2 DEF D2!HostStep, D2!Controller
<1> QED BY Zenon, <1>1, D2!OwnStep, Blocks2, Assumed2

LEMMA Rows2 ==
  ASSUME D2!HostInv
  PROVE  /\ H2!Daemon \/ H2!ServeList \/ H2!TeardownDelete \/ H2!Unanswered \/ H2!Crash
            => row2' = row2 /\ now' = now
         /\ H2!Tick => row2' = row2
         /\ H2!TeardownRelease => row2' \in {row2, None} /\ now' = now
         /\ H2!ServeAcquire =>
              /\ row2' = row2 \/ (row2 = None /\ row2' \in blockPool \cup {None})
              /\ now' = now
         /\ H2!ServeRenew =>
              /\ row2' = row2 \/ (row2 = None /\ row2' = lease2 /\ lease2 \in blockPool)
              /\ now' = now
<1>1. /\ D2!Daemon \/ D2!ServeList \/ D2!Unanswered \/ D2!Crash \/ D2!TeardownDelete \/ D2!Tick
         => row2' = row2
      /\ D2!TeardownRelease => row2' \in {row2, None}
      /\ D2!ServeAcquire => \/ row2' = row2
                            \/ row2 \in {} \cup {None} /\ row2' \in D2!Blocks \cup {None}
      /\ D2!ServeRenew => row2' = row2 \/ (row2 = None /\ row2' = lease2)
  BY Zenon, D2!OwnRow, Blocks2, Assumed2
<1>2. D2!Daemon \/ D2!Controller \/ D2!Unanswered \/ D2!Crash \/ D2!TeardownRelease
      \/ D2!TeardownDelete => now' = now
  BY Zenon, D2!OwnClock, Assumed2
<1>3. pc2 \in {"renew", "poll"} => lease2 \in D2!Blocks
  BY Zenon, D2!HostTypes, Assumed2
<1>4. H2!ServeRenew => pc2 \in {"renew", "poll"}
  BY Zenon DEF H2!ServeRenew
<1> QED BY Zenon, <1>1, <1>2, <1>3, <1>4, Blocks2, Same2 DEF D2!Controller

LEMMA Quiet2 ==
  ASSUME D2!HostInv, UNCHANGED <<host2, now>>
  PROVE  D2!HostInv' /\ (D2!TInv => D2!TInv')
<1>1. UNCHANGED <<D2!host, D2!cni, D2!table, D2!process, tearing2, now>>
  BY Zenon DEF D2!host, D2!cni, D2!table, D2!process, host2, table2, rest2
<1> QED BY Zenon, <1>1, D2!QuietStep, Assumed2

LEMMA Refused2 ==
  ASSUME D2!HostInv, asking2, call2' = "error", UNCHANGED <<table2, rest2, now>>
  PROVE  D2!HostInv' /\ (D2!TInv => D2!TInv')
<1>1. pc2 = "acquire" /\ UNCHANGED <<D2!host, D2!cni, D2!table, pc2, lease2, afterwards2, offer2, timer2,
                 lastSuccess2, renewed2, served2, tearing2, now>>
  BY Zenon DEF D2!host, D2!cni, D2!table, table2, rest2, asking2
<1> QED BY Zenon, <1>1, D2!RefusedStepHost, Assumed2

LEMMA Table2 ==
  ASSUME D2!HostInv, UNCHANGED <<rest2, call2, now>>,
         row2' \in blockPool \cup {None}, renewedAt2' \in 0..MaxTime
  PROVE  /\ D2!HostInv'
         /\ /\ D2!TInv /\ renewedAt2' <= now
            /\ \/ row2 # None => row2' = row2 /\ renewedAt2 <= renewedAt2'
               \/ renewedAt2 + LeaseExpirationSeconds <= now
            => D2!TInv'
<1>1. UNCHANGED <<D2!host, D2!cni, D2!process, tearing2, now>>
  BY Zenon DEF D2!host, D2!cni, D2!process, rest2
<1> QED BY Zenon, <1>1, D2!RowStep, Blocks2, Assumed2

LEMMA Types2 ==
  ASSUME D2!HostInv
  PROVE  /\ H2!TypeOK /\ row2 \in blockPool \cup {None}
         /\ renewedAt2 \in 0..MaxTime /\ now \in 0..MaxTime
         /\ pc2 \in {"renew", "poll"} => lease2 \in blockPool
<1>1. D2!TypeOK /\ row2 \in D2!Blocks \cup {None} /\ (pc2 \in {"renew", "poll"} => lease2 \in D2!Blocks)
  BY Zenon, D2!HostTypes, Assumed2
<1>2. H2!TypeOK /\ renewedAt2 \in 0..MaxTime /\ now \in 0..MaxTime
  BY Zenon, <1>1 DEF H2!TypeOK, D2!TypeOK, H2!waiting, D2!waiting, H2!CIDR, D2!CIDR, H2!Address, D2!Address
<1> QED BY Zenon, <1>1, <1>2, Blocks2

LEMMA Initially2 == H2!Init => D2!HostInv /\ D2!TInv
<1>1. H2!Init => D2!Init
  BY Zenon DEF H2!Init, D2!Init
<1> QED BY Zenon, <1>1, D2!HostInitially, Assumed2

LEMMA Renewed2 ==
  ASSUME D2!HostInv, D2!TInv, renewed2
  PROVE  row2 = served2 /\ served2 # None
BY Zenon, D2!ServesItsRow, Assumed2

-------------------------------------------------------------------------------
(* The two hosts and the table. *)

(* Each host satisfies its own invariants with leases from the pool, the    *)
(* rows differ, every request left behind asks for a block of the pool, and *)
(* until a race or a late release the clocks are as for a host alone.       *)
SInv ==
  /\ D1!HostInv /\ D2!HostInv
  /\ MayLease(row1, row2)
  /\ stray \subseteq Requests
  /\ selected \in {1, 2, None} /\ raced \in BOOLEAN /\ lateRelease \in BOOLEAN
  /\ raced \/ lateRelease \/ (D1!TInv /\ D2!TInv)

LEMMA RowsApart ==
  ASSUME SInv, RowsStep
  PROVE  MayLease(row1', row2')
BY Zenon DEF SInv, RowsStep, Gains, MayLease

(* What a step has to show of the invariant when the two flags stay. *)
LEMMA Kept ==
  ASSUME SInv, RowsStep, D1!HostInv', D1!TInv => D1!TInv', D2!HostInv', D2!TInv => D2!TInv',
         stray' \subseteq Requests, selected' \in {1, 2, None}, UNCHANGED <<raced, lateRelease>>
  PROVE  SInv'
<1>1. MayLease(row1', row2')
  BY Zenon, RowsApart
<1> QED BY Zenon, <1>1 DEF SInv, MayLease

LEMMA Step1Keeps ==
  ASSUME SInv, Step1
  PROVE  SInv' /\ RowsStep
<1>1. /\ D1!HostInv' /\ (D1!TInv => D1!TInv')
      /\ now' = now /\ (row1' \in {row1, None} \/ Gains(row1, row1', row2))
  BY Zenon, Own1, Rows1 DEF SInv, Step1, MayLease, Gains
<1>2. D2!HostInv' /\ (D2!TInv => D2!TInv') /\ RowsStep
  BY Zenon, <1>1, Quiet2 DEF SInv, Step1, RowsStep, host2, table2
<1> QED BY Zenon, <1>1, <1>2, Kept DEF Step1, SInv

LEMMA GiveUp1Keeps ==
  ASSUME SInv, GiveUp1
  PROVE  SInv' /\ RowsStep
<1>1. D1!HostInv' /\ (D1!TInv => D1!TInv') /\ now' = now /\ row1' \in {row1, None}
  BY Zenon, Own1, Rows1 DEF SInv, GiveUp1
<1>2. D2!HostInv' /\ (D2!TInv => D2!TInv') /\ RowsStep
  BY Zenon, <1>1, Quiet2 DEF SInv, GiveUp1, RowsStep, host2, table2
<1>3. stray' \subseteq Requests
  <2>1. pc1 \in {"renew", "poll"} => lease1 \in blockPool
    BY Zenon, Types1 DEF SInv
  <2>2. Pending(1, pc1, call1, lease1) \cup {Release(1)} \subseteq Requests
    BY <2>1, PendingRequests
  <2> QED BY Zenon, <2>2 DEF GiveUp1, SInv
<1> QED BY Zenon, <1>1, <1>2, <1>3, Kept DEF GiveUp1, SInv

LEMMA Step2Keeps ==
  ASSUME SInv, Step2
  PROVE  SInv' /\ RowsStep
<1>1. /\ D2!HostInv' /\ (D2!TInv => D2!TInv')
      /\ now' = now /\ (row2' \in {row2, None} \/ Gains(row2, row2', row1))
  BY Zenon, Own2, Rows2 DEF SInv, Step2, MayLease, Gains
<1>2. D1!HostInv' /\ (D1!TInv => D1!TInv') /\ RowsStep
  BY Zenon, <1>1, Quiet1 DEF SInv, Step2, RowsStep, host1, table1
<1> QED BY Zenon, <1>1, <1>2, Kept DEF Step2, SInv

LEMMA GiveUp2Keeps ==
  ASSUME SInv, GiveUp2
  PROVE  SInv' /\ RowsStep
<1>1. D2!HostInv' /\ (D2!TInv => D2!TInv') /\ now' = now /\ row2' \in {row2, None}
  BY Zenon, Own2, Rows2 DEF SInv, GiveUp2
<1>2. D1!HostInv' /\ (D1!TInv => D1!TInv') /\ RowsStep
  BY Zenon, <1>1, Quiet1 DEF SInv, GiveUp2, RowsStep, host1, table1
<1>3. stray' \subseteq Requests
  <2>1. pc2 \in {"renew", "poll"} => lease2 \in blockPool
    BY Zenon, Types2 DEF SInv
  <2>2. Pending(2, pc2, call2, lease2) \cup {Release(2)} \subseteq Requests
    BY <2>1, PendingRequests
  <2> QED BY Zenon, <2>2 DEF GiveUp2, SInv
<1> QED BY Zenon, <1>1, <1>2, <1>3, Kept DEF GiveUp2, SInv

LEMMA Delete1 ==
  ASSUME SInv, DeleteSelected, selected = 1
  PROVE  SInv' /\ RowsStep
<1>1. /\ row1' = None /\ renewedAt1' = 0 /\ UNCHANGED <<rest1, call1, host2, now>>
      /\ raced' = (raced \/ (row1 # None /\ ~ Expired(row1, renewedAt1)))
      /\ selected' = None /\ UNCHANGED <<stray, lateRelease>>
  BY DEF DeleteSelected, host2, bounds
<1>2. /\ D1!HostInv'
      /\ D1!TInv /\ (row1 = None \/ Expired(row1, renewedAt1)) => D1!TInv'
  <2>1. 0 \in 0..MaxTime /\ now \in 0..MaxTime /\ 0 <= now
    BY SilkTimingAssumption, Types1 DEF SInv
  <2> QED BY Zenon, <1>1, <2>1, Table1 DEF SInv, Expired
<1>3. D2!HostInv' /\ (D2!TInv => D2!TInv') /\ RowsStep
  BY Zenon, <1>1, Quiet2 DEF SInv, RowsStep, host2, table2
<1> QED BY Zenon, <1>1, <1>2, <1>3, RowsApart DEF SInv, MayLease

LEMMA NoneFor1 ==
  ASSUME SInv, asking1, call1' = "error", UNCHANGED <<table1, rest1, host2, now>>,
         UNCHANGED <<selected, stray, raced, lateRelease>>
  PROVE  SInv' /\ RowsStep
<1>1. D1!HostInv' /\ (D1!TInv => D1!TInv') /\ D2!HostInv' /\ (D2!TInv => D2!TInv')
  BY Zenon, Refused1, Quiet2 DEF SInv
<1>2. RowsStep
  BY Zenon DEF RowsStep, host2, table1, table2
<1> QED BY Zenon, <1>1, <1>2, Kept DEF SInv

LEMMA Stray1 ==
  ASSUME SInv, NEW r \in stray, ServeStray(r), r.host = 1
  PROVE  SInv' /\ RowsStep
<1>1. PICK t \in Served(r, row1, renewedAt1, row2) : row1' = t[1] /\ renewedAt1' = t[2]
  BY DEF ServeStray
<1>2. /\ UNCHANGED <<rest1, call1, host2, now, selected, raced>>
      /\ stray' = stray \ {r} /\ lateRelease' = (lateRelease \/ r.op = "release")
  BY DEF ServeStray, host2, bounds
<1>3. row1 \in blockPool \cup {None} /\ renewedAt1 \in 0..MaxTime /\ now \in 0..MaxTime
  BY Zenon, Types1 DEF SInv
<1>4. /\ row1' \in blockPool \cup {None} /\ renewedAt1' \in 0..MaxTime
      /\ row1' \in {row1, None} \/ Gains(row1, row1', row2)
      /\ r.op # "release" /\ renewedAt1 <= now =>
           renewedAt1' <= now /\ (row1 # None => row1' = row1 /\ renewedAt1 <= renewedAt1')
  <2>1. r \in Requests
    BY Zenon DEF SInv
  <2>2. /\ t[1] \in blockPool \cup {None} /\ t[2] \in 0..MaxTime
        /\ t[1] \in {row1, None} \/ Gains(row1, t[1], row2)
        /\ r.op # "release" /\ renewedAt1 <= now =>
             t[2] <= now /\ (row1 # None => t[1] = row1 /\ renewedAt1 <= t[2])
    BY Zenon, <1>3, <2>1, ServedLate
  <2> QED BY Zenon, <1>1, <2>2
<1>5. D1!HostInv' /\ (D1!TInv /\ r.op # "release" => D1!TInv')
  <2>1. D1!TInv => renewedAt1 <= now
    BY Zenon DEF D1!TInv
  <2> QED BY Zenon, <1>2, <1>4, <2>1, Table1 DEF SInv
<1>6. D2!HostInv' /\ (D2!TInv => D2!TInv') /\ RowsStep
  BY Zenon, <1>2, <1>4, Quiet2 DEF SInv, RowsStep, host2, table2
<1> QED BY Zenon, <1>2, <1>5, <1>6, RowsApart DEF SInv, MayLease

LEMMA Delete2 ==
  ASSUME SInv, DeleteSelected, selected = 2
  PROVE  SInv' /\ RowsStep
<1>1. /\ row2' = None /\ renewedAt2' = 0 /\ UNCHANGED <<rest2, call2, host1, now>>
      /\ raced' = (raced \/ (row2 # None /\ ~ Expired(row2, renewedAt2)))
      /\ selected' = None /\ UNCHANGED <<stray, lateRelease>>
  BY DEF DeleteSelected, host1, bounds
<1>2. /\ D2!HostInv'
      /\ D2!TInv /\ (row2 = None \/ Expired(row2, renewedAt2)) => D2!TInv'
  <2>1. 0 \in 0..MaxTime /\ now \in 0..MaxTime /\ 0 <= now
    BY SilkTimingAssumption, Types2 DEF SInv
  <2> QED BY Zenon, <1>1, <2>1, Table2 DEF SInv, Expired
<1>3. D1!HostInv' /\ (D1!TInv => D1!TInv') /\ RowsStep
  BY Zenon, <1>1, Quiet1 DEF SInv, RowsStep, host1, table1
<1> QED BY Zenon, <1>1, <1>2, <1>3, RowsApart DEF SInv, MayLease

LEMMA NoneFor2 ==
  ASSUME SInv, asking2, call2' = "error", UNCHANGED <<table2, rest2, host1, now>>,
         UNCHANGED <<selected, stray, raced, lateRelease>>
  PROVE  SInv' /\ RowsStep
<1>1. D2!HostInv' /\ (D2!TInv => D2!TInv') /\ D1!HostInv' /\ (D1!TInv => D1!TInv')
  BY Zenon, Refused2, Quiet1 DEF SInv
<1>2. RowsStep
  BY Zenon DEF RowsStep, host1, table1, table2
<1> QED BY Zenon, <1>1, <1>2, Kept DEF SInv

LEMMA Stray2 ==
  ASSUME SInv, NEW r \in stray, ServeStray(r), r.host = 2
  PROVE  SInv' /\ RowsStep
<1>1. PICK t \in Served(r, row2, renewedAt2, row1) : row2' = t[1] /\ renewedAt2' = t[2]
  BY DEF ServeStray
<1>2. /\ UNCHANGED <<rest2, call2, host1, now, selected, raced>>
      /\ stray' = stray \ {r} /\ lateRelease' = (lateRelease \/ r.op = "release")
  BY DEF ServeStray, host1, bounds
<1>3. row2 \in blockPool \cup {None} /\ renewedAt2 \in 0..MaxTime /\ now \in 0..MaxTime
  BY Zenon, Types2 DEF SInv
<1>4. /\ row2' \in blockPool \cup {None} /\ renewedAt2' \in 0..MaxTime
      /\ row2' \in {row2, None} \/ Gains(row2, row2', row1)
      /\ r.op # "release" /\ renewedAt2 <= now =>
           renewedAt2' <= now /\ (row2 # None => row2' = row2 /\ renewedAt2 <= renewedAt2')
  <2>1. r \in Requests
    BY Zenon DEF SInv
  <2>2. /\ t[1] \in blockPool \cup {None} /\ t[2] \in 0..MaxTime
        /\ t[1] \in {row2, None} \/ Gains(row2, t[1], row1)
        /\ r.op # "release" /\ renewedAt2 <= now =>
             t[2] <= now /\ (row2 # None => t[1] = row2 /\ renewedAt2 <= t[2])
    BY Zenon, <1>3, <2>1, ServedLate
  <2> QED BY Zenon, <1>1, <2>2
<1>5. D2!HostInv' /\ (D2!TInv /\ r.op # "release" => D2!TInv')
  <2>1. D2!TInv => renewedAt2 <= now
    BY Zenon DEF D2!TInv
  <2> QED BY Zenon, <1>2, <1>4, <2>1, Table2 DEF SInv
<1>6. D1!HostInv' /\ (D1!TInv => D1!TInv') /\ RowsStep
  BY Zenon, <1>2, <1>4, Quiet1 DEF SInv, RowsStep, host1, table1
<1> QED BY Zenon, <1>2, <1>5, <1>6, RowsApart DEF SInv, MayLease

LEMMA SelectKeeps ==
  ASSUME SInv, SelectExpired \/ End \/ UNCHANGED vars
  PROVE  SInv' /\ RowsStep
<1>1. UNCHANGED <<host1, host2, now, stray, raced, lateRelease>> /\ selected' \in {1, 2, None}
  BY Zenon DEF SelectExpired, End, vars, bounds, SInv
<1>2. RowsStep
  BY Zenon, <1>1 DEF RowsStep, host1, host2, table1, table2
<1> QED BY Zenon, <1>1, <1>2, Quiet1, Quiet2, Kept DEF SInv

LEMMA TickKeeps ==
  ASSUME SInv, Tick
  PROVE  SInv' /\ RowsStep
<1>1. RowsStep
  BY Zenon, Rows1, Rows2 DEF Tick, SInv, RowsStep
<1> QED BY Zenon, <1>1, Own1, Own2, Kept DEF Tick, SInv

LEMMA SNext ==
  ASSUME SInv, [Next]_vars
  PROVE  SInv' /\ RowsStep
<1>1. CASE DeleteSelected
  BY Zenon, <1>1, Delete1, Delete2 DEF DeleteSelected
<1>2. CASE NoneAvailable
  BY Zenon, <1>2, NoneFor1, NoneFor2 DEF NoneAvailable, Exhausted, host1, host2, bounds
<1>3. ASSUME NEW r \in stray, ServeStray(r) PROVE SInv' /\ RowsStep
  BY Zenon, <1>3, Stray1, Stray2 DEF ServeStray
<1> QED BY Zenon, <1>1, <1>2, <1>3, Step1Keeps, Step2Keeps, GiveUp1Keeps, GiveUp2Keeps,
           SelectKeeps, TickKeeps DEF Next

LEMMA SInitially == Init => SInv
<1> SUFFICES ASSUME Init PROVE SInv
  OBVIOUS
<1>1. D1!HostInv /\ D1!TInv /\ D2!HostInv /\ D2!TInv
  BY Zenon, Initially1, Initially2 DEF Init
<1> QED BY <1>1, RegistryInitially DEF Init, SInv, MayLease

LEMMA SInvariance == Spec => []SInv
BY SInitially, SNext, PTL DEF Spec

-------------------------------------------------------------------------------
(* Type correctness of the two hosts, the table and the requests whose      *)
(* clients have given up.                                                   *)
THEOREM SilkTypeCorrect == Spec => []TypeOK
<1>1. SInv => TypeOK
  <2> SUFFICES ASSUME SInv PROVE TypeOK
    OBVIOUS
  <2>1. H1!TypeOK /\ H2!TypeOK
    BY Zenon, Types1, Types2 DEF SInv
  <2> QED BY Zenon, <2>1, RequestTypes DEF TypeOK, SInv
<1> QED BY SInvariance, <1>1, PTL

(* A host that has renewed while serving keeps its row in the controller's  *)
(* table, whatever the other host, restarts, lost answers and late requests *)
(* do, for every overlay network and every timing of the assumption, except *)
(* after a reclaim that raced a renewal or a release served late.           *)
THEOREM ServedRowIsKept == Spec => []ServedStaysLeased
<1>1. SInv => ServedStaysLeased
  BY Zenon, Renewed1, Renewed2 DEF SInv, ServedStaysLeased
<1> QED BY SInvariance, <1>1, PTL

(* Two daemons that have both renewed while serving serve subnets without   *)
(* a common address, with the same exceptions.                              *)
THEOREM RangesAreUnique == Spec => []UniqueRanges
<1>1. SInv => UniqueRanges
  <2> SUFFICES ASSUME SInv, renewed1, renewed2, ~ raced, ~ lateRelease
               PROVE  ~ Overlap(served1, served2)
    BY DEF UniqueRanges
  <2>1. row1 = served1 /\ served1 # None /\ row2 = served2 /\ served2 # None
    BY Zenon, Renewed1, Renewed2 DEF SInv
  <2>2. row1 \in blockPool /\ row2 \in blockPool /\ row1 # row2
    BY Zenon, <2>1, Types1, Types2 DEF SInv, MayLease
  <2> QED BY Zenon, <2>1, <2>2, Pool
<1> QED BY SInvariance, <1>1, PTL

(* The table with its two hosts implements the registry: whatever is lost,  *)
(* late or raced, a grant is of a free block to a host without one, and     *)
(* leases end one at a time.                                                *)
THEOREM SilkImplementsRegistry == Spec => ImplementsRegistry
<1>1. SInv /\ [Next]_vars => [Registry!Next]_held
  <2> SUFFICES ASSUME SInv, [Next]_vars PROVE [Registry!Next]_held
    OBVIOUS
  <2>1. row1 \in blockPool \cup {None} /\ row2 \in blockPool \cup {None}
    BY Zenon, Types1, Types2 DEF SInv
  <2> QED BY Zenon, <2>1, SNext, RegistryStep
<1> QED BY SInvariance, RegistryInitially, <1>1, PTL DEF Spec, ImplementsRegistry, Registry!Spec
===================================================================================
