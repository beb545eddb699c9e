--------------------------- MODULE ConvergerTheorems ---------------------------
(***************************************************************************)
(* The converger, for every overlay network, every set of hosts and leased *)
(* subnets, and any number of list changes, failing calls and unresolved   *)
(* neighbours: it keeps the connected route, never breaks a working path,  *)
(* and a cycle without an error has converged.                             *)
(***************************************************************************)
EXTENDS Converger, TLAPS

RouteRec == [dst : CIDR, gw : Address \cup {None}]
ARPRec == [ip : Address, mac : HardwareAddr \cup {None}, state : {"permanent", "incomplete"}]
FDBRec == [ip : Host, mac : HardwareAddr, state : {"permanent"}]

(* What the converger and the kernel put into the tables, and the keys that *)
(* netlink keeps unique.                                                    *)
GoodRoutes(R) ==
  /\ R \subseteq RouteRec
  /\ \A r \in R : r = connected \/ (r.gw # None /\ Contains(OverlayNetwork, r.gw))

GoodARP(A) ==
  /\ A \subseteq ARPRec
  /\ \A n \in A : n = Unresolved(n.ip)
                  \/ (n.state = "permanent" /\ n.mac = GenerateForVTEP(n.ip))
  /\ \A n, m \in A : n.ip = m.ip => n = m

GoodFDB(F) ==
  /\ F \subseteq FDBRec
  /\ \A n, m \in F : n.mac = m.mac => n = m

Kernel ==
  /\ GoodRoutes(routes) /\ GoodARP(arp) /\ GoodFDB(fdb)
  /\ connected \in routes

(* A snapshot has the tables' properties. *)
Snapshot ==
  GoodRoutes(previous.routes) /\ GoodARP(previous.arp) /\ GoodFDB(previous.fdb)

Wanted == Remote(leases)
WantedRoutes == {Route(l) : l \in Wanted}
WantedARP == {ARP(l) : l \in Wanted}
WantedFDB == {FDB(l) : l \in Wanted}

(* Where the cycle stands. *)
Steps ==
  /\ listed \in LeaseList /\ leases \in LeaseList
  /\ todo \subseteq Wanted
  /\ pc \in {"idle", "apply", "arp", "fdb", "delete"}
  /\ IF pc \in {"arp", "fdb"} THEN current \in todo ELSE current = None
  /\ pc = "delete" => todo = {}
  /\ pc # "delete" => routesForDeletion = {} /\ neighsForDeletion = {}

(* Only what was read before and is not wanted is marked. *)
Marked ==
  /\ \A r \in routesForDeletion :
       r \in previous.routes /\ r.gw # None /\ r \notin WantedRoutes
  /\ \A d \in neighsForDeletion :
       /\ d.neigh \notin WantedARP \cup WantedFDB
       /\ \/ d.family = "arp" /\ d.neigh \in previous.arp
          \/ d.family = "fdb" /\ d.neigh \in previous.fdb

(* What has been applied is there ... *)
Applied ==
  /\ \A l \in Wanted \ todo : pc # "idle" =>
       /\ Route(l) \in routes /\ FDB(l) \in fdb
       /\ \/ ARP(l) \in arp
          \/ pc = "delete" /\ Unresolved(l.overlay_subnet.ip) \in previous.arp
  /\ pc \in {"arp", "fdb"} => Route(current) \in routes
  /\ pc = "fdb" => ARP(current) \in arp

(* ... and what is there is wanted, or was there before and will go. *)
Pending ==
  /\ pc \in {"apply", "arp", "fdb"} =>
       /\ routes \subseteq previous.routes \cup WantedRoutes
       /\ \A n \in arp : n.state = "permanent" => n \in previous.arp \cup WantedARP
       /\ fdb \subseteq previous.fdb \cup WantedFDB
  /\ pc = "delete" =>
       /\ routes \subseteq {connected} \cup WantedRoutes \cup routesForDeletion
       /\ \A n \in arp : n.state = "permanent" =>
            n \in WantedARP \/ \E d \in neighsForDeletion : d.family = "arp" /\ d.neigh = n
       /\ \A n \in fdb :
            n \in WantedFDB \/ \E d \in neighsForDeletion : d.family = "fdb" /\ d.neigh = n

CInv == Kernel /\ Snapshot /\ Steps /\ Marked /\ Applied /\ Pending

-------------------------------------------------------------------------------
AllLeases == {LeaseFor(u, s) : u \in Host, s \in LeasedSubnets}

LEMMA LeaseFields ==
  ASSUME NEW l \in AllLeases
  PROVE  /\ l.underlay_ip \in Host /\ l.overlay_subnet \in LeasedSubnets
         /\ l.overlay_subnet \in CIDR /\ l.overlay_subnet.ip \in Address
         /\ l.overlay_hwaddr = GenerateForVTEP(l.overlay_subnet.ip)
         /\ l.overlay_hwaddr \in HardwareAddr
BY ConvergerAssumption DEF AllLeases, LeaseFor, HardwareAddr, CIDR

LEMMA HwaddrsApart ==
  ASSUME NEW a, NEW b, GenerateForVTEP(a) = GenerateForVTEP(b)
  PROVE  a = b
BY DEF GenerateForVTEP

(* The entries of a lease are well formed. *)
LEMMA EntryTypes ==
  ASSUME NEW l \in AllLeases
  PROVE  /\ Route(l) \in RouteRec /\ Route(l).gw \in Address
         /\ ARP(l) \in ARPRec /\ ARP(l).state = "permanent"
         /\ ARP(l).ip = l.overlay_subnet.ip
         /\ ARP(l).mac = GenerateForVTEP(ARP(l).ip)
         /\ FDB(l) \in FDBRec
<1>1. destNet(l.overlay_subnet) = l.overlay_subnet
  BY LeaseFields, LeasedSubnetsAssumption
<1> QED BY <1>1, LeaseFields DEF Route, ARP, FDB, RouteRec, ARPRec, FDBRec

LEMMA RemoteLeases ==
  ASSUME NEW L \in LeaseList
  PROVE  /\ Remote(L) \in SUBSET L /\ L \in SUBSET AllLeases
         /\ \A l \in Remote(L) : /\ Route(l).dst # OverlayNetwork
                                 /\ Contains(OverlayNetwork, Route(l).gw)
<1>1. Remote(L) \in SUBSET L /\ L \in SUBSET AllLeases
  BY DEF Remote, LeaseList, AllLeases
<1>2. ASSUME NEW l \in Remote(L)
      PROVE  Route(l).dst # OverlayNetwork /\ Contains(OverlayNetwork, Route(l).gw)
  <2> DEFINE s == l.overlay_subnet
  <2>1. s \in LeasedSubnets /\ s \in CIDR
    BY <1>1, LeaseFields
  <2>2. destNet(s) = s /\ Contains(OverlayNetwork, destNet(s).ip)
    BY <2>1, LeasedSubnetsAssumption DEF Remote
  <2>3. s.len > OverlayNetwork.len
    BY <2>1, <2>2, LeasedSubnetsAssumption
  <2>4. s.len \in Int /\ OverlayNetwork.len \in Int
    BY <2>1, ConvergerAssumption DEF CIDR
  <2>5. s # OverlayNetwork
    BY <2>3, <2>4
  <2> QED BY <2>2, <2>5 DEF Route
<1> QED BY <1>1, <1>2

(* Different leases of a list have different keys in every table. *)
LEMMA KeysApart ==
  ASSUME NEW L \in LeaseList, NEW l \in L, NEW m \in L, l # m
  PROVE  /\ Route(l).dst # Route(m).dst /\ ARP(l).ip # ARP(m).ip
         /\ FDB(l).mac # FDB(m).mac
<1>1. l \in AllLeases /\ m \in AllLeases
  BY RemoteLeases
<1>2. l.overlay_subnet # m.overlay_subnet
  BY DEF LeaseList
<1>3. l.overlay_subnet.ip # m.overlay_subnet.ip
  BY <1>1, <1>2, LeaseFields, LeasedSubnetsAssumption
<1>4. /\ destNet(l.overlay_subnet) = l.overlay_subnet
      /\ destNet(m.overlay_subnet) = m.overlay_subnet
  BY <1>1, LeaseFields, LeasedSubnetsAssumption
<1>5. l.overlay_hwaddr # m.overlay_hwaddr
  BY <1>1, <1>3, LeaseFields, HwaddrsApart
<1> QED BY <1>2, <1>3, <1>4, <1>5 DEF Route, ARP, FDB

LEMMA EmptyTables == GoodRoutes({}) /\ GoodARP({}) /\ GoodFDB({})
BY DEF GoodRoutes, GoodARP, GoodFDB

LEMMA EmptyList == {} \in LeaseList /\ Remote({}) = {}
BY DEF LeaseList, Remote

-------------------------------------------------------------------------------
(* What the netlink calls keep. *)

LEMMA RouteReplaceKeeps ==
  ASSUME GoodRoutes(routes), connected \in routes,
         NEW l \in AllLeases, Route(l).dst # OverlayNetwork,
         Contains(OverlayNetwork, Route(l).gw), RouteReplace(Route(l))
  PROVE  GoodRoutes(routes') /\ connected \in routes'
<1>1. Route(l) \in RouteRec /\ Route(l).gw # None
  BY EntryTypes, ConvergerAssumption
<1>2. connected.dst = OverlayNetwork
  BY DEF connected
<1> QED BY <1>1, <1>2 DEF GoodRoutes, RouteReplace

LEMMA NeighSetARPKeeps ==
  ASSUME GoodARP(arp), NEW l \in AllLeases, NeighSetARP(ARP(l))
  PROVE  GoodARP(arp')
BY EntryTypes DEF GoodARP, NeighSetARP

LEMMA NeighSetFDBKeeps ==
  ASSUME GoodFDB(fdb), NEW l \in AllLeases, NeighSetFDB(FDB(l))
  PROVE  GoodFDB(fdb')
BY EntryTypes DEF GoodFDB, NeighSetFDB

LEMMA SubtablesGood ==
  /\ \A R, S : GoodRoutes(R) /\ S \subseteq R => GoodRoutes(S)
  /\ \A R, S : GoodARP(R) /\ S \subseteq R => GoodARP(S)
  /\ \A R, S : GoodFDB(R) /\ S \subseteq R => GoodFDB(S)
BY DEF GoodRoutes, GoodARP, GoodFDB

(* A cycle that has ended leaves nothing to keep but the tables. *)
LEMMA ReturnKeeps ==
  ASSUME CInv, Return, UNCHANGED listed, Kernel'
  PROVE  CInv'
<1>1. pc' = "idle" /\ leases' = {} /\ todo' = {} /\ current' = None
      /\ routesForDeletion' = {} /\ neighsForDeletion' = {}
      /\ previous'.routes = {} /\ previous'.arp = {} /\ previous'.fdb = {}
  BY DEF Return, NothingRead
<1>2. Wanted' = {}
  BY <1>1, EmptyList DEF Wanted
<1>3. Snapshot'
  BY <1>1, EmptyTables DEF Snapshot
<1>4. Steps'
  BY <1>1, <1>2, EmptyList DEF CInv, Steps
<1>5. Marked' /\ Applied' /\ Pending'
  BY <1>1, <1>2 DEF Marked, Applied, Pending
<1> QED BY <1>3, <1>4, <1>5 DEF CInv

LEMMA ConvergeKeeps ==
  ASSUME CInv, Converge
  PROVE  CInv'
<1>1. /\ pc = "idle" /\ pc' = "apply" /\ leases' = listed /\ todo' = Remote(listed)
      /\ UNCHANGED <<routes, arp, fdb, listed, current, routesForDeletion, neighsForDeletion>>
      /\ previous'.routes = routes /\ previous'.arp = arp /\ previous'.fdb = fdb
  BY DEF Converge, kernel
<1>2. Wanted' = todo'
  BY <1>1 DEF Wanted
<1>3. Kernel' /\ Snapshot'
  BY <1>1 DEF CInv, Kernel, Snapshot
<1>4. Steps' /\ Marked'
  BY <1>1, <1>2 DEF CInv, Steps, Marked
<1>5. Applied' /\ Pending'
  BY <1>1, <1>2 DEF Applied, Pending
<1> QED BY <1>3, <1>4, <1>5 DEF CInv

LEMMA WantedLeases ==
  ASSUME Steps
  PROVE  /\ Wanted \in SUBSET leases /\ Wanted \in SUBSET AllLeases
         /\ \A l \in Wanted : /\ Route(l).dst # OverlayNetwork
                              /\ Contains(OverlayNetwork, Route(l).gw)
         /\ \A l, m \in Wanted : l # m => /\ Route(l).dst # Route(m).dst
                                          /\ ARP(l).ip # ARP(m).ip
                                          /\ FDB(l).mac # FDB(m).mac
<1>1. leases \in LeaseList /\ Wanted = Remote(leases)
  BY DEF Steps, Wanted
<1>2. Wanted \in SUBSET leases
  BY <1>1, RemoteLeases
<1> QED BY <1>1, <1>2, RemoteLeases, KeysApart

LEMMA addRouteKeeps ==
  ASSUME CInv, addRoute
  PROVE  CInv'
<1>1. PICK l \in todo : RouteReplace(Route(l)) /\ current' = l
  BY DEF addRoute
<1>2. /\ pc = "apply" /\ pc' = "arp"
      /\ UNCHANGED <<arp, fdb, listed, leases, todo, previous, routesForDeletion, neighsForDeletion>>
  BY DEF addRoute
<1>3. l \in Wanted /\ l \in AllLeases
  BY WantedLeases DEF CInv, Steps
<1>4. UNCHANGED <<Wanted, WantedRoutes, WantedARP, WantedFDB>>
  BY <1>2 DEF Wanted, WantedRoutes, WantedARP, WantedFDB
<1>5. Kernel'
  BY <1>1, <1>2, <1>3, RouteReplaceKeeps, WantedLeases DEF CInv, Kernel
<1>6. Snapshot' /\ Steps' /\ Marked'
  BY <1>1, <1>2, <1>4 DEF CInv, Snapshot, Steps, Marked
<1>7. Applied'
  <2>1. Route(l) \in routes'
    BY <1>1 DEF RouteReplace
  <2>2. ASSUME NEW m \in Wanted \ todo PROVE Route(m) \in routes' /\ FDB(m) \in fdb' /\ ARP(m) \in arp'
    <3>1. Route(m) \in routes /\ FDB(m) \in fdb /\ ARP(m) \in arp
      BY <1>2 DEF CInv, Applied
    <3>2. Route(m).dst # Route(l).dst
      BY <1>3, WantedLeases DEF CInv
    <3> QED BY <1>1, <1>2, <3>1, <3>2 DEF RouteReplace
  <2> QED BY <1>1, <1>2, <1>4, <2>1, <2>2 DEF Applied
<1>8. Pending'
  <2>1. routes' \subseteq routes \cup WantedRoutes
    BY <1>1, <1>3 DEF RouteReplace, WantedRoutes
  <2> QED BY <1>2, <1>4, <2>1 DEF CInv, Pending
<1> QED BY <1>5, <1>6, <1>7, <1>8 DEF CInv

LEMMA addNeighARPKeeps ==
  ASSUME CInv, addNeighARP
  PROVE  CInv'
<1>1. NeighSetARP(ARP(current)) /\ current \in todo
  BY DEF addNeighARP, CInv, Steps
<1>2. /\ pc = "arp" /\ pc' = "fdb"
      /\ UNCHANGED <<routes, fdb, listed, leases, todo, current, previous, routesForDeletion,
                     neighsForDeletion>>
  BY DEF addNeighARP
<1>3. current \in Wanted /\ current \in AllLeases
  BY <1>1, WantedLeases DEF CInv, Steps
<1>4. UNCHANGED <<Wanted, WantedRoutes, WantedARP, WantedFDB>>
  BY <1>2 DEF Wanted, WantedRoutes, WantedARP, WantedFDB
<1>5. Kernel'
  BY <1>1, <1>2, <1>3, NeighSetARPKeeps DEF CInv, Kernel
<1>6. Snapshot' /\ Steps' /\ Marked'
  BY <1>2, <1>4 DEF CInv, Snapshot, Steps, Marked
<1>7. Applied'
  <2>1. ARP(current) \in arp'
    BY <1>1 DEF NeighSetARP
  <2>2. ASSUME NEW m \in Wanted \ todo PROVE Route(m) \in routes' /\ FDB(m) \in fdb' /\ ARP(m) \in arp'
    <3>1. Route(m) \in routes /\ FDB(m) \in fdb /\ ARP(m) \in arp
      BY <1>2 DEF CInv, Applied
    <3>2. ARP(m).ip # ARP(current).ip
      BY <1>1, <1>3, WantedLeases DEF CInv
    <3> QED BY <1>1, <1>2, <3>1, <3>2 DEF NeighSetARP
  <2>3. Route(current') \in routes' /\ ARP(current') \in arp'
    BY <1>2, <2>1 DEF CInv, Applied
  <2> QED BY <1>2, <1>4, <2>2, <2>3 DEF Applied
<1>8. Pending'
  <2>1. arp' \subseteq arp \cup WantedARP
    BY <1>1, <1>3 DEF NeighSetARP, WantedARP
  <2> QED BY <1>2, <1>4, <2>1 DEF CInv, Pending
<1> QED BY <1>5, <1>6, <1>7, <1>8 DEF CInv

LEMMA addNeighFDBKeeps ==
  ASSUME CInv, addNeighFDB
  PROVE  CInv'
<1>1. NeighSetFDB(FDB(current)) /\ current \in todo
  BY DEF addNeighFDB, CInv, Steps
<1>2. /\ pc = "fdb" /\ pc' = "apply" /\ todo' = todo \ {current} /\ current' = None
      /\ UNCHANGED <<routes, arp, listed, leases, previous, routesForDeletion, neighsForDeletion>>
  BY DEF addNeighFDB
<1>3. current \in Wanted /\ current \in AllLeases
  BY <1>1, WantedLeases DEF CInv, Steps
<1>4. UNCHANGED <<Wanted, WantedRoutes, WantedARP, WantedFDB>>
  BY <1>2 DEF Wanted, WantedRoutes, WantedARP, WantedFDB
<1>5. Kernel'
  BY <1>1, <1>2, <1>3, NeighSetFDBKeeps DEF CInv, Kernel
<1>6. Snapshot' /\ Steps' /\ Marked'
  BY <1>2, <1>4 DEF CInv, Snapshot, Steps, Marked
<1>7. Applied'
  <2>1. ASSUME NEW m \in Wanted \ todo' PROVE Route(m) \in routes' /\ FDB(m) \in fdb' /\ ARP(m) \in arp'
    <3>1. CASE m = current
      BY <1>1, <1>2, <3>1 DEF CInv, Applied, NeighSetFDB
    <3>2. CASE m # current
      <4>1. Route(m) \in routes /\ FDB(m) \in fdb /\ ARP(m) \in arp
        BY <1>2, <3>2 DEF CInv, Applied
      <4>2. FDB(m).mac # FDB(current).mac
        BY <1>3, <3>2, WantedLeases DEF CInv
      <4> QED BY <1>1, <1>2, <4>1, <4>2 DEF NeighSetFDB
    <3> QED BY <3>1, <3>2
  <2> QED BY <1>2, <1>4, <2>1 DEF Applied
<1>8. Pending'
  <2>1. fdb' \subseteq fdb \cup WantedFDB
    BY <1>1, <1>3 DEF NeighSetFDB, WantedFDB
  <2> QED BY <1>2, <1>4, <2>1 DEF CInv, Pending
<1> QED BY <1>5, <1>6, <1>7, <1>8 DEF CInv

(* Overlay and underlay addresses differ, so no FDB entry is mistaken for   *)
(* an ARP entry or the other way round.                                     *)
LEMMA FamiliesApart ==
  ASSUME Steps
  PROVE  /\ \A n \in ARPRec : n \notin WantedFDB
         /\ \A n \in FDBRec : n \notin WantedARP
<1>1. \A n \in ARPRec : n.ip \in Address /\ n.ip \notin Host
  BY ConvergerAssumption DEF ARPRec
<1>2. \A n \in FDBRec : n.ip \in Host /\ n.ip \notin Address
  BY ConvergerAssumption DEF FDBRec
<1>3. WantedFDB \subseteq FDBRec /\ WantedARP \subseteq ARPRec
  BY EntryTypes, WantedLeases DEF WantedFDB, WantedARP
<1> QED BY <1>1, <1>2, <1>3

LEMMA compareKeeps ==
  ASSUME CInv, compare
  PROVE  CInv'
<1>1. /\ pc = "apply" /\ pc' = "delete" /\ todo = {}
      /\ UNCHANGED <<routes, arp, fdb, listed, leases, todo, current, previous>>
      /\ routesForDeletion' = getDeletedRoutes
      /\ neighsForDeletion' = Tagged(getDeletedNeighs(previous.arp), "arp")
                                \cup Tagged(getDeletedNeighs(previous.fdb), "fdb")
  BY DEF compare, kernel
<1>2. applied = Wanted /\ currentNeighs = WantedARP \cup WantedFDB
  BY <1>1 DEF applied, currentNeighs, Wanted, WantedARP, WantedFDB
<1>3. UNCHANGED <<Wanted, WantedRoutes, WantedARP, WantedFDB>>
  BY <1>1 DEF Wanted, WantedRoutes, WantedARP, WantedFDB
<1>4. routesForDeletion' = {r \in previous.routes : /\ r \notin WantedRoutes /\ r.gw # None
                                                    /\ Contains(OverlayNetwork, r.gw)}
  BY <1>1, <1>2 DEF getDeletedRoutes, WantedRoutes
<1>5. Kernel' /\ Snapshot' /\ Steps'
  BY <1>1, <1>3 DEF CInv, Kernel, Snapshot, Steps
<1>6. Marked'
  BY <1>1, <1>2, <1>3, <1>4 DEF Marked, Tagged, getDeletedNeighs
<1>7. Applied'
  BY <1>1, <1>3 DEF CInv, Applied
<1>8. Pending'
  <2>1. routes \subseteq {connected} \cup WantedRoutes \cup routesForDeletion'
    BY <1>1, <1>4 DEF CInv, Pending, Snapshot, GoodRoutes
  <2>2. ASSUME NEW n \in arp, n.state = "permanent", n \notin WantedARP
        PROVE  \E d \in neighsForDeletion' : d.family = "arp" /\ d.neigh = n
    <3>1. n \in previous.arp /\ n \notin WantedFDB
      BY <1>1, <2>2, FamiliesApart DEF CInv, Pending, Kernel, GoodARP
    <3>2. [family |-> "arp", neigh |-> n] \in neighsForDeletion'
      BY <1>1, <1>2, <2>2, <3>1 DEF Tagged, getDeletedNeighs
    <3> QED BY <3>2
  <2>3. ASSUME NEW n \in fdb, n \notin WantedFDB
        PROVE  \E d \in neighsForDeletion' : d.family = "fdb" /\ d.neigh = n
    <3>1. n \in previous.fdb /\ n \notin WantedARP
      BY <1>1, <2>3, FamiliesApart DEF CInv, Pending, Kernel, GoodFDB
    <3>2. [family |-> "fdb", neigh |-> n] \in neighsForDeletion'
      BY <1>1, <1>2, <2>3, <3>1 DEF Tagged, getDeletedNeighs
    <3> QED BY <3>2
  <2> QED BY <1>1, <1>3, <2>1, <2>2, <2>3 DEF Pending
<1> QED BY <1>5, <1>6, <1>7, <1>8 DEF CInv

LEMMA delRouteKeeps ==
  ASSUME CInv, delRoute
  PROVE  CInv'
<1>1. PICK r \in routesForDeletion :
        IF RouteNamed(r) # {}
        THEN /\ routes' = routes \ RouteNamed(r)
             /\ routesForDeletion' = routesForDeletion \ {r}
             /\ UNCHANGED <<pc, leases, todo, current, previous, neighsForDeletion>>
        ELSE Return /\ UNCHANGED routes
  BY DEF delRoute
<1>2. pc = "delete" /\ UNCHANGED <<arp, fdb, listed>>
  BY DEF delRoute
<1>3. CASE Return /\ UNCHANGED routes
  BY <1>2, <1>3, ReturnKeeps DEF CInv, Kernel
<1>4. CASE /\ routes' = routes \ RouteNamed(r)
           /\ routesForDeletion' = routesForDeletion \ {r}
           /\ UNCHANGED <<pc, leases, todo, current, previous, neighsForDeletion>>
  <2>1. UNCHANGED <<Wanted, WantedRoutes, WantedARP, WantedFDB>>
    BY <1>4 DEF Wanted, WantedRoutes, WantedARP, WantedFDB
  <2>2. r \in previous.routes /\ r.gw # None /\ r \notin WantedRoutes
    BY DEF CInv, Marked
  <2>3. routes' = routes \ {r}
    BY <1>4 DEF RouteNamed
  <2>4. Kernel'
    BY <1>2, <2>2, <2>3, SubtablesGood DEF CInv, Kernel, connected
  <2>5. Snapshot' /\ Steps' /\ Marked'
    BY <1>2, <1>4, <2>1 DEF CInv, Snapshot, Steps, Marked
  <2>6. \A l \in Wanted : Route(l) # r
    BY <2>2 DEF WantedRoutes
  <2>7. Applied'
    BY <1>2, <1>4, <2>1, <2>3, <2>6 DEF CInv, Applied
  <2>8. Pending'
    BY <1>2, <1>4, <2>1, <2>3 DEF CInv, Pending
  <2> QED BY <2>4, <2>5, <2>7, <2>8 DEF CInv
<1> QED BY <1>1, <1>3, <1>4

(* What an ARP deletion can take from a wanted lease is an unresolved entry *)
(* read before.                                                             *)
LEMMA ARPDeletion ==
  ASSUME CInv, NEW d \in neighsForDeletion, d.family = "arp",
         NEW l \in Wanted, d.neigh.ip = ARP(l).ip
  PROVE  Unresolved(l.overlay_subnet.ip) \in previous.arp
<1>1. d.neigh \in previous.arp /\ d.neigh \notin WantedARP
  BY DEF CInv, Marked
<1>2. l \in AllLeases
  BY WantedLeases DEF CInv
<1>3. ARP(l).ip = l.overlay_subnet.ip
  BY <1>2, EntryTypes
<1>4. CASE d.neigh = Unresolved(d.neigh.ip)
  BY <1>1, <1>3, <1>4
<1>5. CASE d.neigh.state = "permanent" /\ d.neigh.mac = GenerateForVTEP(d.neigh.ip)
  <2>1. d.neigh \in ARPRec
    BY <1>1 DEF CInv, Snapshot, GoodARP
  <2>2. ARP(l) \in ARPRec /\ ARP(l).state = "permanent" /\ ARP(l).mac = GenerateForVTEP(ARP(l).ip)
    BY <1>2, EntryTypes
  <2>3. d.neigh = ARP(l)
    BY <1>5, <2>1, <2>2 DEF ARPRec
  <2> QED BY <1>1, <2>3 DEF WantedARP
<1> QED BY <1>1, <1>4, <1>5 DEF CInv, Snapshot, GoodARP

LEMMA delNeighKeeps ==
  ASSUME CInv, delNeigh
  PROVE  CInv'
<1>1. PICK d \in neighsForDeletion :
        \/ /\ d.family = "arp" /\ arp' = arp \ ARPNamed(d.neigh) /\ fdb' = fdb
           /\ neighsForDeletion' = neighsForDeletion \ {d}
           /\ UNCHANGED <<pc, leases, todo, current, previous, routesForDeletion>>
        \/ /\ d.family = "fdb" /\ fdb' = fdb \ FDBNamed(d.neigh) /\ arp' = arp
           /\ neighsForDeletion' = neighsForDeletion \ {d}
           /\ UNCHANGED <<pc, leases, todo, current, previous, routesForDeletion>>
        \/ Return /\ UNCHANGED <<arp, fdb>>
  <2>1. PICK d \in neighsForDeletion :
          LET named == IF d.family = "arp" THEN ARPNamed(d.neigh) ELSE FDBNamed(d.neigh) IN
          IF named # {}
          THEN /\ arp' = IF d.family = "arp" THEN arp \ named ELSE arp
               /\ fdb' = IF d.family = "fdb" THEN fdb \ named ELSE fdb
               /\ neighsForDeletion' = neighsForDeletion \ {d}
               /\ UNCHANGED <<pc, leases, todo, current, previous, routesForDeletion>>
          ELSE Return /\ UNCHANGED <<arp, fdb>>
    BY DEF delNeigh
  <2>2. d.family = "arp" \/ d.family = "fdb"
    BY DEF CInv, Marked
  <2> QED BY <2>1, <2>2
<1>2. pc = "delete" /\ UNCHANGED <<routes, listed>>
  BY DEF delNeigh
<1>3. CASE Return /\ UNCHANGED <<arp, fdb>>
  BY <1>2, <1>3, ReturnKeeps DEF CInv, Kernel
<1>4. CASE /\ d.family = "arp" /\ arp' = arp \ ARPNamed(d.neigh) /\ fdb' = fdb
           /\ neighsForDeletion' = neighsForDeletion \ {d}
           /\ UNCHANGED <<pc, leases, todo, current, previous, routesForDeletion>>
  <2>1. UNCHANGED <<Wanted, WantedRoutes, WantedARP, WantedFDB>>
    BY <1>4 DEF Wanted, WantedRoutes, WantedARP, WantedFDB
  <2>2. Kernel'
    BY <1>2, <1>4, SubtablesGood DEF CInv, Kernel
  <2>3. Snapshot' /\ Steps' /\ Marked'
    BY <1>2, <1>4, <2>1 DEF CInv, Snapshot, Steps, Marked
  <2>4. ASSUME NEW l \in Wanted, ARP(l) \in arp, ARP(l) \notin arp'
        PROVE  Unresolved(l.overlay_subnet.ip) \in previous.arp
    BY <1>4, <2>4, ARPDeletion DEF ARPNamed
  <2>5. Applied'
    BY <1>2, <1>4, <2>1, <2>4 DEF CInv, Applied
  <2>6. \A n \in arp' : n \in arp /\ n # d.neigh
    BY <1>4 DEF ARPNamed
  <2>7. Pending'
    BY <1>2, <1>4, <2>1, <2>6 DEF CInv, Pending
  <2> QED BY <2>2, <2>3, <2>5, <2>7 DEF CInv
<1>5. CASE /\ d.family = "fdb" /\ fdb' = fdb \ FDBNamed(d.neigh) /\ arp' = arp
           /\ neighsForDeletion' = neighsForDeletion \ {d}
           /\ UNCHANGED <<pc, leases, todo, current, previous, routesForDeletion>>
  <2>1. UNCHANGED <<Wanted, WantedRoutes, WantedARP, WantedFDB>>
    BY <1>5 DEF Wanted, WantedRoutes, WantedARP, WantedFDB
  <2>2. Kernel'
    BY <1>2, <1>5, SubtablesGood DEF CInv, Kernel
  <2>3. Snapshot' /\ Steps' /\ Marked'
    BY <1>2, <1>5, <2>1 DEF CInv, Snapshot, Steps, Marked
  <2>4. d.neigh \in FDBRec /\ d.neigh \notin WantedFDB
    BY <1>5 DEF CInv, Marked, Snapshot, GoodFDB
  <2>5. FDBNamed(d.neigh) \subseteq {d.neigh}
    BY <2>4 DEF FDBNamed, CInv, Kernel, GoodFDB, FDBRec
  <2>6. \A l \in Wanted : FDB(l) # d.neigh
    BY <2>4 DEF WantedFDB
  <2>7. Applied'
    BY <1>2, <1>5, <2>1, <2>5, <2>6 DEF CInv, Applied
  <2>8. \A n \in fdb' : n \in fdb /\ n # d.neigh
    BY <1>5 DEF FDBNamed
  <2>9. Pending'
    BY <1>2, <1>5, <2>1, <2>8 DEF CInv, Pending
  <2> QED BY <2>2, <2>3, <2>7, <2>9 DEF CInv
<1> QED BY <1>1, <1>3, <1>4, <1>5

LEMMA EndKeeps ==
  ASSUME CInv, Succeed \/ Fail
  PROVE  CInv'
BY ReturnKeeps DEF Succeed, Fail, kernel, CInv, Kernel

LEMMA ResolveKeeps ==
  ASSUME CInv, Resolve
  PROVE  CInv'
<1>1. PICK s \in LeasedSubnets : /\ \A n \in arp : n.ip # s.ip
                                 /\ arp' = arp \cup {Unresolved(s.ip)}
  BY DEF Resolve
<1>2. UNCHANGED <<routes, fdb, listed, pc, leases, todo, current, previous, routesForDeletion,
                  neighsForDeletion>>
  BY DEF Resolve, cycle
<1>3. s.ip \in Address
  BY ConvergerAssumption DEF CIDR
<1>4. /\ Unresolved(s.ip) \in ARPRec /\ Unresolved(s.ip).ip = s.ip
      /\ Unresolved(s.ip).state = "incomplete"
  BY <1>3 DEF Unresolved, ARPRec
<1>5. UNCHANGED <<Wanted, WantedRoutes, WantedARP, WantedFDB>>
  BY <1>2 DEF Wanted, WantedRoutes, WantedARP, WantedFDB
<1>6. GoodARP(arp')
  BY <1>1, <1>4 DEF CInv, Kernel, GoodARP
<1>7. Kernel' /\ Snapshot'
  BY <1>2, <1>6 DEF CInv, Kernel, Snapshot
<1>8. Steps' /\ Marked'
  BY <1>2, <1>5 DEF CInv, Steps, Marked
<1>9. Applied'
  BY <1>1, <1>2, <1>5 DEF CInv, Applied
<1>10. Pending'
  BY <1>1, <1>2, <1>4, <1>5 DEF CInv, Pending
<1> QED BY <1>7, <1>8, <1>9, <1>10 DEF CInv

LEMMA QuietKeeps ==
  ASSUME CInv, UNCHANGED <<kernel, cycle>>, listed' \in LeaseList
  PROVE  CInv'
<1>1. UNCHANGED <<Wanted, WantedRoutes, WantedARP, WantedFDB>>
  BY DEF cycle, Wanted, WantedRoutes, WantedARP, WantedFDB
<1>2. Kernel' /\ Snapshot' /\ Steps'
  BY <1>1 DEF kernel, cycle, CInv, Kernel, Snapshot, Steps
<1>3. Marked' /\ Applied' /\ Pending'
  BY <1>1 DEF kernel, cycle, CInv, Marked, Applied, Pending
<1> QED BY <1>2, <1>3 DEF CInv

LEMMA CInitially == Init => CInv
<1> SUFFICES ASSUME Init PROVE CInv
  OBVIOUS
<1>1. /\ previous.routes = {} /\ previous.arp = {} /\ previous.fdb = {} /\ Wanted = {}
      /\ leases = {} /\ todo = {} /\ pc = "idle" /\ routes = {connected} /\ arp = {} /\ fdb = {}
  BY EmptyList DEF Init, NothingRead, Wanted
<1>2. Kernel /\ Snapshot
  BY <1>1, EmptyTables, ConvergerAssumption
     DEF Kernel, Snapshot, GoodRoutes, connected, RouteRec
<1>3. Steps
  BY <1>1, EmptyList DEF Init, Steps
<1>4. Marked /\ Applied /\ Pending
  BY <1>1 DEF Init, Marked, Applied, Pending
<1> QED BY <1>2, <1>3, <1>4 DEF CInv

LEMMA CNext ==
  ASSUME CInv, [Next]_vars
  PROVE  CInv'
<1>1. CASE Work
  BY <1>1, ConvergeKeeps, addRouteKeeps, addNeighARPKeeps, addNeighFDBKeeps, compareKeeps,
     delRouteKeeps, delNeighKeeps, EndKeeps DEF Work
<1>2. CASE Fail \/ Resolve
  BY <1>2, EndKeeps, ResolveKeeps
<1>3. CASE Change
  BY <1>3, QuietKeeps DEF Change
<1>4. CASE UNCHANGED vars
  BY <1>4, QuietKeeps DEF vars, CInv, Steps
<1> QED BY <1>1, <1>2, <1>3, <1>4 DEF Next

LEMMA CInvariance == Spec => []CInv
BY CInitially, CNext, PTL DEF Spec

-------------------------------------------------------------------------------
(* The tables hold well-formed entries and the cycle's variables agree.     *)
THEOREM ConvergerTypeCorrect == Spec => []TypeOK
<1>1. CInv => TypeOK
  <2> SUFFICES ASSUME CInv PROVE TypeOK
    OBVIOUS
  <2>1. \A r \in routes : r.dst \in CIDR /\ r.gw \in Address \cup {None}
    BY DEF CInv, Kernel, GoodRoutes, RouteRec
  <2>2. \A n \in arp : /\ n.ip \in Address /\ n.mac \in HardwareAddr \cup {None}
                       /\ n.state = IF n.mac = None THEN "incomplete" ELSE "permanent"
    <3> TAKE n \in arp
    <3>1. n \in ARPRec
      BY DEF CInv, Kernel, GoodARP
    <3>2. n.ip \in Address /\ n.mac \in HardwareAddr \cup {None}
      BY <3>1 DEF ARPRec
    <3>3. CASE n = Unresolved(n.ip)
      <4>1. n.mac = None /\ n.state = "incomplete"
        BY <3>3 DEF Unresolved
      <4> QED BY <3>2, <4>1
    <3>4. CASE n.state = "permanent" /\ n.mac = GenerateForVTEP(n.ip)
      <4>1. n.mac \in HardwareAddr
        BY <3>2, <3>4 DEF HardwareAddr
      <4> QED BY <3>2, <3>4, <4>1, ConvergerAssumption
    <3> QED BY <3>3, <3>4 DEF CInv, Kernel, GoodARP
  <2>3. \A n \in fdb : n.ip \in Host /\ n.mac \in HardwareAddr
    BY DEF CInv, Kernel, GoodFDB, FDBRec
  <2>4. todo \subseteq leases
    BY WantedLeases DEF CInv, Steps
  <2>5. routesForDeletion \subseteq previous.routes
    BY DEF CInv, Marked
  <2> QED BY <2>1, <2>2, <2>3, <2>4, <2>5 DEF CInv, Steps, TypeOK
<1> QED BY CInvariance, <1>1, PTL

(* The connected route of the overlay network is never replaced or deleted. *)
THEOREM ConnectedRouteKept == Spec => []ConnectedRouteStays
<1>1. CInv => ConnectedRouteStays
  BY DEF CInv, Kernel, ConnectedRouteStays
<1> QED BY CInvariance, <1>1, PTL

(* A remote host that was reachable when the cycle began, is reachable now  *)
(* and is still listed is reachable after every step of the cycle.          *)
LEMMA PathStays ==
  ASSUME CInv, [Next]_vars, pc # "idle", NEW l \in Wanted,
         Reachable(l, routes, arp, fdb),
         Reachable(l, previous.routes, previous.arp, previous.fdb)
  PROVE  Reachable(l, routes', arp', fdb')
<1>1. /\ Route(l) \in routes /\ ARP(l) \in arp /\ FDB(l) \in fdb
      /\ ARP(l) \in previous.arp
  BY DEF Reachable
<1>2. l \in AllLeases /\ Steps
  BY WantedLeases DEF CInv
<1>3. CASE addRoute
  <2>1. PICK m \in todo : RouteReplace(Route(m))
    BY <1>3 DEF addRoute
  <2>2. m = l \/ Route(m).dst # Route(l).dst
    BY <1>2, WantedLeases DEF Steps
  <2> QED BY <1>1, <1>3, <2>1, <2>2 DEF addRoute, RouteReplace, Reachable
<1>4. CASE addNeighARP
  <2>1. current \in Wanted /\ NeighSetARP(ARP(current))
    BY <1>2, <1>4 DEF addNeighARP, Steps
  <2>2. current = l \/ ARP(current).ip # ARP(l).ip
    BY <1>2, <2>1, WantedLeases
  <2> QED BY <1>1, <1>4, <2>1, <2>2 DEF addNeighARP, NeighSetARP, Reachable
<1>5. CASE addNeighFDB
  <2>1. current \in Wanted /\ NeighSetFDB(FDB(current))
    BY <1>2, <1>5 DEF addNeighFDB, Steps
  <2>2. current = l \/ FDB(current).mac # FDB(l).mac
    BY <1>2, <2>1, WantedLeases
  <2> QED BY <1>1, <1>5, <2>1, <2>2 DEF addNeighFDB, NeighSetFDB, Reachable
<1>6. CASE delRoute
  <2>1. PICK r \in routesForDeletion : routes' = routes \ RouteNamed(r) \/ routes' = routes
    BY <1>6 DEF delRoute
  <2>2. Route(l) # r
    BY DEF CInv, Marked, WantedRoutes
  <2> QED BY <1>1, <1>6, <2>1, <2>2 DEF delRoute, RouteNamed, Reachable
<1>7. CASE delNeigh
  <2>1. PICK d \in neighsForDeletion :
          /\ arp' = arp \/ (d.family = "arp" /\ arp' = arp \ ARPNamed(d.neigh))
          /\ fdb' = fdb \/ (d.family = "fdb" /\ fdb' = fdb \ FDBNamed(d.neigh))
    BY <1>7 DEF delNeigh
  <2>2. ASSUME d.family = "arp", d.neigh.ip = ARP(l).ip PROVE FALSE
    BY <1>1, <2>2 DEF CInv, Marked, Snapshot, GoodARP, WantedARP
  <2>3. ASSUME d.family = "fdb", d.neigh.mac = FDB(l).mac, d.neigh.ip = FDB(l).ip PROVE FALSE
    <3>1. d.neigh \in FDBRec /\ FDB(l) \in FDBRec
      BY Zenon, <1>2, <2>3, EntryTypes DEF CInv, Marked, Snapshot, GoodFDB
    <3>2. d.neigh = FDB(l)
      BY <2>3, <3>1 DEF FDBRec
    <3> QED BY <3>2 DEF CInv, Marked, WantedFDB
  <2> QED BY <1>1, <1>7, <2>1, <2>2, <2>3 DEF delNeigh, ARPNamed, FDBNamed, Reachable
<1>8. CASE Resolve
  BY <1>1, <1>8 DEF Resolve, Reachable
<1>9. CASE Converge \/ compare \/ Succeed \/ Fail \/ Change \/ UNCHANGED vars
  <2>1. UNCHANGED <<routes, arp, fdb>>
    BY <1>9 DEF Converge, compare, Succeed, Fail, Change, vars, kernel
  <2> QED BY <1>1, <2>1 DEF Reachable
<1> QED BY <1>3, <1>4, <1>5, <1>6, <1>7, <1>8, <1>9 DEF Next, Work

(* Converge makes before it breaks.                                         *)
THEOREM WorkingPathsKept == Spec => NeverBreaksWorkingPath
<1>1. ASSUME CInv, [Next]_vars, pc # "idle"
      PROVE  leases' = leases \/ leases' = {}
  BY Zenon, <1>1
     DEF Next, Work, Converge, addRoute, addNeighARP, addNeighFDB, compare, delRoute,
              delNeigh, Succeed, Fail, Resolve, Change, Return, cycle, vars
<1>2. ASSUME CInv, [Next]_vars
      PROVE  \A l \in Remote(leases \cup leases') :
               /\ pc # "idle"
               /\ Reachable(l, routes, arp, fdb)
               /\ Reachable(l, previous.routes, previous.arp, previous.fdb)
               => Reachable(l, routes', arp', fdb')
  <2> SUFFICES ASSUME pc # "idle", NEW l \in Remote(leases \cup leases'),
                      Reachable(l, routes, arp, fdb),
                      Reachable(l, previous.routes, previous.arp, previous.fdb)
               PROVE  Reachable(l, routes', arp', fdb')
    OBVIOUS
  <2>1. leases \cup leases' = leases
    BY <1>1, <1>2
  <2>2. l \in Wanted
    BY <2>1 DEF Wanted
  <2> QED BY <1>2, <2>2, PathStays
<1> QED BY CInvariance, <1>2, PTL DEF Spec, NeverBreaksWorkingPath

(* A cycle without an error has converged, but for ARP entries the kernel   *)
(* held unresolved when it began.                                           *)
THEOREM SuccessHasConverged == Spec => SuccessMeansConverged
<1> DEFINE Done ==
      LET remote == Remote(leases) IN
      /\ routes = {connected} \cup {Route(l) : l \in remote}
      /\ fdb = {FDB(l) : l \in remote}
      /\ \A n \in arp : n.state = "permanent" => \E l \in remote : n = ARP(l)
      /\ \A l \in remote :
           \/ ARP(l) \in arp
           \/ Unresolved(l.overlay_subnet.ip) \in previous.arp
<1>1. ASSUME CInv, Succeed PROVE Done
  <2>1. pc = "delete" /\ todo = {} /\ routesForDeletion = {} /\ neighsForDeletion = {}
    BY <1>1 DEF Succeed, CInv, Steps
  <2>2. \A l \in Wanted : /\ Route(l) \in routes /\ FDB(l) \in fdb
                          /\ ARP(l) \in arp \/ Unresolved(l.overlay_subnet.ip) \in previous.arp
    BY <1>1, <2>1 DEF CInv, Applied
  <2>3. /\ routes \subseteq {connected} \cup WantedRoutes /\ fdb \subseteq WantedFDB
        /\ \A n \in arp : n.state = "permanent" => n \in WantedARP
    BY <1>1, <2>1 DEF CInv, Pending
  <2>4. connected \in routes
    BY <1>1 DEF CInv, Kernel
  <2> QED BY <2>2, <2>3, <2>4 DEF Wanted, WantedRoutes, WantedFDB, WantedARP
<1>2. CInv /\ [Next]_vars => (Succeed => Done)
  BY <1>1
<1> QED BY CInvariance, <1>2, PTL DEF Spec, SuccessMeansConverged
================================================================================
