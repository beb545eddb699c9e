------------------------------- MODULE Converger -------------------------------
(***************************************************************************)
(* The converger of a silk-daemon (daemon/vtep/converger.go): once per     *)
(* poll cycle it takes the routable leases the controller listed and makes *)
(* the kernel's routes, ARP entries and FDB entries of the local VTEP      *)
(* agree with them, one netlink call at a time.  Any call may fail, which  *)
(* ends the cycle where it stands; the next cycle starts from whatever the *)
(* kernel then holds.  The kernel's tables are external: they are modelled *)
(* by the keys under which netlink replaces and deletes an entry.          *)
(*                                                                         *)
(* FDBAtGateway, getDeletedRoutesOfAnyKind, getDeletedNeighsByAddress and  *)
(* getEveryPreviousNeigh are mistaken variants of the definitions that     *)
(* follow them, used only to show that the properties tell them apart.     *)
(***************************************************************************)
EXTENDS Lease, FiniteSets

CONSTANTS
  OverlayNetwork,
  LocalSubnet,        \* the subnet of this host
  Host,               \* underlay IPs
  LeasedSubnets,      \* the subnets that occur in the lists
  None,
  MaxChanges,         \* how often the list of leases changes
  MaxFailures,        \* how many netlink calls fail
  MaxUnresolved       \* how often traffic meets a neighbour without entry

ASSUME ConvergerAssumption ==
  /\ OverlayNetwork \in CIDR /\ LocalSubnet \in CIDR /\ LeasedSubnets \subseteq CIDR
  /\ MaxChanges \in Nat /\ MaxFailures \in Nat /\ MaxUnresolved \in Nat
  /\ None \notin Address /\ None \notin HardwareAddr /\ Host \cap Address = {}

(* net.ParseCIDR: the network of a subnet, its host bits cleared. *)
destNet(s) == [ip |-> s.ip - (s.ip % Size(s.len)), len |-> s.len]

(* What the pools hand out: subnets without host bits, different ones with  *)
(* different addresses, those of the overlay network longer than it.        *)
ASSUME LeasedSubnetsAssumption ==
  \A s, t \in LeasedSubnets :
    /\ destNet(s) = s
    /\ Contains(OverlayNetwork, s.ip) => s.len > OverlayNetwork.len
    /\ s # t => s.ip # t.ip

(* What the controller may list: distinct hosts, distinct subnets. *)
LeaseList ==
  {L \in SUBSET {LeaseFor(u, s) : u \in Host, s \in LeasedSubnets} :
     \A l, m \in L : l # m => /\ l.underlay_ip # m.underlay_ip
                              /\ l.overlay_subnet # m.overlay_subnet}

VARIABLES
  routes, arp, fdb,   \* the kernel's tables for the VTEP
  listed,             \* what the controller lists at the moment
  pc,
  leases,             \* the list this cycle works on
  todo,               \* its remote leases not yet applied
  current,            \* the lease being applied
  previous,           \* the tables as getPreviousState read them
  routesForDeletion, neighsForDeletion,
  changes, failures, unresolved   \* how much of the bounds is used

kernel == <<routes, arp, fdb>>
cycle  == <<pc, leases, todo, current, previous, routesForDeletion, neighsForDeletion>>
bounds == <<changes, failures, unresolved>>
vars   == <<kernel, listed, cycle, bounds>>

-------------------------------------------------------------------------------
(* The entries of a lease. *)

Route(l) == [dst |-> destNet(l.overlay_subnet), gw |-> l.overlay_subnet.ip]
ARP(l) == [ip |-> l.overlay_subnet.ip, mac |-> l.overlay_hwaddr, state |-> "permanent"]
FDBAtGateway(l) == [ip |-> l.overlay_subnet.ip, mac |-> l.overlay_hwaddr, state |-> "permanent"]

FDB(l) == [ip |-> l.underlay_ip, mac |-> l.overlay_hwaddr, state |-> "permanent"]

connected == [dst |-> OverlayNetwork, gw |-> None]   \* from the VTEP's own address

isLocal(s) == destNet(s) = LocalSubnet

Remote(L) == {l \in L : /\ ~ isLocal(l.overlay_subnet)
                        /\ Contains(OverlayNetwork, destNet(l.overlay_subnet).ip)}

applied == Remote(leases) \ todo

currentNeighs == {ARP(l) : l \in applied} \cup {FDB(l) : l \in applied}

-------------------------------------------------------------------------------
(* External: netlink on the VTEP. *)

RouteReplace(r) == routes' = {x \in routes : x.dst # r.dst} \cup {r}
NeighSetARP(n) == arp' = {x \in arp : x.ip # n.ip} \cup {n}
NeighSetFDB(n) == fdb' = {x \in fdb : x.mac # n.mac} \cup {n}

(* The entries a deletion names: a route by destination and gateway, an ARP *)
(* entry by its address whatever it resolves to, an FDB entry by both.      *)
RouteNamed(r) == {x \in routes : x = r}
ARPNamed(n) == {x \in arp : x.ip = n.ip}
FDBNamed(n) == {x \in fdb : x.mac = n.mac /\ x.ip = n.ip}

(* Traffic for an overlay address without an entry: the kernel keeps one    *)
(* that resolves to nothing.                                                *)
Unresolved(ip) == [ip |-> ip, mac |-> None, state |-> "incomplete"]

Resolve ==
  /\ unresolved < MaxUnresolved
  /\ \E s \in LeasedSubnets :
       /\ Contains(OverlayNetwork, s.ip) /\ s # LocalSubnet
       /\ \A n \in arp : n.ip # s.ip
       /\ arp' = arp \cup {Unresolved(s.ip)}
  /\ unresolved' = unresolved + 1
  /\ UNCHANGED <<routes, fdb, listed, cycle, changes, failures>>

-------------------------------------------------------------------------------
(* One cycle of Converge. *)

NothingRead == [routes |-> {}, arp |-> {}, fdb |-> {}]

(* The cycle is over, normally or with an error. *)
Return ==
  /\ pc' = "idle"
  /\ leases' = {} /\ todo' = {} /\ current' = None /\ previous' = NothingRead
  /\ routesForDeletion' = {} /\ neighsForDeletion' = {}

Converge ==
  /\ pc = "idle"
  /\ pc' = "apply"
  /\ leases' = listed
  /\ todo' = Remote(listed)
  /\ previous' = [routes |-> routes, arp |-> arp, fdb |-> fdb]
  /\ UNCHANGED <<kernel, listed, bounds, current, routesForDeletion, neighsForDeletion>>

addRoute ==
  /\ pc = "apply"
  /\ \E l \in todo :
       /\ RouteReplace(Route(l))
       /\ current' = l
  /\ pc' = "arp"
  /\ UNCHANGED <<arp, fdb, listed, bounds, leases, todo, previous,
                 routesForDeletion, neighsForDeletion>>

addNeighARP ==
  /\ pc = "arp"
  /\ NeighSetARP(ARP(current))
  /\ pc' = "fdb"
  /\ UNCHANGED <<routes, fdb, listed, bounds, leases, todo, current, previous,
                 routesForDeletion, neighsForDeletion>>

addNeighFDB ==
  /\ pc = "fdb"
  /\ NeighSetFDB(FDB(current))
  /\ pc' = "apply"
  /\ todo' = todo \ {current}
  /\ current' = None
  /\ UNCHANGED <<routes, arp, listed, bounds, leases, previous,
                 routesForDeletion, neighsForDeletion>>

(* previousRoutes without currentRoutes, and of those only the ones with a  *)
(* gateway in the overlay network.                                          *)
getDeletedRoutesOfAnyKind ==
  {r \in previous.routes : \A l \in applied : r # Route(l)}

getDeletedRoutes ==
  {r \in previous.routes : /\ \A l \in applied : r # Route(l)
                           /\ r.gw # None /\ Contains(OverlayNetwork, r.gw)}

getDeletedNeighsByAddress(table) ==
  {n \in table : ~ \E c \in currentNeighs : c.ip = n.ip}

getEveryPreviousNeigh(table) == table

getDeletedNeighs(table) == {n \in table : n \notin currentNeighs}

Tagged(table, family) == {[family |-> family, neigh |-> n] : n \in table}

(* All leases are applied: what was there before and is not wanted any more *)
(* goes, routes first.                                                      *)
compare ==
  /\ pc = "apply" /\ todo = {}
  /\ pc' = "delete"
  /\ routesForDeletion' = getDeletedRoutes
  /\ neighsForDeletion' = Tagged(getDeletedNeighs(previous.arp), "arp")
                            \cup Tagged(getDeletedNeighs(previous.fdb), "fdb")
  /\ UNCHANGED <<kernel, listed, bounds, leases, todo, current, previous>>

delRoute ==
  /\ pc = "delete"
  /\ \E r \in routesForDeletion :
       IF RouteNamed(r) # {}
       THEN /\ routes' = routes \ RouteNamed(r)
            /\ routesForDeletion' = routesForDeletion \ {r}
            /\ UNCHANGED <<pc, leases, todo, current, previous, neighsForDeletion>>
       ELSE Return /\ UNCHANGED routes                       \* "del route"
  /\ UNCHANGED <<arp, fdb, listed, bounds>>

delNeigh ==
  /\ pc = "delete" /\ routesForDeletion = {}
  /\ \E d \in neighsForDeletion :
       /\ d.family = "fdb" => \A e \in neighsForDeletion : e.family = "fdb"
       /\ LET named == IF d.family = "arp" THEN ARPNamed(d.neigh) ELSE FDBNamed(d.neigh) IN
          IF named # {}
          THEN /\ arp' = IF d.family = "arp" THEN arp \ named ELSE arp
               /\ fdb' = IF d.family = "fdb" THEN fdb \ named ELSE fdb
               /\ neighsForDeletion' = neighsForDeletion \ {d}
               /\ UNCHANGED <<pc, leases, todo, current, previous, routesForDeletion>>
          ELSE Return /\ UNCHANGED <<arp, fdb>>                 \* "del neigh"
  /\ UNCHANGED <<routes, listed, bounds>>

Succeed ==
  /\ pc = "delete" /\ routesForDeletion = {} /\ neighsForDeletion = {}
  /\ Return
  /\ UNCHANGED <<kernel, listed, bounds>>

(* The call that comes next fails, or the daemon dies before it. *)
Fail ==
  /\ pc # "idle" /\ failures < MaxFailures
  /\ failures' = failures + 1
  /\ Return
  /\ UNCHANGED <<kernel, listed, changes, unresolved>>

(* Leases come, go, and move from one host to another. *)
Change ==
  /\ changes < MaxChanges
  /\ changes' = changes + 1
  /\ listed' \in LeaseList \ {listed}
  /\ UNCHANGED <<kernel, cycle, failures, unresolved>>

Init ==
  /\ routes = {connected} /\ arp = {} /\ fdb = {}
  /\ listed \in LeaseList
  /\ pc = "idle" /\ leases = {} /\ todo = {} /\ current = None
  /\ previous = NothingRead /\ routesForDeletion = {} /\ neighsForDeletion = {}
  /\ changes = 0 /\ failures = 0 /\ unresolved = 0

Work == \/ Converge \/ addRoute \/ addNeighARP \/ addNeighFDB \/ compare
        \/ delRoute \/ delNeigh \/ Succeed

Next == Work \/ Fail \/ Resolve \/ Change

(* The poll loop never stops calling Converge, and netlink calls return. *)
Spec == Init /\ [][Next]_vars /\ WF_vars(Work)

-------------------------------------------------------------------------------
(* The tables hold well-formed entries, the lease being applied is one of   *)
(* those not yet applied, and only routes read before are marked to go.     *)
TypeOK ==
  /\ \A r \in routes : r.dst \in CIDR /\ r.gw \in Address \cup {None}
  /\ \A n \in arp : /\ n.ip \in Address /\ n.mac \in HardwareAddr \cup {None}
                    /\ n.state = IF n.mac = None THEN "incomplete" ELSE "permanent"
  /\ \A n \in fdb : n.ip \in Host /\ n.mac \in HardwareAddr
  /\ listed \in LeaseList /\ leases \in LeaseList /\ todo \subseteq leases
  /\ current \in todo \cup {None}
  /\ pc \in {"idle", "apply", "arp", "fdb", "delete"}
  /\ routesForDeletion \subseteq previous.routes

(* A packet for the lease's subnet reaches its host: the route, the ARP     *)
(* entry of the gateway and the FDB entry are all there.                    *)
Reachable(l, r, a, f) == Route(l) \in r /\ ARP(l) \in a /\ FDB(l) \in f

(* The tables carry exactly the listed remote leases. *)
Converged ==
  /\ routes = {connected} \cup {Route(l) : l \in Remote(listed)}
  /\ arp = {ARP(l) : l \in Remote(listed)}
  /\ fdb = {FDB(l) : l \in Remote(listed)}

(* Converge makes before it breaks: a remote host that could be reached     *)
(* when the cycle began, and is still listed, can be reached at every       *)
(* moment of the cycle and when the cycle has been cut short by an error.   *)
NeverBreaksWorkingPath ==
  [][\A l \in Remote(leases \cup leases') :
       /\ pc # "idle"
       /\ Reachable(l, routes, arp, fdb)
       /\ Reachable(l, previous.routes, previous.arp, previous.fdb)
       => Reachable(l, routes', arp', fdb')]_vars

(* The converger does not touch what it did not create: the connected route *)
(* of the overlay network, on which every gateway depends, always stays.    *)
ConnectedRouteStays == connected \in routes

(* A cycle that returns no error has installed exactly the routes and FDB   *)
(* entries of the listed remote leases and left no entry of a lease that is *)
(* gone, whatever earlier cycles left behind; an ARP entry can be missing   *)
(* only where the kernel held an unresolved one when the cycle began.       *)
SuccessMeansConverged ==
  [][Succeed =>
       LET remote == Remote(leases) IN
       /\ routes = {connected} \cup {Route(l) : l \in remote}
       /\ fdb = {FDB(l) : l \in remote}
       /\ \A n \in arp : n.state = "permanent" => \E l \in remote : n = ARP(l)
       /\ \A l \in remote :
            \/ ARP(l) \in arp
            \/ Unresolved(l.overlay_subnet.ip) \in previous.arp]_vars

(* Once the leases stop changing, calls stop failing and traffic stops      *)
(* meeting missing neighbours, the tables become exactly what is listed and *)
(* stay so, even when deleting a moved lease's old FDB entry failed a cycle.*)
EventuallyConverged == <>[]Converged

(* "adds an ARP and FDB rule for each remote lease": after a cycle without  *)
(* an error every remote lease has its ARP entry.                           *)
ARPForEachRemoteLease ==
  [][Succeed => \A l \in Remote(leases) : ARP(l) \in arp]_vars
================================================================================
