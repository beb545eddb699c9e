---------------------------- MODULE CNIWiringTheorems ----------------------------
(***************************************************************************)
(* What ADD and DEL leave in the kernel, with host-local and in the         *)
(* datastore: an added container is wired, a deleted one leaves nothing,    *)
(* and an address that is given out again can be used.                      *)
(***************************************************************************)
EXTENDS CNITheorems

-------------------------------------------------------------------------------
(* AddedIsWired.  An ADD holds the reservation of its address from          *)
(* host-local's answer on, and each of its steps finds its pair as the step *)
(* before left it.                                                          *)

Mine(v, c)   == v.owner = c /\ v.name = GenerateForHost(ip[c])
Reserved(c)  == ip[c] \in Address /\ ipam[ip[c]] = c
HostReady(v, c) ==
  /\ v.host.up /\ v.host.mac = HostEnd(c).hw /\ v.host.addr = HostEnd(c).ip
  /\ v.host.neigh = ContainerEnd(c)

Ready(v, c) ==
  /\ v.owner = c /\ v.ns = c /\ v.dev = IfName /\ v.routed
  /\ v.host.up /\ v.container.up /\ v.container.addr = ip[c]
  /\ v.host.neigh = [hw |-> v.container.mac, ip |-> v.container.addr]
  /\ v.container.neigh = [hw |-> v.host.mac, ip |-> v.host.addr]

Wired(c) == \E v \in pairs : Ready(v, c)

InAdd == {"config", "link", "move", "host", "container", "store", "stored"}

WiredAt(c) ==
  /\ pc[c] \in InAdd => Reserved(c)
  /\ pc[c] \in {"host", "container"} => \A v \in pairs : Mine(v, c) => v.ns = c
  /\ pc[c] = "container" => \A v \in pairs : Mine(v, c) => HostReady(v, c)
  /\ pc[c] \in {"store", "stored"} => Wired(c)
  /\ pc[c] = "idle" /\ outcome[c] = "added" => Reserved(c) /\ (c \in netns => Wired(c))

WiredInv == \A c \in Container : WiredAt(c)

(* What the steps of one call leave alone of another's. *)
Undisturbed(d) ==
  /\ pc'[d] = pc[d] /\ ip'[d] = ip[d] /\ outcome'[d] = outcome[d]
  /\ d \in netns' <=> d \in netns
  /\ \A a \in Address : ipam'[a] = d <=> ipam[a] = d
  /\ \A u \in pairs \cup pairs' : u.owner = d => (u \in pairs <=> u \in pairs')

LEMMA UndisturbedWired ==
  ASSUME NEW d \in Container, WiredAt(d), Undisturbed(d)
  PROVE  WiredAt(d)'
<1>1. Reserved(d) => Reserved(d)'
  BY DEF Undisturbed, Reserved
<1>2. \A v \in pairs' : Mine(v, d)' => v \in pairs /\ Mine(v, d)
  BY DEF Undisturbed, Mine, GenerateForHost, generate
<1>3. ASSUME NEW v PROVE HostReady(v, d) => HostReady(v, d)'
  BY DEF Undisturbed, HostReady, HostEnd, ContainerEnd, HardwareForHost, HardwareForContainer
<1>4. Wired(d) => Wired(d)'
  BY Zenon DEF Undisturbed, Wired, Ready, IfName, generate
<1> QED BY <1>1, <1>2, <1>3, <1>4 DEF Undisturbed, WiredAt

(* A call that is not far enough in its ADD, or has none to show. *)
LEMMA NothingToWire ==
  ASSUME NEW c \in Container,
         \/ pc'[c] \in Labels \ (InAdd \cup {"idle"})
         \/ pc'[c] = "idle" /\ outcome'[c] # "added"
  PROVE  WiredAt(c)'
BY Zenon DEF WiredAt, InAdd, Labels

(* host-local's release is of all that the container has, and only that. *)
LEMMA Released ==
  ASSUME NEW c \in Container, DelegateDel(c)
  PROVE  /\ \A d \in Container, a \in Address : d # c => (ipam'[a] = d <=> ipam[a] = d)
         /\ c \in faulty' \cap failing' \/ \A a \in Address : ipam'[a] # c
<1>1. None # c /\ \A d \in Container : None # d
  BY CNIAssumption
<1>2. CASE ipam' = [a \in Address |-> IF ipam[a] = c THEN None ELSE ipam[a]]
  <2>1. \A a \in Address : ipam'[a] = IF ipam[a] = c THEN None ELSE ipam[a]
    BY <1>2
  <2> QED BY <1>1, <2>1
<1>3. CASE Fault(c) /\ UNCHANGED ipam
  BY <1>3 DEF Fault
<1> QED BY Zenon, <1>2, <1>3 DEF DelegateDel

LEMMA SamePairs ==
  ASSUME CNIInv, NEW c \in Container, NEW d \in Container, d # c,
         \/ cmdAdd(c) \/ DelegateAdd(c) \/ Create(c) \/ StoreAdd(c) \/ Stored(c)
         \/ cmdDel(c) \/ DelegateDel(c) \/ GetNS(c) \/ StoreDelete(c) \/ Deleted(c) \/ Kill(c)
  PROVE  Undisturbed(d)
<1>1. UNCHANGED <<netns, pairs>>
  BY Zenon DEF cmdAdd, DelegateAdd, Create, StoreAdd, Stored, cmdDel, DelegateDel, GetNS,
         StoreDelete, Deleted, Kill, kernel
<1>2. pc'[d] = pc[d] /\ outcome'[d] = outcome[d]
  BY Zenon
     DEF cmdAdd, getNetworkInfo, DelegateAdd, Create, StoreAdd, Stored, cmdDel, DelegateDel,
         GetNS, StoreDelete, Deleted, Kill, Proceed, Fail, Finish, Goto, CNIInv, TypeOK
<1>3. ip'[d] = ip[d]
  BY Zenon DEF cmdAdd, DelegateAdd, Create, StoreAdd, Stored, cmdDel, DelegateDel, GetNS,
         StoreDelete, Deleted, Kill, CNIInv, TypeOK
<1>4. ASSUME NEW a \in Address PROVE ipam'[a] = d <=> ipam[a] = d
  <2>1. CASE DelegateAdd(c)
    <3>1. CASE UNCHANGED ipam
      BY <3>1
    <3>2. CASE \E b \in Address : ipam[b] = None /\ ipam' = [ipam EXCEPT ![b] = c]
      <4>1. d # None
        BY CNIAssumption
      <4>2. ipam \in [Address -> Container \cup {None}]
        BY DEF CNIInv, TypeOK
      <4> QED BY <3>2, <4>1, <4>2
    <3> QED BY <2>1, <3>1, <3>2 DEF DelegateAdd
  <2>2. CASE DelegateDel(c)
    BY <2>2, Released
  <2>3. CASE ~ DelegateAdd(c) /\ ~ DelegateDel(c)
    BY Zenon, <2>3
       DEF cmdAdd, Create, StoreAdd, Stored, cmdDel, GetNS, StoreDelete, Deleted, Kill
  <2> QED BY <2>1, <2>2, <2>3
<1> QED BY <1>1, <1>2, <1>3, <1>4 DEF Undisturbed

LEMMA OtherPairs ==
  ASSUME CNIInv, NEW c \in Container, NEW d \in Container, d # c,
         \/ LinkAdd(c) \/ LinkSetNsFd(c) \/ HostSetup(c) \/ ContainerSetup(c) \/ Teardown(c)
         \/ RemoveNS(c)
  PROVE  Undisturbed(d)
<1>1. pc'[d] = pc[d] /\ outcome'[d] = outcome[d]
  BY Zenon
     DEF LinkAdd, LinkSetNsFd, HostSetup, ContainerSetup, Teardown, RemoveNS, Proceed, Fail,
         Finish, Goto, CNIInv, TypeOK
<1>2. UNCHANGED <<ipam, ip>> /\ (d \in netns' <=> d \in netns)
  BY Zenon DEF LinkAdd, LinkSetNsFd, HostSetup, ContainerSetup, Teardown, RemoveNS
<1>3. \A u \in pairs \cup pairs' : u.owner = d => (u \in pairs <=> u \in pairs')
  <2>1. CASE LinkAdd(c)
    <3>1. UNCHANGED pairs \/ \E w : w.owner = c /\ pairs' = pairs \cup {w}
      BY Zenon, <2>1 DEF LinkAdd
    <3> QED BY <3>1
  <2>2. CASE LinkSetNsFd(c) \/ HostSetup(c) \/ ContainerSetup(c)
    <3>1. PairOf(c) \in Pair /\ PairOf(c).owner = c
      BY <2>2, PairOfCall DEF LinkSetNsFd, HostSetup, ContainerSetup
    <3>2. \/ UNCHANGED pairs
          \/ \E w \in pairs' : w.owner = c /\ Replace(PairOf(c), w)
      <4>1. CASE LinkSetNsFd(c)
        BY Zenon, <3>1, <4>1 DEF LinkSetNsFd, Replace, Pair
      <4>2. CASE HostSetup(c)
        BY Zenon, <3>1, <4>2 DEF HostSetup, Replace, Pair
      <4>3. CASE ContainerSetup(c)
        BY Zenon, <3>1, <4>3 DEF ContainerSetup, RenameLink, RouteAddAll, Replace, Pair
      <4> QED BY <2>2, <4>1, <4>2, <4>3
    <3> QED BY <3>1, <3>2 DEF Replace
  <2>3. CASE Teardown(c) \/ RemoveNS(c)
    <3>1. ASSUME NEW u \in pairs, u.owner = d PROVE u.ns # c
      BY <3>1, CNIAssumption DEF CNIInv, PairsInv
    <3> QED BY Zenon, <2>3, <3>1 DEF Teardown, RemoveNS, DeleteLinkByName
  <2> QED BY <2>1, <2>2, <2>3
<1> QED BY <1>1, <1>2, <1>3 DEF Undisturbed

(* The steps of a call, and what it has to show for them. *)
LEMMA DelWired ==
  ASSUME CNIInv, NEW c \in Container,
         \/ cmdAdd(c) \/ cmdDel(c) \/ DelegateDel(c) \/ GetNS(c) \/ Teardown(c)
         \/ StoreDelete(c) \/ Deleted(c) \/ Kill(c)
  PROVE  WiredAt(c)'
<1>1. \/ pc'[c] \in {"ipam", "del ipam", "del ns", "del link", "del store", "deleted"}
      \/ pc'[c] = "idle" /\ outcome'[c] # "added"
  BY Zenon
     DEF cmdAdd, getNetworkInfo, cmdDel, DelegateDel, GetNS, Teardown, StoreDelete, Deleted,
         Kill, Proceed, Fail, Finish, Goto, CNIInv, TypeOK
<1> QED BY Zenon, <1>1, NothingToWire DEF Labels, InAdd

LEMMA FailWired ==
  ASSUME CNIInv, NEW c \in Container, Finish(c, "failed")
  PROVE  WiredAt(c)'
<1>1. pc'[c] = "idle" /\ outcome'[c] = "failed"
  BY DEF Finish, CNIInv, TypeOK
<1> QED BY <1>1, NothingToWire

LEMMA BeforePairWired ==
  ASSUME CNIInv, NEW c \in Container, WiredAt(c), DelegateAdd(c) \/ Create(c) \/ LinkAdd(c)
  PROVE  WiredAt(c)'
<1>1. CASE Finish(c, "failed")
  BY <1>1, FailWired
<1>2. CASE ~ Finish(c, "failed")
  <2>1. pc'[c] \in {"config", "link", "move"}
    BY Zenon, <1>2 DEF DelegateAdd, Create, LinkAdd, Proceed, Fail, Goto, CNIInv, TypeOK
  <2>2. Reserved(c)'
    <3>1. CASE DelegateAdd(c)
      BY <1>2, <3>1 DEF DelegateAdd, Fail, Reserved, CNIInv, TypeOK
    <3>2. CASE Create(c) \/ LinkAdd(c)
      BY Zenon, <3>2 DEF Create, LinkAdd, WiredAt, InAdd, Reserved
    <3> QED BY <3>1, <3>2
  <2> QED BY <2>1, <2>2 DEF WiredAt
<1> QED BY <1>1, <1>2

LEMMA AfterPairWired ==
  ASSUME CNIInv, NEW c \in Container, WiredAt(c), StoreAdd(c) \/ Stored(c) \/ RemoveNS(c)
  PROVE  WiredAt(c)'
<1>1. CASE StoreAdd(c)
  <2>1. pc[c] = "store" /\ pc'[c] = "stored" /\ UNCHANGED <<pairs, ip, ipam>>
    BY <1>1 DEF StoreAdd, Proceed, Goto, kernel, CNIInv, TypeOK
  <2>2. Reserved(c)' /\ Wired(c)'
    BY Zenon, <2>1 DEF WiredAt, InAdd, Reserved, Wired, Ready, IfName, generate
  <2> QED BY <2>1, <2>2 DEF WiredAt
<1>2. CASE Stored(c)
  <2>1. pc[c] = "stored" /\ pc'[c] = "idle" /\ UNCHANGED <<pairs, ip, ipam>>
    BY <1>2 DEF Stored, Fail, Finish, kernel, CNIInv, TypeOK
  <2>2. Reserved(c)' /\ Wired(c)'
    BY Zenon, <2>1 DEF WiredAt, InAdd, Reserved, Wired, Ready, IfName, generate
  <2> QED BY <2>1, <2>2 DEF WiredAt, InAdd
<1>3. CASE RemoveNS(c)
  <2>1. /\ pc'[c] = pc[c] /\ pc[c] \in {"idle", "ipam", "config", "del ipam", "del ns"}
        /\ outcome'[c] = outcome[c] /\ UNCHANGED <<ip, ipam>> /\ c \notin netns'
    BY Zenon, <1>3 DEF RemoveNS
  <2>2. Reserved(c) => Reserved(c)'
    BY Zenon, <2>1 DEF Reserved
  <2> QED BY Zenon, <2>1, <2>2 DEF WiredAt, InAdd
<1> QED BY <1>1, <1>2, <1>3

(* After its pair is replaced, the new one is the call's only one. *)
LEMMA ReplacedIsMine ==
  ASSUME CNIInv, NEW c \in Container, pc[c] \in {"move", "host", "container"},
         NEW w, Replace(PairOf(c), w), ip'[c] = ip[c]
  PROVE  \A v \in pairs' : Mine(v, c)' => v = w
<1>1. /\ PairOf(c) \in pairs /\ PairOf(c).name = GenerateForHost(ip[c])
  BY PairOfCall
<1>2. ASSUME NEW v \in pairs', Mine(v, c)', v # w PROVE FALSE
  <2>1. v \in pairs /\ v # PairOf(c)
    BY <1>2 DEF Replace
  <2>2. v.name = GenerateForHost(ip[c])
    BY <1>2 DEF Mine, GenerateForHost
  <2> QED BY <1>1, <2>1, <2>2 DEF CNIInv, PairsInv
<1> QED BY <1>2

LEMMA LinkSetNsFdWired ==
  ASSUME CNIInv, NEW c \in Container, WiredAt(c), LinkSetNsFd(c)
  PROVE  WiredAt(c)'
<1>1. CASE Fail(c)
  BY <1>1, FailWired DEF Fail
<1>2. CASE ~ Fail(c)
  <2>1. /\ pc[c] = "move" /\ pc'[c] = "host" /\ UNCHANGED <<ip, ipam>>
        /\ Replace(PairOf(c), [PairOf(c) EXCEPT !.ns = c])
    BY <1>2 DEF LinkSetNsFd, Proceed, Goto, CNIInv, TypeOK
  <2>2. [PairOf(c) EXCEPT !.ns = c].ns = c
    BY <2>1, PairOfCall DEF Pair
  <2>3. \A v \in pairs' : Mine(v, c)' => v.ns = c
    BY Zenon, <2>1, <2>2, ReplacedIsMine
  <2>4. Reserved(c)'
    BY <2>1 DEF WiredAt, InAdd, Reserved
  <2> QED BY <2>1, <2>3, <2>4 DEF WiredAt
<1> QED BY <1>1, <1>2

LEMMA SetupMakes ==
  ASSUME NEW e \in End, NEW local, NEW peer
  PROVE  /\ BasicSetup(e, local, peer).up /\ BasicSetup(e, local, peer).mac = local.hw
         /\ BasicSetup(e, local, peer).addr = local.ip
         /\ BasicSetup(e, local, peer).neigh = peer
BY DEF End, BasicSetup, LinkSetHardwareAddr, StaticNeighborNoARP, SetPointToPointAddress,
       LinkSetUp

LEMMA HostSetupWired ==
  ASSUME CNIInv, NEW c \in Container, WiredAt(c), HostSetup(c)
  PROVE  WiredAt(c)'
<1>1. CASE Fail(c)
  BY <1>1, FailWired DEF Fail
<1>2. CASE ~ Fail(c)
  <2> DEFINE full == BasicSetup(PairOf(c).host, HostEnd(c), ContainerEnd(c))
  <2>0. PICK w : w = [PairOf(c) EXCEPT !.host = full]
    BY Zenon
  <2>1. /\ pc[c] = "host" /\ pc'[c] = "container" /\ UNCHANGED <<ip, ipam>>
        /\ Replace(PairOf(c), w)
    BY Zenon, <1>2, <2>0 DEF HostSetup, Proceed, Goto, CNIInv, TypeOK
  <2>2. /\ PairOf(c) \in pairs /\ PairOf(c) \in Pair /\ PairOf(c).host \in End
        /\ Mine(PairOf(c), c)
    BY <2>1, PairOfCall DEF Pair, Mine
  <2>3. PairOf(c).ns = c
    BY <2>1, <2>2 DEF WiredAt
  <2>4. full.up /\ full.mac = HostEnd(c).hw /\ full.addr = HostEnd(c).ip
        /\ full.neigh = ContainerEnd(c)
    BY ONLY <2>2, SetupMakes
  <2> HIDE DEF full
  <2>5. w.ns = c /\ w.host = full
    BY <2>0, <2>2, <2>3 DEF Pair
  <2>6. \A v \in pairs' : Mine(v, c)' => v = w
    BY <2>1, ReplacedIsMine
  <2>7. HostReady(w, c)'
    BY <2>1, <2>4, <2>5 DEF HostReady, HostEnd, ContainerEnd, HardwareForHost,
                            HardwareForContainer
  <2>8. Reserved(c)'
    BY <2>1 DEF WiredAt, InAdd, Reserved
  <2> QED BY <2>1, <2>5, <2>6, <2>7, <2>8 DEF WiredAt
<1> QED BY <1>1, <1>2

LEMMA ContainerSetupWired ==
  ASSUME CNIInv, NEW c \in Container, WiredAt(c), ContainerSetup(c)
  PROVE  WiredAt(c)'
<1>1. CASE Finish(c, "failed")
  BY <1>1, FailWired
<1>2. CASE ~ Finish(c, "failed")
  <2> DEFINE full == BasicSetup(PairOf(c).container, ContainerEnd(c), HostEnd(c))
  <2>0. PICK w : w = [[PairOf(c) EXCEPT !.dev = IfName]
                      EXCEPT !.container = full, !.routed = TRUE]
    OBVIOUS
  <2>1. /\ pc[c] = "container" /\ pc'[c] = "store" /\ UNCHANGED <<ip, ipam>>
        /\ Replace(PairOf(c), RouteAddAll([RenameLink(PairOf(c)) EXCEPT !.container = full]))
    BY <1>2 DEF ContainerSetup, Proceed, Fail, Goto, CNIInv, TypeOK
  <2>2. /\ PairOf(c) \in pairs /\ PairOf(c) \in Pair /\ PairOf(c).container \in End
        /\ Mine(PairOf(c), c)
    BY <2>1, PairOfCall DEF Pair, Mine
  <2>3. PairOf(c).ns = c /\ HostReady(PairOf(c), c)
    BY <2>1, <2>2 DEF WiredAt
  <2>4. full.up /\ full.mac = ContainerEnd(c).hw /\ full.addr = ContainerEnd(c).ip
        /\ full.neigh = HostEnd(c)
    BY ONLY <2>2, SetupMakes
  <2> HIDE DEF full
  <2>5. /\ w.ns = c /\ w.dev = IfName /\ w.routed = TRUE /\ w.container = full
        /\ w.host = PairOf(c).host /\ w.owner = c
    BY <2>0, <2>2, <2>3 DEF Pair, Mine
  <2>6. w = RouteAddAll([RenameLink(PairOf(c)) EXCEPT !.container = full])
    BY <2>0, <2>2 DEF Pair, RouteAddAll, RenameLink
  <2>7. w \in pairs'
    BY <2>1, <2>6 DEF Replace
  <2>8. Ready(w, c)'
    BY <2>1, <2>3, <2>4, <2>5
       DEF Ready, HostReady, HostEnd, ContainerEnd, HardwareForHost, HardwareForContainer,
           IfName, generate
  <2>9. Reserved(c)'
    BY <2>1 DEF WiredAt, InAdd, Reserved
  <2> QED BY <2>1, <2>7, <2>8, <2>9 DEF WiredAt, Wired
<1> QED BY <1>1, <1>2

LEMMA UnchangedWired ==
  ASSUME WiredInv, UNCHANGED cni
  PROVE  WiredInv'
BY UndisturbedWired DEF WiredInv, Undisturbed, cni

LEMMA NextWired ==
  ASSUME CNIInv, WiredInv, Next
  PROVE  WiredInv'
<1>1. CASE \E c \in Container : InStore(c)
  BY <1>1, UnchangedWired DEF InStore
<1>2. CASE DaemonReads \/ InStore(Daemon)
  BY <1>2, UnchangedWired DEF DaemonReads, InStore
<1>3. CASE \E c \in Container : \/ cmdAdd(c) \/ cmdDel(c) \/ (Run(c) /\ ~ InStore(c))
                                \/ Kill(c) \/ RemoveNS(c)
  <2>1. PICK c \in Container : \/ cmdAdd(c) \/ cmdDel(c) \/ (Run(c) /\ ~ InStore(c))
                               \/ Kill(c) \/ RemoveNS(c)
    BY <1>3
  <2>2. WiredAt(c)'
    BY <2>1, DelWired, BeforePairWired, AfterPairWired, LinkSetNsFdWired, HostSetupWired,
       ContainerSetupWired DEF Run, WiredInv
  <2>3. ASSUME NEW d \in Container, d # c PROVE WiredAt(d)'
    <3>1. Undisturbed(d)
      BY <2>1, <2>3, SamePairs, OtherPairs DEF Run
    <3> QED BY <3>1, UndisturbedWired DEF WiredInv
  <2> QED BY <2>2, <2>3 DEF WiredInv
<1> QED BY <1>1, <1>2, <1>3 DEF Next

LEMMA WiredInvariance == Spec => [](CNIInv /\ WiredInv)
<1>1. Init => WiredInv
  BY DEF Init, WiredInv, WiredAt, InAdd
<1>2. ASSUME IInv /\ CNIInv, WiredInv, [Next]_vars PROVE WiredInv'
  BY <1>2, NextWired, UnchangedWired DEF vars
<1> QED BY CNIInvariance, <1>1, <1>2, PTL DEF Spec

(* An ADD that succeeded left its container a device with the name asked    *)
(* for, both ends set up to each other, and its address reserved: no error  *)
(* of a step is passed over, and no other call ever touches them.           *)
THEOREM AddedContainersWired == Spec => []AddedIsWired
<1>1. CNIInv /\ WiredInv => AddedIsWired
  <2> SUFFICES ASSUME CNIInv, WiredInv, NEW c \in netns,
                      outcome[c] = "added" /\ pc[c] = "idle"
               PROVE  /\ ipam[ip[c]] = c
                      /\ \E v \in pairs :
                           /\ v.ns = c /\ v.dev = IfName /\ v.routed
                           /\ v.host.up /\ v.container.up /\ v.container.addr = ip[c]
                           /\ v.host.neigh = [hw |-> v.container.mac,
                                             ip |-> v.container.addr]
                           /\ v.container.neigh = [hw |-> v.host.mac, ip |-> v.host.addr]
    BY Zenon DEF AddedIsWired
  <2>1. c \in Container
    BY DEF CNIInv, TypeOK
  <2>2. ipam[ip[c]] = c /\ Wired(c)
    BY <2>1 DEF WiredInv, WiredAt, Reserved
  <2> QED BY <2>2, Zenon DEF Wired, Ready
<1> QED BY WiredInvariance, <1>1, PTL

-------------------------------------------------------------------------------
(* FreeAddressIsUsable, and DeletedIsGone for a container that never met a  *)
(* failure.  Its calls know where its pair is: on its way into the          *)
(* namespace, or there under its name, which is what the removal of the     *)
(* namespace and Teardown look for.                                         *)

Making   == {"move", "host", "container"}
Fresh(c) == pc[c] = "idle" /\ outcome[c] \in {"none", "deleted"}

Places(c) ==
  /\ \A v \in pairs : v.ns = c => c \in netns
  /\ pc[c] \in Making \cup {"link"} => c \in netns

Bare(c) == \A v \in pairs : v.owner # c

Neat(c) ==
  /\ pc[c] \in {"ipam", "config", "link", "del store", "deleted"} \/ Fresh(c) => Bare(c)
  /\ \A v \in pairs : v.owner = c =>
       /\ IF pc[c] \in Making THEN v.name = GenerateForHost(ip[c]) /\ v.dev # IfName
          ELSE v.ns = c /\ v.dev = IfName
       /\ \/ pc[c] \in {"del ns", "del link"}
          \/ \E a \in Address : v.name = GenerateForHost(a) /\ ipam[a] = c
  /\ pc[c] \in {"ipam", "del ns", "del link", "del store", "deleted"} \/ Fresh(c) =>
       \A a \in Address : ipam[a] # c

CleanInv == \A c \in Container : Places(c) /\ (c \notin faulty => Neat(c))

LEMMA FaultsStay ==
  ASSUME Next
  PROVE  faulty \subseteq faulty'
<1>1. ASSUME NEW p, Access(p) PROVE faulty \subseteq faulty'
  BY <1>1 DEF Access, Open, Decode, Truncate, Encode, Fine, Fault, faults
<1>2. ASSUME NEW c \in Container, Run(c), ~ InStore(c) PROVE faulty \subseteq faulty'
  BY Zenon, <1>2 DEF Run, DelegateAdd, Create, LinkAdd, LinkSetNsFd, HostSetup, ContainerSetup,
              StoreAdd, Stored, DelegateDel, GetNS, Teardown, StoreDelete, Deleted,
              Proceed, Fail, Fine, Fault, faults
<1> QED BY Zenon, <1>1, <1>2
           DEF Next, InStore, cmdAdd, getNetworkInfo, cmdDel, Kill, Die, RemoveNS,
                          DaemonReads, Afresh, Fail, Fine, Fault, faults

(* Only the beginning of a call makes a container's failures earlier ones. *)
LEMMA FailingStays ==
  /\ \A p : Access(p) => failing \subseteq failing'
  /\ \A c \in Container :
       /\ cmdAdd(c) \/ cmdDel(c) => failing \ {c} \subseteq failing'
       /\ Kill(c) \/ RemoveNS(c) \/ (Run(c) /\ ~ InStore(c)) => failing \subseteq failing'
<1>1. ASSUME NEW p, Access(p) PROVE failing \subseteq failing'
  BY <1>1 DEF Access, Open, Decode, Truncate, Encode, Fine, Fault, faults
<1>2. ASSUME NEW c \in Container, Run(c), ~ InStore(c) PROVE failing \subseteq failing'
  BY Zenon, <1>2 DEF Run, DelegateAdd, Create, LinkAdd, LinkSetNsFd, HostSetup, ContainerSetup,
              StoreAdd, Stored, DelegateDel, GetNS, Teardown, StoreDelete, Deleted,
              Proceed, Fail, Fine, Fault, faults
<1>3. ASSUME NEW c \in Container, cmdAdd(c) \/ cmdDel(c) PROVE failing \ {c} \subseteq failing'
  BY Zenon, <1>3 DEF cmdAdd, getNetworkInfo, cmdDel, Afresh, Fail, Fault
<1>4. ASSUME NEW c \in Container, Kill(c) \/ RemoveNS(c) PROVE failing \subseteq failing'
  BY Zenon, <1>4 DEF Kill, Die, RemoveNS, Fault, faults
<1> QED BY Zenon, <1>1, <1>2, <1>3, <1>4

LEMMA UndisturbedClean ==
  ASSUME CNIInv, PairsInv', NEW d \in Container, Undisturbed(d)
  PROVE  (Places(d) => Places(d)') /\ (Neat(d) => Neat(d)')
<1>1. \A v \in pairs' : v.ns = d => v.owner = d
  BY CNIAssumption DEF PairsInv
<1>2. Places(d) => Places(d)'
  BY <1>1 DEF Undisturbed, Places
<1>3. Fresh(d)' = Fresh(d) /\ Bare(d)' = Bare(d)
  BY DEF Undisturbed, Fresh, Bare
<1>4. ASSUME NEW a PROVE GenerateForHost(a)' = GenerateForHost(a) /\ IfName' = IfName
  BY DEF GenerateForHost, IfName, generate
<1> QED BY Zenon, <1>2, <1>3, <1>4 DEF Undisturbed, Neat, GenerateForHost, IfName, generate

(* A call without a pair, and without a reservation where it must have none. *)
LEMMA BareIsNeat ==
  ASSUME NEW c \in Container, Bare(c)',
         pc'[c] \in {"config", "link"} \/ outcome'[c] = "failed" \/ \A a \in Address : ipam'[a] # c,
         pc'[c] \in {"ipam", "config", "link", "idle", "del store", "deleted"},
         pc'[c] \in {"ipam", "del store", "deleted"} => \A a \in Address : ipam'[a] # c
  PROVE  Neat(c)'
BY Zenon DEF Neat, Bare, Fresh

(* Before a call makes its pair. *)
LEMMA BeforePairClean ==
  ASSUME CNIInv, NEW c \in Container, Places(c), c \notin faulty => Neat(c),
         cmdAdd(c) \/ DelegateAdd(c) \/ Create(c)
  PROVE  Places(c)' /\ (c \notin faulty' => Neat(c)')
<1>1. UNCHANGED <<netns, pairs>> /\ faulty \subseteq faulty'
  BY DEF cmdAdd, getNetworkInfo, DelegateAdd, Create, Proceed, Afresh, Fail, Fine, Fault, faults,
         kernel
<1>2. Places(c)'
  BY <1>1 DEF Places, Making, cmdAdd, getNetworkInfo, DelegateAdd, Create, Proceed, Fail,
              Finish, Goto, CNIInv, TypeOK
<1>3. ASSUME c \notin faulty' PROVE Neat(c)'
  <2>1. Neat(c) /\ Bare(c)'
    BY Zenon, <1>1, <1>3 DEF Neat, Bare, Fresh, cmdAdd, DelegateAdd, Create
  <2>2. CASE cmdAdd(c)
    <3>1. pc'[c] = "ipam" /\ ipam' = ipam /\ Fresh(c)
      BY <1>3, <2>2
         DEF cmdAdd, getNetworkInfo, Proceed, Fail, Fault, Goto, Fresh, CNIInv, TypeOK
    <3> QED BY Zenon, <2>1, <3>1, BareIsNeat DEF Neat
  <2>3. CASE DelegateAdd(c) \/ Create(c)
    <3>1. pc'[c] \in {"config", "link"} \/ (pc'[c] = "idle" /\ outcome'[c] = "failed")
      BY <2>3 DEF DelegateAdd, Create, Proceed, Fail, Finish, Goto, CNIInv, TypeOK
    <3> QED BY Zenon, <2>1, <3>1, BareIsNeat
  <2> QED BY <2>2, <2>3
<1> QED BY <1>2, <1>3

LEMMA TemporaryNames == \A a : GenerateTemporaryForContainer(a) # IfName
BY DEF GenerateTemporaryForContainer, IfName, generate

LEMMA LinkAddClean ==
  ASSUME CNIInv, NEW c \in Container, WiredAt(c), Places(c), c \notin faulty => Neat(c),
         LinkAdd(c)
  PROVE  Places(c)' /\ (c \notin faulty' => Neat(c)')
<1>1. /\ pc[c] = "link" /\ c \in netns /\ UNCHANGED <<netns, ipam, ip>>
      /\ faulty \subseteq faulty' /\ Reserved(c)
  BY Zenon DEF LinkAdd, Places, Proceed, Fail, Fine, Fault, faults, WiredAt, InAdd
<1>2. Places(c)'
  BY Zenon, <1>1 DEF Places
<1>3. ASSUME c \notin faulty' PROVE Neat(c)'
  <2>0. Neat(c) /\ Bare(c)
    BY Zenon, <1>1, <1>3 DEF Neat
  <2>1. CASE UNCHANGED pairs /\ Finish(c, "failed")
    <3>1. pc'[c] = "idle" /\ outcome'[c] = "failed" /\ Bare(c)'
      BY <2>0, <2>1 DEF Finish, Bare, CNIInv, TypeOK
    <3> QED BY Zenon, <3>1, BareIsNeat
  <2>2. CASE ~ (UNCHANGED pairs /\ Finish(c, "failed"))
    <3>1. pc'[c] = "move"
      BY Zenon, <2>2 DEF LinkAdd, Proceed, Fail, Goto, CNIInv, TypeOK
    <3>2. PICK h, k :
            pairs' = pairs \cup {[owner |-> c, name |-> GenerateForHost(ip[c]), ns |-> Host,
                                  dev |-> GenerateTemporaryForContainer(ip[c]),
                                  host |-> NewEnd(h, TRUE), container |-> NewEnd(k, FALSE),
                                  routed |-> FALSE]}
      BY Zenon, <2>2 DEF LinkAdd, Fail
    <3> DEFINE w == [owner |-> c, name |-> GenerateForHost(ip[c]), ns |-> Host,
                     dev |-> GenerateTemporaryForContainer(ip[c]),
                     host |-> NewEnd(h, TRUE), container |-> NewEnd(k, FALSE),
                     routed |-> FALSE]
    <3>3. /\ pairs' = pairs \cup {w} /\ w.name = GenerateForHost(ip[c])
          /\ w.dev = GenerateTemporaryForContainer(ip[c])
      BY <3>2
    <3> HIDE DEF w
    <3>4. \A v \in pairs' : v.owner = c => v = w
      BY <2>0, <3>3 DEF Bare
    <3>5. w.dev # IfName
      BY <3>3, TemporaryNames
    <3> QED BY Zenon, <1>1, <3>1, <3>3, <3>4, <3>5
            DEF Neat, Fresh, Making, Reserved, GenerateForHost, IfName, generate
  <2> QED BY <2>1, <2>2
<1> QED BY <1>2, <1>3

(* While it makes its pair. *)
LEMMA ReplaceClean ==
  ASSUME CNIInv, NEW c \in Container, WiredAt(c), Places(c), c \notin faulty => Neat(c),
         pc[c] \in Making, NEW w, Replace(PairOf(c), w), w.name = PairOf(c).name,
         UNCHANGED <<netns, ipam, ip>>, faulty \subseteq faulty',
         c \notin faulty' => \/ pc'[c] \in Making /\ w.dev # IfName
                             \/ pc'[c] = "store" /\ w.ns = c /\ w.dev = IfName
  PROVE  Places(c)' /\ (c \notin faulty' => Neat(c)')
<1>1. Places(c)'
  BY DEF Places
<1>2. /\ PairOf(c) \in pairs /\ PairOf(c).name = GenerateForHost(ip[c])
      /\ Reserved(c)
  BY Zenon, PairOfCall DEF Making, WiredAt, InAdd
<1>3. ASSUME c \notin faulty' PROVE Neat(c)'
  <2>1. \A v \in pairs : v.owner = c => v = PairOf(c)
    BY Zenon, <1>2, <1>3 DEF Neat, CNIInv, PairsInv
  <2>2. \A v \in pairs' : v.owner = c => v = w
    BY <2>1 DEF Replace
  <2>3. w.name = GenerateForHost(ip[c])
    BY <1>2
  <2> QED BY Zenon, <1>2, <1>3, <2>2, <2>3
          DEF Neat, Fresh, Making, Reserved, GenerateForHost, IfName, generate
<1> QED BY <1>1, <1>3

(* A step that failed: only where the pairs are still matters. *)
LEMMA FailClean ==
  ASSUME CNIInv, NEW c \in Container, Fail(c), c \in netns, UNCHANGED netns
  PROVE  Places(c)' /\ (c \notin faulty' => Neat(c)')
BY DEF Fail, Finish, Fault, Places

LEMMA LinkSetNsFdClean ==
  ASSUME CNIInv, NEW c \in Container, WiredAt(c), Places(c), c \notin faulty => Neat(c),
         LinkSetNsFd(c)
  PROVE  Places(c)' /\ (c \notin faulty' => Neat(c)')
<1>1. pc[c] \in Making /\ c \in netns /\ UNCHANGED <<netns, ipam, ip>>
  BY DEF LinkSetNsFd, Making, Places
<1>2. CASE Fail(c)
  BY <1>1, <1>2, FailClean
<1>3. CASE ~ Fail(c)
  <2> DEFINE w == [PairOf(c) EXCEPT !.ns = c]
  <2>1. /\ pc'[c] = "host" /\ UNCHANGED faulty /\ Replace(PairOf(c), w)
    BY <1>3 DEF LinkSetNsFd, Proceed, Goto, Fine, faults, CNIInv, TypeOK
  <2>2. /\ PairOf(c) \in pairs /\ PairOf(c) \in Pair /\ PairOf(c).owner = c
    BY <1>1, PairOfCall DEF Making
  <2>3. w.name = PairOf(c).name /\ w.dev = PairOf(c).dev
    BY <2>2 DEF Pair
  <2> HIDE DEF w
  <2>4. c \notin faulty => w.dev # IfName
    BY Zenon, <1>1, <2>2, <2>3 DEF Neat
  <2> QED BY <1>1, <2>1, <2>3, <2>4, ReplaceClean DEF Making
<1> QED BY <1>2, <1>3

LEMMA HostSetupClean ==
  ASSUME CNIInv, NEW c \in Container, WiredAt(c), Places(c), c \notin faulty => Neat(c),
         HostSetup(c)
  PROVE  Places(c)' /\ (c \notin faulty' => Neat(c)')
<1>1. pc[c] \in Making /\ c \in netns /\ UNCHANGED <<netns, ipam, ip>>
  BY DEF HostSetup, Making, Places
<1>2. CASE Fail(c)
  BY <1>1, <1>2, FailClean
<1>3. CASE ~ Fail(c)
  <2> DEFINE full == BasicSetup(PairOf(c).host, HostEnd(c), ContainerEnd(c))
             w == [PairOf(c) EXCEPT !.host = full]
  <2>1. /\ pc'[c] = "container" /\ UNCHANGED faulty /\ Replace(PairOf(c), w)
    BY Zenon, <1>3 DEF HostSetup, Proceed, Goto, Fine, faults, CNIInv, TypeOK
  <2>2. /\ PairOf(c) \in pairs /\ PairOf(c) \in Pair /\ PairOf(c).owner = c
    BY <1>1, PairOfCall DEF Making
  <2> HIDE DEF full
  <2>3. w.name = PairOf(c).name /\ w.dev = PairOf(c).dev
    BY <2>2 DEF Pair
  <2> HIDE DEF w
  <2>4. c \notin faulty => w.dev # IfName
    BY Zenon, <1>1, <2>2, <2>3 DEF Neat
  <2> QED BY <1>1, <2>1, <2>3, <2>4, ReplaceClean DEF Making
<1> QED BY <1>2, <1>3

LEMMA ContainerSetupClean ==
  ASSUME CNIInv, NEW c \in Container, WiredAt(c), Places(c), c \notin faulty => Neat(c),
         ContainerSetup(c)
  PROVE  Places(c)' /\ (c \notin faulty' => Neat(c)')
<1>1. pc[c] \in Making /\ c \in netns /\ UNCHANGED <<netns, ipam, ip>>
      /\ pc[c] = "container"
  BY DEF ContainerSetup, Making, Places
<1>2. CASE Finish(c, "failed")
  <2>1. Places(c)'
    BY <1>1 DEF Places
  <2>2. c \in faulty'
    <3>1. CASE c \in faulty
      BY <3>1 DEF ContainerSetup, Proceed, Fail, Fine, Fault, faults
    <3>2. CASE c \notin faulty
      <4>1. ASSUME NEW v \in pairs, v.ns = c, v.dev = IfName PROVE FALSE
        <5>1. v.owner = c
          BY <4>1, CNIAssumption DEF CNIInv, PairsInv
        <5> QED BY <1>1, <3>2, <4>1, <5>1 DEF Neat
      <4>2. Fail(c)
        <5>1. ~ Proceed(c, "store")
          BY <1>2 DEF Proceed, Finish, Goto, CNIInv, TypeOK
        <5> QED BY <4>1, <5>1 DEF ContainerSetup
      <4> QED BY <4>2 DEF Fail, Fault
    <3> QED BY <3>1, <3>2
  <2> QED BY <2>1, <2>2
<1>3. CASE ~ Finish(c, "failed")
  <2> DEFINE full == BasicSetup(PairOf(c).container, ContainerEnd(c), HostEnd(c))
             w == RouteAddAll([RenameLink(PairOf(c)) EXCEPT !.container = full])
  <2>1. pc'[c] = "store" /\ UNCHANGED faulty /\ Replace(PairOf(c), w)
    BY <1>3 DEF ContainerSetup, Proceed, Fail, Goto, Fine, faults, CNIInv, TypeOK
  <2>2. /\ PairOf(c) \in pairs /\ PairOf(c) \in Pair /\ Mine(PairOf(c), c)
    BY <1>1, PairOfCall DEF Making, Mine
  <2>3. PairOf(c).ns = c
    BY <1>1, <2>2 DEF WiredAt
  <2> HIDE DEF full
  <2>4. w.name = PairOf(c).name /\ w.dev = IfName /\ w.ns = c
    BY <2>2, <2>3 DEF Pair, RouteAddAll, RenameLink
  <2> HIDE DEF w
  <2> QED BY <1>1, <2>1, <2>4, ReplaceClean
<1> QED BY <1>2, <1>3

(* Once it is made, until a DEL has released the address. *)
LEMMA AfterPairClean ==
  ASSUME CNIInv, NEW c \in Container, Places(c), c \notin faulty => Neat(c),
         StoreAdd(c) \/ Stored(c) \/ cmdDel(c)
  PROVE  Places(c)' /\ (c \notin faulty' => Neat(c)')
<1>1. UNCHANGED <<netns, pairs, ipam>> /\ faulty \subseteq faulty'
  BY Zenon DEF StoreAdd, Stored, cmdDel, Proceed, Afresh, Fail, Fine, Fault, faults, kernel
<1>2. /\ pc[c] \in {"store", "stored", "idle"}
      /\ \/ pc'[c] \in {"stored", "del ipam"}
         \/ pc'[c] = "idle" /\ outcome'[c] \in {"added", "failed"}
  BY Zenon DEF StoreAdd, Stored, cmdDel, Proceed, Fail, Finish, Goto, CNIInv, TypeOK
<1> QED BY Zenon, <1>1, <1>2 DEF Places, Neat, Fresh, Making, GenerateForHost, IfName, generate

LEMMA DelClean ==
  ASSUME CNIInv, NEW c \in Container, Places(c), c \notin faulty => Neat(c),
         \/ DelegateDel(c) \/ GetNS(c) \/ Teardown(c) \/ StoreDelete(c) \/ Deleted(c)
  PROVE  Places(c)' /\ (c \notin faulty' => Neat(c)')
<1>1. /\ UNCHANGED netns /\ pairs' \subseteq pairs /\ faulty \subseteq faulty'
      /\ pc'[c] \in {"del ns", "del link", "del store", "deleted", "idle"}
  BY Zenon
     DEF DelegateDel, GetNS, Teardown, DeleteLinkByName, StoreDelete, Deleted, Proceed, Fail,
         Finish, Goto, Fine, Fault, faults, kernel, CNIInv, TypeOK
<1>2. Places(c)'
  BY Zenon, <1>1 DEF Places, Making
<1>3. ASSUME c \notin faulty' PROVE Neat(c)'
  <2>0. Neat(c)
    BY Zenon, <1>1, <1>3
  <2>1. CASE DelegateDel(c)
    <3>1. /\ pc[c] = "del ipam" /\ pc'[c] = "del ns" /\ UNCHANGED pairs
          /\ \A a \in Address : ipam'[a] # c
      BY Zenon, <1>3, <2>1, Released DEF DelegateDel, Goto, kernel, CNIInv, TypeOK
    <3> QED BY Zenon, <2>0, <3>1 DEF Neat, Fresh, Making, IfName, generate
  <2>2. CASE GetNS(c)
    <3>1. pc[c] = "del ns" /\ UNCHANGED <<pairs, ipam>> /\ \A a \in Address : ipam[a] # c
      BY Zenon, <2>0, <2>2 DEF GetNS, kernel, Neat
    <3>2. CASE pc'[c] = "del link"
      BY Zenon, <2>0, <3>1, <3>2 DEF Neat, Fresh, Making, IfName, generate
    <3>3. CASE pc'[c] # "del link"
      <4>1. pc'[c] = "idle" /\ c \notin netns
        BY Zenon, <1>3, <2>2, <3>3 DEF GetNS, Proceed, Finish, Goto, Fault, CNIInv, TypeOK
      <4>2. Bare(c)'
        BY Zenon, <2>0, <3>1, <4>1 DEF Neat, Bare, Places, Making
      <4> QED BY Zenon, <3>1, <4>1, <4>2, BareIsNeat
    <3> QED BY Zenon, <3>2, <3>3
  <2>3. CASE Teardown(c)
    <3>1. /\ pc[c] = "del link" /\ pc'[c] = "del store" /\ UNCHANGED ipam
          /\ pairs' = DeleteLinkByName(c)
      BY Zenon, <1>3, <2>3 DEF Teardown, Proceed, Fail, Fault, Goto, CNIInv, TypeOK
    <3>2. Bare(c)' /\ \A a \in Address : ipam'[a] # c
      BY Zenon, <2>0, <3>1 DEF Neat, Bare, Making, DeleteLinkByName
    <3> QED BY Zenon, <3>1, <3>2, BareIsNeat
  <2>4. CASE StoreDelete(c) \/ Deleted(c)
    <3>1. Bare(c)' /\ (\A a \in Address : ipam'[a] # c) /\ pc'[c] \in {"deleted", "idle"}
      BY Zenon, <2>0, <2>4 DEF StoreDelete, Deleted, Neat, Bare, Proceed, Finish, Goto, kernel,
                        CNIInv, TypeOK
    <3> QED BY Zenon, <3>1, BareIsNeat
  <2> QED BY <2>1, <2>2, <2>3, <2>4
<1> QED BY <1>2, <1>3

LEMMA EnvironmentClean ==
  ASSUME CNIInv, NEW c \in Container, Places(c), c \notin faulty => Neat(c),
         Kill(c) \/ RemoveNS(c)
  PROVE  Places(c)' /\ (c \notin faulty' => Neat(c)')
<1>1. CASE Kill(c)
  <2>1. pc'[c] = "idle" /\ UNCHANGED <<netns, pairs>> /\ c \in faulty'
    BY <1>1 DEF Kill, Die, Fault, Finish, kernel, CNIInv, TypeOK
  <2> QED BY <2>1 DEF Places, Making
<1>2. CASE RemoveNS(c)
  <2>1. /\ pc' = pc /\ UNCHANGED <<ipam, ip, outcome, faulty>> /\ pairs' \subseteq pairs
        /\ pc[c] \notin Making \cup {"link"} /\ \A v \in pairs' : v.ns # c
    BY Zenon, <1>2 DEF RemoveNS, faults, Making
  <2>2. Places(c)'
    BY <2>1 DEF Places
  <2>3. Neat(c) => Neat(c)'
    BY Zenon, <2>1 DEF Neat, Bare, Fresh, GenerateForHost, IfName, generate
  <2> QED BY <2>1, <2>2, <2>3
<1> QED BY <1>1, <1>2

LEMMA UnchangedClean ==
  ASSUME CNIInv, CleanInv, UNCHANGED cni, faulty \subseteq faulty'
  PROVE  CleanInv'
<1> SUFFICES ASSUME NEW c \in Container PROVE Places(c)' /\ (c \notin faulty' => Neat(c)')
  BY DEF CleanInv
<1>1. Undisturbed(c) /\ PairsInv'
  BY DEF Undisturbed, cni, CNIInv, PairsInv
<1> QED BY <1>1, UndisturbedClean DEF CleanInv

LEMMA NextClean ==
  ASSUME CNIInv, PairsInv', WiredInv, CleanInv, Next
  PROVE  CleanInv'
<1>1. CASE \E c \in Container : InStore(c)
  BY <1>1, UnchangedClean, FaultsStay DEF InStore
<1>2. CASE DaemonReads \/ InStore(Daemon)
  BY <1>2, UnchangedClean, FaultsStay DEF DaemonReads, InStore
<1>3. CASE \E c \in Container : \/ cmdAdd(c) \/ cmdDel(c) \/ (Run(c) /\ ~ InStore(c))
                                \/ Kill(c) \/ RemoveNS(c)
  <2>1. PICK c \in Container : \/ cmdAdd(c) \/ cmdDel(c) \/ (Run(c) /\ ~ InStore(c))
                               \/ Kill(c) \/ RemoveNS(c)
    BY <1>3
  <2>2. Places(c) /\ (c \notin faulty => Neat(c)) /\ WiredAt(c)
    BY DEF CleanInv, WiredInv
  <2>3. Places(c)' /\ (c \notin faulty' => Neat(c)')
    BY <2>1, <2>2, BeforePairClean, LinkAddClean, LinkSetNsFdClean, HostSetupClean,
       ContainerSetupClean, AfterPairClean, DelClean, EnvironmentClean DEF Run
  <2>4. ASSUME NEW d \in Container, d # c PROVE Places(d)' /\ (d \notin faulty' => Neat(d)')
    <3>1. Undisturbed(d)
      BY <2>1, <2>4, SamePairs, OtherPairs DEF Run
    <3> QED BY <3>1, UndisturbedClean, FaultsStay DEF CleanInv
  <2> QED BY <2>3, <2>4 DEF CleanInv
<1> QED BY <1>1, <1>2, <1>3 DEF Next

LEMMA CleanInvariance == Spec => [](IInv /\ CNIInv /\ WiredInv /\ CleanInv)
<1>1. Init => CleanInv
  BY CNIAssumption DEF Init, CleanInv, Places, Neat, Bare, Fresh, Making
<1>2. ASSUME IInv /\ CNIInv, (IInv /\ CNIInv)', WiredInv, CleanInv, [Next]_vars
      PROVE  CleanInv'
  <2>1. CASE Next
    BY <1>2, <2>1, NextClean DEF CNIInv
  <2>2. CASE UNCHANGED vars
    BY <1>2, <2>2, UnchangedClean DEF vars, faults
  <2> QED BY <1>2, <2>1, <2>2
<1> QED BY CNIInvariance, WiredInvariance, <1>1, <1>2, PTL DEF Spec

(* An address that host-local gives out again has its device names free,    *)
(* but for a DEL still on its way from release to removal and containers    *)
(* that met a failing call.                                                 *)
THEOREM FreeAddressesUsable == Spec => []FreeAddressIsUsable
<1>1. CNIInv /\ CleanInv => FreeAddressIsUsable
  <2> SUFFICES ASSUME CNIInv, CleanInv, NEW v \in pairs, NEW a \in Address,
                      v.name = GenerateForHost(a), ipam[a] = None, v.owner \notin faulty
               PROVE  pc[v.owner] \in {"del ns", "del link"}
    BY Zenon DEF FreeAddressIsUsable
  <2>1. v.owner \in Container
    BY DEF CNIInv, PairsInv, Pair
  <2>2. ASSUME NEW b \in Address, v.name = GenerateForHost(b) PROVE b = a
    BY <2>2 DEF GenerateForHost, generate
  <2>3. Neat(v.owner)
    BY <2>1 DEF CleanInv
  <2>4. \/ pc[v.owner] \in {"del ns", "del link"}
        \/ \E b \in Address : v.name = GenerateForHost(b) /\ ipam[b] = v.owner
    BY <2>3, Zenon DEF Neat
  <2> QED BY Zenon, <2>1, <2>2, <2>4, CNIAssumption
<1> QED BY CleanInvariance, <1>1, PTL

-------------------------------------------------------------------------------
(* DeletedIsGone, with host-local and in the kernel, after earlier failures *)
(* too.  A device that has got its name is in its container's namespace: it *)
(* goes with the namespace or in Teardown.  A DEL has released the address  *)
(* from DelegateDel on.                                                     *)

Over(c) == pc[c] = "idle" /\ outcome[c] = "deleted"

Swept(c) ==
  /\ \A v \in pairs : v.owner = c /\ v.dev = IfName => v.ns = c
  /\ c \notin failing =>
       /\ pc[c] \in {"del ns", "del link", "del store", "deleted"} \/ Over(c) =>
            \A a \in Address : ipam[a] # c
       /\ pc[c] \in {"del store", "deleted"} \/ Over(c) =>
            \A v \in pairs : v.owner = c => v.dev # IfName

SweptInv == \A c \in Container : Swept(c)

LEMMA UndisturbedSwept ==
  ASSUME NEW d \in Container, Swept(d), Undisturbed(d), d \in failing => d \in failing'
  PROVE  Swept(d)'
<1>1. Over(d)' = Over(d) /\ IfName' = IfName
  BY Zenon DEF Undisturbed, Over, IfName, generate
<1> QED BY Zenon, <1>1 DEF Undisturbed, Swept

(* The steps of an ADD leave the named devices where they are. *)
LEMMA AddSwept ==
  ASSUME CNIInv, NEW c \in Container, WiredAt(c), Swept(c),
         \/ cmdAdd(c) \/ DelegateAdd(c) \/ Create(c) \/ LinkAdd(c) \/ LinkSetNsFd(c)
         \/ HostSetup(c) \/ ContainerSetup(c) \/ StoreAdd(c) \/ Stored(c) \/ Kill(c)
  PROVE  Swept(c)'
<1>1. \/ pc'[c] \in {"ipam", "config", "link", "move", "host", "container", "store", "stored"}
      \/ pc'[c] = "idle" /\ outcome'[c] # "deleted"
  BY Zenon
     DEF cmdAdd, getNetworkInfo, DelegateAdd, Create, LinkAdd, LinkSetNsFd, HostSetup,
         ContainerSetup, StoreAdd, Stored, Kill, Proceed, Fail, Finish, Goto, CNIInv, TypeOK
<1>2. ASSUME NEW v \in pairs', v.owner = c, v.dev = IfName PROVE v.ns = c
  <2>1. CASE v \in pairs
    BY Zenon, <1>2, <2>1 DEF Swept
  <2>2. CASE v \notin pairs
    <3>1. CASE LinkAdd(c)
      <4>1. v.dev = GenerateTemporaryForContainer(ip[c])
        <5>1. \/ UNCHANGED pairs
              \/ \E w : w.dev = GenerateTemporaryForContainer(ip[c]) /\ pairs' = pairs \cup {w}
          BY Zenon, <3>1 DEF LinkAdd
        <5> QED BY Zenon, <2>2, <5>1
      <4> QED BY Zenon, <1>2, <4>1, TemporaryNames
    <3>2. CASE LinkSetNsFd(c)
      BY <2>2, <3>2, PairOfCall DEF LinkSetNsFd, Replace, Pair
    <3>3. CASE HostSetup(c)
      <4>1. v.ns = PairOf(c).ns /\ v.dev = PairOf(c).dev /\ PairOf(c) \in pairs /\ PairOf(c).owner = c
        BY <2>2, <3>3, PairOfCall DEF HostSetup, Replace, Pair
      <4> QED BY Zenon, <1>2, <4>1 DEF Swept
    <3>4. CASE ContainerSetup(c)
      <4>0. PairOf(c) \in Pair /\ PairOf(c) \in pairs /\ Mine(PairOf(c), c)
        BY <3>4, PairOfCall DEF ContainerSetup, Mine
      <4>1. v.ns = PairOf(c).ns
        <5>1. \/ \E f : v = RouteAddAll([RenameLink(PairOf(c)) EXCEPT !.container = f])
              \/ \E f : v = [RenameLink(PairOf(c)) EXCEPT !.container = f]
          BY Zenon, <2>2, <3>4 DEF ContainerSetup, Replace
        <5> QED BY <4>0, <5>1 DEF RenameLink, RouteAddAll, Pair
      <4> QED BY Zenon, <3>4, <4>0, <4>1 DEF WiredAt, ContainerSetup
    <3> QED BY Zenon, <2>2, <3>1, <3>2, <3>3, <3>4
               DEF cmdAdd, DelegateAdd, Create, StoreAdd, Stored, Kill, kernel
  <2> QED BY <2>1, <2>2
<1> QED BY Zenon, <1>1, <1>2 DEF Swept, Over, IfName, generate

LEMMA DelSwept ==
  ASSUME CNIInv, NEW c \in Container, Places(c), Swept(c),
         \/ cmdDel(c) \/ DelegateDel(c) \/ GetNS(c) \/ Teardown(c) \/ StoreDelete(c)
         \/ Deleted(c) \/ RemoveNS(c)
  PROVE  Swept(c)'
<1>1. pairs' \subseteq pairs /\ (cmdDel(c) \/ failing \subseteq failing')
  BY Zenon
     DEF cmdDel, DelegateDel, GetNS, Teardown, DeleteLinkByName, StoreDelete, Deleted, RemoveNS,
         Proceed, Fail, Fine, Fault, faults, kernel
<1>2. \A v \in pairs' : v.owner = c /\ v.dev = IfName => v.ns = c
  BY Zenon, <1>1 DEF Swept
<1>3. CASE cmdDel(c)
  <2>1. pc'[c] = "del ipam"
    BY <1>3 DEF cmdDel, Goto, CNIInv, TypeOK
  <2> QED BY Zenon, <1>2, <2>1 DEF Swept, Over, IfName, generate
<1>4. ASSUME ~ cmdDel(c), c \notin failing' PROVE
        /\ pc'[c] \in {"del ns", "del link", "del store", "deleted"} \/ Over(c)' =>
             \A a \in Address : ipam'[a] # c
        /\ pc'[c] \in {"del store", "deleted"} \/ Over(c)' =>
             \A v \in pairs' : v.owner = c => v.dev # IfName
  <2>0. c \notin failing
    BY Zenon, <1>1, <1>4
  <2>1. CASE DelegateDel(c)
    BY Zenon, <1>4, <2>1, Released DEF DelegateDel, Goto, Over, CNIInv, TypeOK
  <2>2. CASE GetNS(c)
    <3>1. /\ \A a \in Address : ipam'[a] # c
          /\ pc'[c] = "del link" \/ (pc'[c] = "idle" /\ c \notin netns)
          /\ UNCHANGED pairs
      BY Zenon, <1>4, <2>0, <2>2
         DEF GetNS, Swept, Proceed, Finish, Goto, Fault, kernel, CNIInv, TypeOK
    <3> QED BY Zenon, <3>1 DEF Places, Swept, Over
  <2>3. CASE Teardown(c)
    <3>1. /\ \A a \in Address : ipam'[a] # c
          /\ pairs' = DeleteLinkByName(c)
      BY Zenon, <1>4, <2>0, <2>3 DEF Teardown, Swept, Fail, Fault
    <3> QED BY Zenon, <1>1, <3>1 DEF Swept, DeleteLinkByName
  <2>4. CASE StoreDelete(c) \/ Deleted(c)
    BY Zenon, <2>0, <2>4 DEF StoreDelete, Deleted, Swept, kernel
  <2>5. CASE RemoveNS(c)
    BY Zenon, <1>1, <2>0, <2>5 DEF RemoveNS, Swept, Over
  <2> QED BY <1>4, <2>1, <2>2, <2>3, <2>4, <2>5
<1> QED BY Zenon, <1>2, <1>3, <1>4 DEF Swept, IfName, generate

LEMMA UnchangedSwept ==
  ASSUME SweptInv, UNCHANGED cni, failing \subseteq failing'
  PROVE  SweptInv'
BY Zenon DEF SweptInv, Swept, Over, cni, IfName, generate

LEMMA NextSwept ==
  ASSUME CNIInv, WiredInv, CleanInv, SweptInv, Next
  PROVE  SweptInv'
<1>1. CASE \E p \in Proc : InStore(p)
  BY <1>1, UnchangedSwept, FailingStays DEF InStore
<1>2. CASE DaemonReads
  BY <1>2, UnchangedSwept DEF DaemonReads, Fine, faults
<1>3. CASE \E c \in Container : \/ cmdAdd(c) \/ cmdDel(c) \/ (Run(c) /\ ~ InStore(c))
                                \/ Kill(c) \/ RemoveNS(c)
  <2>1. PICK c \in Container : \/ cmdAdd(c) \/ cmdDel(c) \/ (Run(c) /\ ~ InStore(c))
                               \/ Kill(c) \/ RemoveNS(c)
    BY <1>3
  <2>2. Swept(c)'
    BY <2>1, AddSwept, DelSwept DEF Run, WiredInv, CleanInv, SweptInv
  <2>3. ASSUME NEW d \in Container, d # c PROVE Swept(d)'
    <3>1. Undisturbed(d)
      BY <2>1, <2>3, SamePairs, OtherPairs DEF Run
    <3>2. d \in failing => d \in failing'
      BY Zenon, <2>1, <2>3, FailingStays
    <3> QED BY Zenon, <2>3, <3>1, <3>2, UndisturbedSwept DEF SweptInv
  <2> QED BY <2>2, <2>3 DEF SweptInv
<1> QED BY <1>1, <1>2, <1>3, ContainersAreProcs DEF Next

-------------------------------------------------------------------------------
(* DeletedIsGone, in the datastore: the entry is gone from the truncation   *)
(* on, and a Delete that fails without a failing call found a torn file.    *)

Gone(c) == lost \/ content[c] = None

GoneAt(c) ==
  /\ pc[c] = "deleted" => call[c] = [op |-> "delete", handle |-> c, ip |-> None]
  /\ pc[c] = "deleted" /\ step[c] \in {"encode", "done"} => Gone(c)
  /\ pc[c] = "deleted" /\ step[c] = "failed" /\ c \notin failing => lost
  /\ pc[c] = "idle" /\ outcome[c] = "deleted" /\ c \notin failing => Gone(c) \/ c \notin netns

GoneInv == \A c \in Container : GoneAt(c)

LEMMA UndisturbedGone ==
  ASSUME NEW d \in Container, GoneAt(d), Undisturbed(d), d \in failing => d \in failing',
         step'[d] = step[d], call'[d] = call[d], Gone(d) => Gone(d)', lost => lost'
  PROVE  GoneAt(d)'
BY DEF GoneAt, Undisturbed

LEMMA AccessGone ==
  ASSUME IInv, CNIInv, StoredInv, GoneInv, NEW p \in Proc, InStore(p), failing \subseteq failing'
  PROVE  GoneInv'
<1>1. /\ call' = call /\ (lost => lost') /\ UNCHANGED cni
      /\ \A q \in Proc : q # p => step'[q] = step[q]
  BY AccessCalls DEF InStore, StoredInv
<1>2. ASSUME NEW c \in Container, c # p PROVE GoneAt(c)'
  <2>1. Gone(c) => Gone(c)'
    <3>1. CASE step[p] = "truncate" /\ content' = [content EXCEPT ![call[p].handle] = call[p].ip]
      <4>1. call[p].op # "read" /\ content \in Contents
        BY <3>1 DEF IInv, LockInv, PoolInv, Locked, content, StoreTypeOK
      <4>2. call[p].handle = p
        BY Zenon, <4>1, CNIAssumption DEF StoredInv, CallsFit
      <4> QED BY <1>1, <1>2, <3>1, <4>1, <4>2, ContainersAreProcs DEF Contents, Gone
    <3>2. CASE content' = content \/ lost'
      BY <1>1, <3>2 DEF Gone
    <3> QED BY <3>1, <3>2, AccessContent DEF InStore
  <2>2. Undisturbed(c)
    BY Zenon, <1>1 DEF Undisturbed, cni
  <2> QED BY <1>1, <1>2, <2>1, <2>2, UndisturbedGone, ContainersAreProcs DEF GoneInv
<1>3. ASSUME p \in Container PROVE GoneAt(p)'
  <2>1. pc[p] \in {"stored", "deleted"} /\ pc'[p] = pc[p]
    BY Zenon, <1>1, <1>3
       DEF InStore, Access, Open, Decode, Truncate, Encode, StoredInv, CallsFit, cni
  <2>2. CASE pc[p] = "stored"
    BY <2>1, <2>2 DEF GoneAt
  <2>3. CASE pc[p] = "deleted"
    <3>0. call[p] = [op |-> "delete", handle |-> p, ip |-> None]
      BY <1>3, <2>3 DEF GoneInv, GoneAt
    <3>1. ASSUME step'[p] \in {"encode", "done"} PROVE Gone(p)'
      <4>1. CASE lost'
        BY <4>1 DEF Gone
      <4>2. CASE step[p] = "truncate" /\ content' = [content EXCEPT ![call[p].handle] = call[p].ip]
        <5>1. content \in Contents
          BY <4>2 DEF IInv, LockInv, PoolInv, Locked, content, StoreTypeOK
        <5> QED BY <1>3, <3>0, <4>2, <5>1, ContainersAreProcs DEF Contents, Gone
      <4>3. CASE content' = content /\ lost' = lost
                 /\ (step'[p] \in {"encode", "done"} => step[p] \in {"decode", "encode"})
        <5>1. step[p] = "encode"
          BY <3>0, <3>1, <4>3
             DEF InStore, Access, Open, Decode, Truncate, Encode, Ends, IInv, StoreTypeOK
        <5> QED BY Zenon, <1>3, <2>3, <4>3, <5>1 DEF GoneInv, GoneAt, Gone
      <4> QED BY <4>1, <4>2, <4>3, AccessContent DEF InStore
    <3>2. ASSUME step'[p] = "failed", p \notin failing' PROVE lost'
      <4>1. file = Torn
        BY <3>2
           DEF InStore, Access, Open, Decode, Truncate, Encode, Ends, Fault, IInv, StoreTypeOK
      <4> QED BY Zenon, <1>1, <4>1 DEF StoredInv, CallsFit
    <3> QED BY <1>1, <2>1, <2>3, <3>0, <3>1, <3>2 DEF GoneAt
  <2> QED BY <2>1, <2>2, <2>3
<1> QED BY <1>2, <1>3 DEF GoneInv

(* The other steps do not touch an entry but by losing a write. *)
LEMMA StepContent ==
  ASSUME IInv, CNIInv, NEW c \in Container,
         cmdAdd(c) \/ cmdDel(c) \/ (Run(c) /\ ~ InStore(c)) \/ Kill(c) \/ RemoveNS(c)
  PROVE  /\ content' = content \/ lost'
         /\ lost => lost'
         /\ \A d \in Container : d # c => step'[d] = step[d] /\ call'[d] = call[d]
<1>0. c \in Proc /\ Container \subseteq Proc
  BY ContainersAreProcs
<1>1. CASE UNCHANGED store
  BY Zenon, <1>1 DEF store, content
<1>2. CASE StoreAdd(c) \/ StoreDelete(c)
  <2>1. PICK k \in Calls : Call(c, k)
    <3>1. CASE StoreAdd(c)
      BY <3>1, ContainersAreProcs DEF StoreAdd, Add, Calls, CNIInv, TypeOK
    <3>2. CASE StoreDelete(c)
      BY Zenon, <3>2, ContainersAreProcs DEF StoreDelete, Delete, Calls
    <3> QED BY <1>2, <3>1, <3>2
  <2>2. UNCHANGED <<content, lost>>
    BY <1>0, <2>1, PromiseCall DEF pvars
  <2> QED BY <1>0, <2>1, <2>2 DEF Call, IInv, StoreTypeOK
<1>3. CASE Stored(c) \/ Deleted(c)
  <2>1. Return(c)
    BY Zenon, <1>3 DEF Stored, Deleted
  <2>2. UNCHANGED <<content, lost>>
    BY <1>0, <2>1, PromiseReturn DEF Promise!Forget, Return
  <2> QED BY <1>0, <2>1, <2>2 DEF Return, Forgotten, IInv, StoreTypeOK
<1>4. CASE Kill(c)
  <2>1. Die(c)
    BY <1>4 DEF Kill
  <2>2. content' = content \/ lost'
    <3>1. CASE step[c] = "encode"
      BY Zenon, <2>1, <3>1 DEF Die
    <3>2. CASE step[c] # "encode"
      BY <1>0, <2>1, <3>2, DatastoreAssumption
         DEF Die, Forgotten, content, IInv, StoreTypeOK, LockInv, Locked
    <3> QED BY <3>1, <3>2
  <2> QED BY <1>0, <2>1, <2>2 DEF Die, Forgotten, IInv, StoreTypeOK
<1>5. CASE \/ cmdAdd(c) \/ DelegateAdd(c) \/ Create(c) \/ LinkAdd(c) \/ LinkSetNsFd(c)
           \/ HostSetup(c) \/ ContainerSetup(c) \/ cmdDel(c) \/ DelegateDel(c) \/ GetNS(c)
           \/ Teardown(c) \/ RemoveNS(c)
  BY Zenon, <1>1, <1>5
     DEF cmdAdd, DelegateAdd, Create, LinkAdd, LinkSetNsFd, HostSetup, ContainerSetup,
                    cmdDel, DelegateDel, GetNS, Teardown, RemoveNS
<1> QED BY Zenon, <1>2, <1>3, <1>4, <1>5 DEF Run

(* A call that is not in its DEL's Delete, nor ended one, has nothing to show. *)
LEMMA NothingGone ==
  ASSUME NEW c \in Container, pc'[c] # "deleted",
         pc'[c] = "idle" => outcome'[c] # "deleted" \/ c \in failing' \/ c \notin netns'
  PROVE  GoneAt(c)'
BY Zenon DEF GoneAt

LEMMA OwnGone ==
  ASSUME IInv, CNIInv, StoredInv, NEW c \in Container, GoneAt(c),
         cmdAdd(c) \/ cmdDel(c) \/ (Run(c) /\ ~ InStore(c)) \/ Kill(c) \/ RemoveNS(c)
  PROVE  GoneAt(c)'
<1>1. CASE \/ cmdAdd(c) \/ DelegateAdd(c) \/ Create(c) \/ LinkAdd(c) \/ LinkSetNsFd(c)
           \/ HostSetup(c) \/ ContainerSetup(c) \/ StoreAdd(c) \/ Stored(c) \/ Kill(c)
  <2>1. \/ pc'[c] \in {"ipam", "config", "link", "move", "host", "container", "store", "stored"}
        \/ pc'[c] = "idle" /\ outcome'[c] # "deleted"
    BY Zenon, <1>1
       DEF cmdAdd, getNetworkInfo, DelegateAdd, Create, LinkAdd, LinkSetNsFd, HostSetup,
                ContainerSetup, StoreAdd, Stored, Kill, Proceed, Fail, Finish, Goto, CNIInv, TypeOK
  <2> QED BY Zenon, <2>1, NothingGone
<1>2. CASE cmdDel(c) \/ DelegateDel(c) \/ GetNS(c) \/ Teardown(c)
  <2>1. \/ pc'[c] \in {"del ipam", "del ns", "del link", "del store"}
        \/ pc'[c] = "idle" /\ (outcome'[c] # "deleted" \/ c \in failing' \/ c \notin netns')
    BY Zenon, <1>2
       DEF cmdDel, DelegateDel, GetNS, Teardown, Proceed, Fail, Finish, Goto, Fault, kernel,
                CNIInv, TypeOK
  <2> QED BY Zenon, <2>1, NothingGone
<1>3. CASE StoreDelete(c)
  <2>1. /\ pc'[c] = "deleted" /\ step'[c] = "open"
        /\ call'[c] = [op |-> "delete", handle |-> c, ip |-> None]
    BY Zenon, <1>3, ContainersAreProcs
       DEF StoreDelete, Delete, Call, Proceed, Goto, CNIInv, TypeOK, IInv, StoreTypeOK
  <2> QED BY Zenon, <2>1 DEF GoneAt
<1>4. CASE Deleted(c)
  <2>1. pc[c] = "deleted" /\ step[c] \in {"done", "failed"} /\ pc'[c] = "idle"
    BY Zenon, <1>4 DEF Deleted, Return, Finish, CNIInv, TypeOK
  <2>2. c \notin failing' => Gone(c)
    <3>1. c \notin failing' => c \notin failing
      BY Zenon, <1>4 DEF Deleted, Fine, faults
    <3> QED BY Zenon, <2>1, <3>1 DEF GoneAt, Gone
  <2>3. Gone(c) => Gone(c)'
    BY Zenon, <1>4, StepContent
       DEF Run, Gone, Deleted, InStore, Access, Open, Decode, Truncate, Encode,
                             Return
  <2> QED BY Zenon, <2>1, <2>2, <2>3 DEF GoneAt
<1>5. CASE RemoveNS(c)
  <2>1. pc'[c] # "deleted" /\ c \notin netns'
    BY Zenon, <1>5 DEF RemoveNS
  <2> QED BY Zenon, <2>1, NothingGone
<1> QED BY <1>1, <1>2, <1>3, <1>4, <1>5 DEF Run

LEMMA UnchangedGone ==
  ASSUME GoneInv, UNCHANGED <<cni, content, lost, failing>>,
         \A c \in Container : step'[c] = step[c] /\ call'[c] = call[c]
  PROVE  GoneInv'
BY Zenon DEF GoneInv, GoneAt, Gone, cni

LEMMA NextGone ==
  ASSUME IInv, CNIInv, StoredInv, GoneInv, Next
  PROVE  GoneInv'
<1>1. CASE \E p \in Proc : InStore(p)
  BY <1>1, AccessGone, FailingStays DEF InStore
<1>2. CASE DaemonReads
  <2>0. Daemon \in Proc /\ Daemon \notin Container /\ UNCHANGED <<cni, failing>>
    BY <1>2, CNIAssumption DEF DaemonReads, Fine, faults
  <2>1. UNCHANGED <<content, lost>>
    BY <1>2, <2>0, PromiseCall, PromiseReturn, NoCallCalls
       DEF DaemonReads, ReadAll, Call, Return, pvars, Promise!Forget
  <2>2. \A c \in Container : step'[c] = step[c] /\ call'[c] = call[c]
    BY <1>2, <2>0, CNIAssumption
       DEF DaemonReads, ReadAll, Call, Return, Forgotten, IInv, StoreTypeOK
  <2> QED BY <2>0, <2>1, <2>2, UnchangedGone
<1>3. CASE \E c \in Container : \/ cmdAdd(c) \/ cmdDel(c) \/ (Run(c) /\ ~ InStore(c))
                                \/ Kill(c) \/ RemoveNS(c)
  <2>1. PICK c \in Container : \/ cmdAdd(c) \/ cmdDel(c) \/ (Run(c) /\ ~ InStore(c))
                               \/ Kill(c) \/ RemoveNS(c)
    BY <1>3
  <2>2. GoneAt(c)'
    BY <2>1, OwnGone DEF GoneInv
  <2>3. ASSUME NEW d \in Container, d # c PROVE GoneAt(d)'
    <3>1. Undisturbed(d)
      BY <2>1, <2>3, SamePairs, OtherPairs DEF Run
    <3>2. step'[d] = step[d] /\ call'[d] = call[d] /\ (Gone(d) => Gone(d)') /\ (lost => lost')
      BY Zenon, <2>1, <2>3, StepContent DEF Gone
    <3>3. d \in failing => d \in failing'
      BY Zenon, <2>1, <2>3, FailingStays
    <3> QED BY Zenon, <3>1, <3>2, <3>3, UndisturbedGone DEF GoneInv
  <2> QED BY <2>2, <2>3 DEF GoneInv
<1> QED BY <1>1, <1>2, <1>3, ContainersAreProcs DEF Next

(* A DEL none of whose own calls failed, whatever befell the container      *)
(* before, leaves no reservation of its container, no device with the name  *)
(* asked for, no pair at all unless an earlier call for the container       *)
(* failed, and no entry in the datastore unless the namespace was gone.     *)
THEOREM DeletedContainersGone == Spec => []DeletedIsGone
<1>1. Init => GoneInv /\ SweptInv
  BY DEF Init, GoneInv, GoneAt, SweptInv, Swept, Over
<1>2. ASSUME IInv /\ CNIInv, StoredInv, GoneInv, [Next]_vars PROVE GoneInv'
  <2>1. CASE UNCHANGED vars
    <3>1. UNCHANGED <<cni, content, lost, failing, step, call>>
      BY <2>1 DEF vars, store, faults, content
    <3> QED BY <1>2, <3>1, UnchangedGone
  <2> QED BY <1>2, <2>1, NextGone
<1>3. ASSUME CNIInv, WiredInv, CleanInv, SweptInv, [Next]_vars PROVE SweptInv'
  <2>1. CASE UNCHANGED vars
    BY <1>3, <2>1, UnchangedSwept DEF vars, faults
  <2> QED BY <1>3, <2>1, NextSwept
<1>4. CleanInv /\ SweptInv /\ GoneInv => DeletedIsGone
  BY Zenon DEF CleanInv, Neat, Bare, Fresh, SweptInv, Swept, Over, GoneInv, GoneAt, Gone,
               DeletedIsGone
<1> QED BY CNIInvariance, StoredInvariance, CleanInvariance, <1>1, <1>2, <1>3, <1>4, PTL DEF Spec
=====================================================================================
