----------------------------------- MODULE CNI -----------------------------------
(***************************************************************************)
(* silk-cni on one host: ADD and DEL of several containers at once, over    *)
(* host-local's addresses, the kernel's veth pairs and namespaces, and the  *)
(* datastore, which the daemon reads meanwhile.  Each call is a process of  *)
(* its own; the runtime makes one call at a time for a container.  A call   *)
(* may fail at any step, or be killed, and cleans nothing up.               *)
(*                                                                         *)
(* Definitions that spell out a mistake in their name are variants of those *)
(* that follow them, used only to show that the properties notice.          *)
(***************************************************************************)
EXTENDS Datastore

CONSTANTS
  Container,      \* also its handle, the base name of its namespace's path
  Daemon,         \* the silk-daemon, as a reader of the datastore
  Host,           \* the host's namespace
  HostAddress,    \* 169.254.0.1
  Other,          \* a hardware address nobody asked for
  MaxCalls        \* bounds on the calls for each container

ASSUME CNIAssumption ==
  /\ Proc = Container \cup {Daemon} /\ Daemon \notin Container
  /\ Handle = Container /\ Host \notin Container
  /\ HostAddress \notin Address /\ None \notin Container

VARIABLES
  netns,          \* containers whose namespace exists
  ipam,           \* host-local: the container an address is reserved for
  pairs,          \* veth pairs
  pc,
  ip,             \* the address in cfg of the last ADD; a DEL knows none
  outcome,        \* what the last call for a container returned
  calls

kernel == <<netns, pairs>>
cni    == <<netns, ipam, pairs, pc, ip, outcome, calls>>
vars   == <<cni, store, faults>>

-------------------------------------------------------------------------------
(* Device names are written from the address in digits of fixed width, and  *)
(* hardware addresses end in its four bytes: both tell addresses apart.     *)
generate(prefix, a) == <<prefix, a>>

GenerateForHost(a)               == generate("s", a)
GenerateTemporaryForContainer(a) == generate("c", a)
IfName                           == generate("eth0", None)

HardwareForContainer(a) == <<"ee", a>>
HardwareForHost(a)      == <<"aa", a>>

(* cfg.Container.Address and cfg.Host.Address *)
ContainerEnd(c) == [hw |-> HardwareForContainer(ip[c]), ip |-> ip[c]]
HostEnd(c)      == [hw |-> HardwareForHost(ip[c]), ip |-> HostAddress]

(* One end of a pair: its hardware address, its neighbour entry, its        *)
(* address and whether it is up.                                            *)
NewEnd(hw, up) == [mac |-> hw, neigh |-> None, addr |-> None, up |-> up]

PairOf(c)    == CHOOSE v \in pairs : v.owner = c /\ v.name = GenerateForHost(ip[c])
Replace(v, w) == pairs' = (pairs \ {v}) \cup {w}

Goto(c, label) == pc' = [pc EXCEPT ![c] = label]

Finish(c, result) ==
  /\ pc' = [pc EXCEPT ![c] = "idle"]
  /\ outcome' = [outcome EXCEPT ![c] = result]

Proceed(c, label) == Goto(c, label) /\ Fine /\ UNCHANGED outcome
Fail(c)           == Finish(c, "failed") /\ Fault(c)

(* The operations on an end of a pair, on the pair, and on all pairs. *)
LinkSetHardwareAddr(e, local)    == [e EXCEPT !.mac = local.hw]
StaticNeighborNoARP(e, peer)     == [e EXCEPT !.neigh = peer]
SetPointToPointAddress(e, local) == [e EXCEPT !.addr = local.ip]
LinkSetUp(e)                     == [e EXCEPT !.up = TRUE]

RenameLink(v)  == [v EXCEPT !.dev = IfName]
RouteAddAll(v) == [v EXCEPT !.routed = TRUE]

DeleteLinkByName(ns) == {v \in pairs : ~ (v.ns = ns /\ v.dev = IfName)}

(* BasicSetup, for the end e of a pair: what it makes of e, and what it may *)
(* leave of it when a call fails.  A hardware address other than the one    *)
(* asked for is set again, at most MAX_ATTEMPTS times, before all else; an  *)
(* error of DisableIPv6 is passed over.                                     *)
BasicSetup(e, local, peer) ==
  LET addressed == LinkSetHardwareAddr(e, local)
      neighbour == StaticNeighborNoARP(addressed, peer)
  IN  LinkSetUp(SetPointToPointAddress(neighbour, local))

BasicSetupFailed(e, local, peer) ==
  LET addressed == LinkSetHardwareAddr(e, local)
      neighbour == StaticNeighborNoARP(addressed, peer)
  IN  {e, addressed, neighbour, SetPointToPointAddress(neighbour, local)}

-------------------------------------------------------------------------------
(* The daemon or the subnet file must tell the subnet. *)
getNetworkInfo(c) ==
  (Goto(c, "ipam") /\ Afresh(c) /\ UNCHANGED outcome) \/ Fail(c)

(* ADD, for a container that has none. *)
cmdAdd(c) ==
  /\ pc[c] = "idle" /\ outcome[c] \in {"none", "deleted"}
  /\ c \in netns /\ calls[c] < MaxCalls[c]
  /\ calls' = [calls EXCEPT ![c] = @ + 1]
  /\ getNetworkInfo(c)
  /\ UNCHANGED <<netns, ipam, pairs, ip, store>>

DelegateAddIgnoringError(c) ==
  /\ pc[c] = "ipam"
  /\ \/ \E a \in Address : ipam[a] = None /\ ipam' = [ipam EXCEPT ![a] = c]
                            /\ ip' = [ip EXCEPT ![c] = a]
     \/ UNCHANGED <<ipam, ip>>
  /\ Proceed(c, "config")
  /\ UNCHANGED <<kernel, calls, store>>

(* host-local reserves an address of the subnet, one for each container. *)
DelegateAdd(c) ==
  /\ pc[c] = "ipam"
  /\ \/ /\ \A a \in Address : ipam[a] # c
        /\ \E a \in Address :
             /\ ipam[a] = None
             /\ ipam' = [ipam EXCEPT ![a] = c] /\ ip' = [ip EXCEPT ![c] = a]
        /\ Proceed(c, "config")
     \/ /\ \/ \E a \in Address : ipam[a] = c
           \/ \A a \in Address : ipam[a] # None
        /\ Finish(c, "failed") /\ Fine /\ UNCHANGED <<ipam, ip>>
     \/ Fail(c) /\ UNCHANGED <<ipam, ip>>
  /\ UNCHANGED <<kernel, calls, store>>

(* ConfigCreator.Create opens the namespace. *)
Create(c) ==
  /\ pc[c] = "config"
  /\ \/ c \in netns /\ Proceed(c, "link")
     \/ IF c \in netns THEN Fail(c) ELSE Finish(c, "failed") /\ Fine
  /\ UNCHANGED <<kernel, ipam, ip, calls, store>>

NameTakenIgnoringHost(c) ==
  \E v \in pairs : v.ns = Host /\ v.dev = GenerateTemporaryForContainer(ip[c])

NameTaken(c) ==
  \E v \in pairs :
     \/ v.name = GenerateForHost(ip[c])
     \/ v.ns = Host /\ v.dev = GenerateTemporaryForContainer(ip[c])

(* VethPairCreator.Create: the pair is made on the host, with hardware      *)
(* addresses that may not be the ones asked for, unless a name is taken.    *)
LinkAdd(c) ==
  /\ pc[c] = "link"
  /\ \/ /\ ~ NameTaken(c)
        /\ \E h \in {HostEnd(c).hw, Other}, d \in {ContainerEnd(c).hw, Other} :
             pairs' = pairs \cup {[owner |-> c, name |-> GenerateForHost(ip[c]),
                                   ns |-> Host,
                                   dev |-> GenerateTemporaryForContainer(ip[c]),
                                   host |-> NewEnd(h, TRUE), container |-> NewEnd(d, FALSE),
                                   routed |-> FALSE]}
        /\ Proceed(c, "move")
     \/ /\ IF NameTaken(c) THEN Finish(c, "failed") /\ Fine ELSE Fail(c)
        /\ UNCHANGED pairs
  /\ UNCHANGED <<netns, ipam, ip, calls, store>>

LinkSetNsFd(c) ==
  /\ pc[c] = "move"
  /\ \/ Replace(PairOf(c), [PairOf(c) EXCEPT !.ns = c]) /\ Proceed(c, "host")
     \/ Fail(c) /\ UNCHANGED pairs
  /\ UNCHANGED <<netns, ipam, ip, calls, store>>

HostSetupUnchecked(c) ==
  /\ pc[c] = "host"
  /\ \E e \in {PairOf(c).host, BasicSetup(PairOf(c).host, HostEnd(c), ContainerEnd(c))} :
       Replace(PairOf(c), [PairOf(c) EXCEPT !.host = e])
  /\ Proceed(c, "container")
  /\ UNCHANGED <<netns, ipam, ip, calls, store>>

(* Host.Setup: its end of the pair, then IPv4 forwarding. *)
HostSetup(c) ==
  LET e == PairOf(c).host
      full == BasicSetup(e, HostEnd(c), ContainerEnd(c))
  IN  /\ pc[c] = "host"
      /\ \/ Replace(PairOf(c), [PairOf(c) EXCEPT !.host = full]) /\ Proceed(c, "container")
         \/ \E f \in BasicSetupFailed(e, HostEnd(c), ContainerEnd(c)) \cup {full} :
              Replace(PairOf(c), [PairOf(c) EXCEPT !.host = f]) /\ Fail(c)
      /\ UNCHANGED <<netns, ipam, ip, calls, store>>

(* Container.Setup: the device gets its name, which may be taken, then is   *)
(* set up, then the default route is added.                                 *)
ContainerSetup(c) ==
  LET v       == PairOf(c)
      renamed == RenameLink(v)
      full    == BasicSetup(v.container, ContainerEnd(c), HostEnd(c))
      taken   == \E w \in pairs : w.ns = c /\ w.dev = IfName
  IN  /\ pc[c] = "container"
      /\ \/ /\ ~ taken
            /\ Replace(v, RouteAddAll([renamed EXCEPT !.container = full]))
            /\ Proceed(c, "store")
         \/ /\ UNCHANGED pairs
            /\ IF taken THEN Finish(c, "failed") /\ Fine ELSE Fail(c)
         \/ /\ ~ taken
            /\ \E f \in BasicSetupFailed(v.container, ContainerEnd(c), HostEnd(c)) \cup {full} :
                 Replace(v, [renamed EXCEPT !.container = f])
            /\ Fail(c)
      /\ UNCHANGED <<netns, ipam, ip, calls, store>>

StoreAdd(c) ==
  /\ pc[c] = "store"
  /\ Add(c, c, ip[c])
  /\ Proceed(c, "stored")
  /\ UNCHANGED <<kernel, ipam, ip, calls>>

StoredIgnoringError(c) ==
  /\ pc[c] = "stored" /\ Return(c)
  /\ Finish(c, "added") /\ Fine
  /\ UNCHANGED <<kernel, ipam, ip, calls>>

(* Last, the result is printed. *)
Stored(c) ==
  /\ pc[c] = "stored" /\ Return(c)
  /\ \/ step[c] = "done" /\ Finish(c, "added") /\ Fine
     \/ IF step[c] = "done" THEN Fail(c) ELSE Finish(c, "failed") /\ Fine
  /\ UNCHANGED <<kernel, ipam, ip, calls>>

-------------------------------------------------------------------------------
(* DEL, at any time and any number of times. *)
cmdDel(c) ==
  /\ pc[c] = "idle" /\ calls[c] < MaxCalls[c]
  /\ calls' = [calls EXCEPT ![c] = @ + 1]
  /\ Goto(c, "del ipam") /\ Afresh(c) /\ UNCHANGED outcome
  /\ ip' = [ip EXCEPT ![c] = None]
  /\ UNCHANGED <<kernel, ipam, store>>

(* host-local releases what the container has; an error is passed over. *)
DelegateDel(c) ==
  /\ pc[c] = "del ipam"
  /\ Goto(c, "del ns") /\ UNCHANGED outcome
  /\ \/ ipam' = [a \in Address |-> IF ipam[a] = c THEN None ELSE ipam[a]] /\ Fine
     \/ Fault(c) /\ UNCHANGED ipam
  /\ UNCHANGED <<kernel, ip, calls, store>>

GetNSNever(c) ==
  /\ pc[c] = "del ns"
  /\ Finish(c, "deleted") /\ Fine
  /\ UNCHANGED <<kernel, ipam, ip, calls, store>>

(* Without the namespace the DEL is over, and successful. *)
GetNS(c) ==
  /\ pc[c] = "del ns"
  /\ \/ c \in netns /\ Proceed(c, "del link")
     \/ /\ Finish(c, "deleted")
        /\ IF c \in netns THEN Fault(c) ELSE Fine
  /\ UNCHANGED <<kernel, ipam, ip, calls, store>>

TeardownInHost(c) ==
  /\ pc[c] = "del link"
  /\ pairs' = DeleteLinkByName(Host)
  /\ Proceed(c, "del store")
  /\ UNCHANGED <<netns, ipam, ip, calls, store>>

(* The device in the container goes, if it is there, and its peer with it.  *)
(* Any error of LinkByName passes for a device that is not there: the DEL   *)
(* then goes on past a device that is.  Entering the namespace and LinkDel  *)
(* may fail.                                                                *)
Teardown(c) ==
  /\ pc[c] = "del link"
  /\ \/ pairs' = DeleteLinkByName(c) /\ Proceed(c, "del store")
     \/ Goto(c, "del store") /\ Fault(c) /\ UNCHANGED <<outcome, pairs>>
     \/ Fail(c) /\ UNCHANGED pairs
  /\ UNCHANGED <<netns, ipam, ip, calls, store>>

StoreDelete(c) ==
  /\ pc[c] = "del store"
  /\ Delete(c, c)
  /\ Proceed(c, "deleted")
  /\ UNCHANGED <<kernel, ipam, ip, calls>>

(* An error of the datastore is logged, and the DEL successful. *)
Deleted(c) ==
  /\ pc[c] = "deleted" /\ Return(c)
  /\ Finish(c, "deleted") /\ Fine
  /\ UNCHANGED <<kernel, ipam, ip, calls>>

-------------------------------------------------------------------------------
(* The processes around the calls. *)

InStore(p) == Access(p) /\ UNCHANGED cni

Kill(c) ==
  /\ pc[c] # "idle"
  /\ Die(c) /\ Finish(c, "failed")
  /\ UNCHANGED <<kernel, ipam, ip, calls>>

(* The runtime removes the namespace while no call has it open; the kernel  *)
(* removes the devices in it and their peers.                               *)
RemoveNS(c) ==
  /\ c \in netns /\ pc[c] \in {"idle", "ipam", "config", "del ipam", "del ns"}
  /\ netns' = netns \ {c}
  /\ pairs' = {v \in pairs : v.ns # c}
  /\ UNCHANGED <<ipam, pc, ip, outcome, calls, store, faults>>

DaemonReads == (ReadAll(Daemon) \/ Return(Daemon)) /\ Fine /\ UNCHANGED cni

Init ==
  /\ StoreInit
  /\ netns = Container /\ pairs = {} /\ ipam = [a \in Address |-> None]
  /\ pc = [c \in Container |-> "idle"] /\ ip = [c \in Container |-> None]
  /\ outcome = [c \in Container |-> "none"] /\ calls = [c \in Container |-> 0]

Run(c) ==
  \/ DelegateAdd(c) \/ Create(c) \/ LinkAdd(c) \/ LinkSetNsFd(c) \/ HostSetup(c)
  \/ ContainerSetup(c) \/ StoreAdd(c) \/ Stored(c)
  \/ DelegateDel(c) \/ GetNS(c) \/ Teardown(c) \/ StoreDelete(c) \/ Deleted(c)
  \/ InStore(c)

Next ==
  \/ \E c \in Container : cmdAdd(c) \/ cmdDel(c) \/ Run(c) \/ Kill(c) \/ RemoveNS(c)
  \/ DaemonReads \/ InStore(Daemon)

(* A call goes on until it returns, and so does the daemon's; flock serves  *)
(* its waiters in turn.                                                     *)
Spec == /\ Init /\ [][Next]_vars
        /\ \A c \in Container : WF_vars(Run(c)) /\ SF_vars(Open(c) /\ UNCHANGED cni)
        /\ WF_vars(InStore(Daemon))

-------------------------------------------------------------------------------
Labels == {"idle", "ipam", "config", "link", "move", "host", "container", "store",
           "stored", "del ipam", "del ns", "del link", "del store", "deleted"}

(* Every variable has its type, and a call knows its address and has a pair *)
(* of its own wherever it goes on to use them.                              *)
TypeOK ==
  /\ StoreTypeOK /\ netns \in SUBSET Container
  /\ ipam \in [Address -> Container \cup {None}]
  /\ ip \in [Container -> Address \cup {None}] /\ pc \in [Container -> Labels]
  /\ outcome \in [Container -> {"none", "added", "failed", "deleted"}]
  /\ \A c \in Container :
       /\ pc[c] \in {"config", "link", "store", "stored"} => ip[c] # None
       /\ pc[c] \in {"move", "host", "container"} =>
            \E v \in pairs : v.owner = c /\ v.name = GenerateForHost(ip[c])

(* A container whose ADD succeeded keeps, until its namespace is removed or *)
(* a DEL begins, a device with the name asked for, in its own namespace,    *)
(* whose neighbour entry is the address and hardware address of the host's  *)
(* end and the other way round, both up and routed, with its address still  *)
(* reserved: no error on the way is swallowed, and nobody else's call       *)
(* touches it.                                                              *)
AddedIsWired ==
  \A c \in netns : outcome[c] = "added" /\ pc[c] = "idle" =>
    /\ ipam[ip[c]] = c
    /\ \E v \in pairs :
         /\ v.ns = c /\ v.dev = IfName /\ v.routed
         /\ v.host.up /\ v.container.up /\ v.container.addr = ip[c]
         /\ v.host.neigh = [hw |-> v.container.mac, ip |-> v.container.addr]
         /\ v.container.neigh = [hw |-> v.host.mac, ip |-> v.host.addr]

(* A container whose ADD succeeded is in the datastore with its address,    *)
(* which is what keeps the daemon from replacing the VTEP, unless some      *)
(* process was cut short while it rewrote the file.                         *)
AddedIsStored ==
  \A c \in Container : outcome[c] = "added" /\ pc[c] = "idle" =>
    lost \/ content[c] = ip[c]

(* Addresses on containers' devices are unique, also when host-local has    *)
(* released an address whose device a failed DEL left behind.               *)
UniqueAddresses ==
  \A v, w \in pairs : v.container.addr = w.container.addr =>
    v = w \/ v.container.addr = None

(* A DEL none of whose own calls failed, whatever befell the calls for its  *)
(* container before, leaves no reservation of the container, no device with *)
(* the name asked for, and no pair at all unless one of those calls failed: *)
(* DEL looks for that name in that namespace only, and misses the pair of   *)
(* an ADD that got no further than its temporary name.  It leaves no entry  *)
(* in the datastore either, unless the namespace was gone: then the DEL     *)
(* ends before it gets there.                                               *)
DeletedIsGone ==
  \A c \in Container : outcome[c] = "deleted" /\ pc[c] = "idle" /\ c \notin failing =>
    /\ \A a \in Address : ipam[a] # c
    /\ \A v \in pairs : v.owner = c => v.dev # IfName /\ c \in faulty
    /\ lost \/ content[c] = None \/ c \notin netns

(* An address that host-local would give out can be used: no pair has its   *)
(* names, unless the DEL that released it is still on its way to the device *)
(* or a call of the pair's container failed or was killed.                  *)
FreeAddressIsUsable ==
  \A v \in pairs, a \in Address : v.name = GenerateForHost(a) /\ ipam[a] = None =>
    pc[v.owner] \in {"del ns", "del link"} \/ v.owner \in faulty

(* Every ADD and DEL returns, also when others die holding the lock.        *)
EveryCallReturns == \A c \in Container : pc[c] # "idle" ~> pc[c] = "idle"
==================================================================================
