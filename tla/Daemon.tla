--------------------------------- MODULE Daemon ---------------------------------
(***************************************************************************)
(* One container host: the silk-daemon from start-up (discover, renew or   *)
(* acquire a lease, make the VTEP) through its poll loop to its exit, the  *)
(* restarts that follow, silk-teardown, and the CNI calls that add         *)
(* containers while the daemon serves.  The VTEP, the datastore and the    *)
(* controller's row outlive the process.  The controller is seen from this *)
(* host only: its row in the table, and answers that may come late, come   *)
(* as errors or not at all.                                                *)
(*                                                                         *)
(* ReadStoreIgnoringContainers, DeleteVTEPKeepingLink,                     *)
(* LinkAddAcceptingExisting, AcquiredIgnoringError and IsFatalNever are    *)
(* mistaken variants of the definitions that follow them, used only to     *)
(* show that the properties tell them apart.                               *)
(***************************************************************************)
EXTENDS CIDRPool

CONSTANTS
  Network,                     \* overlay_network
  SubnetPrefixLength,
  SingleIPOnly,
  OldSubnets,                  \* leases outside the pools: of an earlier overlay
                               \* network, or rebuilt from a single address
  Container,
  None,
  LeaseExpirationSeconds,      \* of the controller
  PollInterval,
  PartitionToleranceSeconds,
  ClientTimeoutSeconds,
  MaxTime,                     \* bound on the clock
  MaxCrashes,                  \* crashes, stops and teardowns
  MaxFailures                  \* failing calls: controller, netlink, datastore

DaemonConstants ==
  /\ Network \in CIDR /\ SubnetPrefixLength \in (Network.len + 1)..AddrBits
  /\ OldSubnets \subseteq CIDR /\ SingleIPOnly \in BOOLEAN
  /\ MaxTime \in Nat /\ MaxCrashes \in Nat /\ MaxFailures \in Nat
  /\ PollInterval \in Nat \ {0} /\ ClientTimeoutSeconds \in Nat \ {0}
  /\ LeaseExpirationSeconds \in Nat /\ PartitionToleranceSeconds \in Nat
  /\ None \notin Address /\ None \notin CIDR /\ None \notin [ip : Address \cup {None}]
  /\ None \notin {"sent", "ok", "refused", "error"}

(* The lease outlives the time a cut-off daemon goes on serving: the        *)
(* tolerance, one more poll, and the two calls whose answers may be late.   *)
LeaseOutlivesServing ==
  /\ PartitionToleranceSeconds > ClientTimeoutSeconds
  /\ LeaseExpirationSeconds
       >= PartitionToleranceSeconds + PollInterval + 2 * ClientTimeoutSeconds

ASSUME DaemonAssumption == DaemonConstants
ASSUME TimingAssumption == LeaseOutlivesServing

blockPool  == generateBlockPool(Network.ip, Network.len, SubnetPrefixLength)
singlePool == generateSingleIPPool(Network.ip, SubnetPrefixLength)

VARIABLES
  vtep,           \* None, or the link with its address (None: no address yet)
  madeFor,        \* the lease the link was made for
  containers,     \* the datastore
  adding,         \* CNI ADDs that know the subnet but have not stored the container
  late,           \* ADDs that were under way when the daemon last started
  row,            \* the controller's lease for this host
  renewedAt,      \* its last_renewed_at
  pc,
  lease,          \* the daemon's variable lease
  afterwards,     \* where start-up goes on once a new VTEP is made
  call,           \* the request to the controller under way, or its answer
  offer,          \* the lease in the answer to an acquire
  timer,          \* its deadline, or the end of the sleep
  lastSuccess,    \* lastSuccessTime of the graceful detector
  renewed,        \* this process has renewed at least once while serving
  served,         \* what the health check answers
  tearing,        \* silk-teardown has released and not yet deleted
  now, crashes, failures

host     == <<vtep, madeFor>>
cni      == <<containers, adding, late>>
table    == <<row, renewedAt>>
process  == <<pc, lease, afterwards, call, offer, timer, lastSuccess, renewed, served>>
vars     == <<host, cni, table, process, tearing, now, crashes, failures>>

waiting == {"acquire", "renew", "poll", "list"}

-------------------------------------------------------------------------------
(* The process: it goes on, calls the controller, or exits. *)

Goto(label) ==
  /\ pc' = label
  /\ call' = None /\ offer' = None /\ timer' = now

Call(label) ==
  /\ pc' = label
  /\ call' = "sent" /\ offer' = None /\ timer' = now + ClientTimeoutSeconds

Exit ==
  /\ Goto("down")
  /\ lease' = None /\ afterwards' = None /\ served' = None
  /\ lastSuccess' = 0 /\ renewed' = FALSE

Fault == failures < MaxFailures /\ failures' = failures + 1
Fine  == UNCHANGED failures

leaseFromVTEPStateOneAddress == [ip |-> vtep.ip, len |-> AddrBits]

(* leaseFromVTEPState: the address of the VTEP with the configured prefix *)
(* length, whatever the length of the lease it was made for.  Its network *)
(* is in the overlay network exactly when its address is.                 *)
leaseFromVTEPState == [ip |-> vtep.ip, len |-> SubnetPrefixLength]

HasAddress == vtep # None /\ vtep.ip # None

Start ==
  /\ pc = "down" /\ ~ tearing
  /\ late' = adding
  /\ \/ /\ HasAddress /\ Fine
        /\ lease' = leaseFromVTEPState
        /\ IF Contains(Network, leaseFromVTEPState.ip)
           THEN Call("renew") /\ afterwards' = None
           ELSE Goto("read store") /\ afterwards' = "renew"
     \/ /\ IF HasAddress THEN Fault ELSE Fine       \* discoverLocalLease fails
        /\ Call("acquire") /\ afterwards' = "info" /\ UNCHANGED lease
  /\ UNCHANGED <<host, containers, adding, table, lastSuccess, renewed, served,
                 tearing, now, crashes>>

(* Before the VTEP is deleted: no container may be using it. *)
ReadStoreIgnoringContainers ==
  /\ pc = "read store"
  /\ Goto("delete vtep") /\ Fine
  /\ UNCHANGED <<host, cni, table, lease, afterwards, lastSuccess, renewed, served,
                 tearing, now, crashes>>

ReadStore ==
  /\ pc = "read store"
  /\ \/ /\ containers = {} /\ Fine
        /\ Goto("delete vtep")
        /\ UNCHANGED <<lease, afterwards, lastSuccess, renewed, served>>
     \/ IF containers # {} THEN Exit /\ Fine ELSE Exit /\ Fault
  /\ UNCHANGED <<host, cni, table, tearing, now, crashes>>

DeleteVTEPKeepingLink ==
  /\ pc = "delete vtep"
  /\ Call("acquire") /\ Fine
  /\ UNCHANGED <<host, cni, table, lease, afterwards, lastSuccess, renewed, served,
                 tearing, now, crashes>>

DeleteVTEP ==
  /\ pc = "delete vtep"
  /\ \/ /\ vtep # None /\ Fine
        /\ vtep' = None /\ madeFor' = None
        /\ Call("acquire")
        /\ UNCHANGED <<lease, afterwards, lastSuccess, renewed, served>>
     \/ (IF vtep = None THEN Fine ELSE Fault) /\ Exit /\ UNCHANGED host
  /\ UNCHANGED <<cni, table, tearing, now, crashes>>

LinkAddAcceptingExisting ==
  /\ pc = "link"
  /\ IF vtep = None THEN vtep' = [ip |-> None] /\ madeFor' = lease /\ Goto("addr")
     ELSE UNCHANGED host /\ Goto("info")
  /\ Fine
  /\ UNCHANGED <<cni, table, lease, afterwards, lastSuccess, renewed, served, tearing, now,
                 crashes>>

(* CreateVTEP: the link first, its address in a second step. *)
LinkAdd ==
  /\ pc = "link"
  /\ \/ /\ vtep = None /\ Fine
        /\ vtep' = [ip |-> None] /\ madeFor' = lease
        /\ Goto("addr")
        /\ UNCHANGED <<lease, afterwards, lastSuccess, renewed, served>>
     \/ (IF vtep # None THEN Fine ELSE Fault) /\ Exit /\ UNCHANGED host
  /\ UNCHANGED <<cni, table, tearing, now, crashes>>

AddrAdd ==
  /\ pc = "addr"
  /\ \/ /\ vtep' = [ip |-> lease.ip] /\ Fine
        /\ IF afterwards = "renew" THEN Call("renew") ELSE Goto("info")
        /\ UNCHANGED <<lease, afterwards, lastSuccess, renewed, served>>
     \/ Fault /\ Exit /\ UNCHANGED vtep
  /\ UNCHANGED <<madeFor, cni, table, tearing, now, crashes>>

(* The health check goes up, then the poller, whose detector starts now. *)
Serve ==
  /\ pc = "info"
  /\ \/ /\ HasAddress /\ Fine
        /\ Call("poll")
        /\ served' = lease /\ lastSuccess' = now /\ renewed' = FALSE
        /\ UNCHANGED <<lease, afterwards>>
     \/ (IF HasAddress THEN Fault ELSE Fine) /\ Exit
  /\ UNCHANGED <<host, cni, table, tearing, now, crashes>>

-------------------------------------------------------------------------------
(* What the controller does with the request under way. *)

(* AcquireSubnetLease: an existing lease of this network is returned as it *)
(* is; any other is replaced by a new one, which a reclaim may take from   *)
(* an expired lease of the earlier network, or none is available.          *)
ServeAcquire ==
  /\ pc = "acquire" /\ call = "sent"
  /\ \/ /\ row # None /\ IsMember(row, blockPool, singlePool) /\ Fine
        /\ call' = "ok" /\ offer' = row
        /\ UNCHANGED table
     \/ /\ row # None => ~ IsMember(row, blockPool, singlePool)
        /\ \/ /\ Fine
              /\ row' \in (IF SingleIPOnly THEN singlePool ELSE blockPool)
                           \cup {s \in OldSubnets : SingleIPOnly = (s.len = AddrBits)}
              /\ renewedAt' = now
              /\ call' = "ok" /\ offer' = row'
           \/ /\ Fault
              /\ call' = "error" /\ offer' = None
              /\ row' = None /\ renewedAt' = 0
  /\ UNCHANGED <<host, cni, pc, lease, afterwards, timer, lastSuccess, renewed, served,
                 tearing, now, crashes>>

(* RenewSubnetLease: the same lease is renewed, a missing one is inserted  *)
(* unless another host has its subnet by now, a different one is refused.  *)
(* An INSERT that fails is a refusal too, whether or not it took effect.   *)
ServeRenew ==
  /\ pc \in {"renew", "poll"} /\ call = "sent"
  /\ \/ /\ row = lease \/ row = None
        /\ row' = lease /\ renewedAt' = now
        /\ call' = "ok" /\ Fine
     \/ row # lease /\ call' = "refused" /\ Fine /\ UNCHANGED table
     \/ /\ row = None /\ call' = "refused" /\ Fault
        /\ UNCHANGED table \/ (row' = lease /\ renewedAt' = now)
  /\ UNCHANGED <<host, cni, pc, lease, offer, afterwards, timer, lastSuccess, renewed, served,
                 tearing, now, crashes>>

ServeList ==
  /\ pc = "list" /\ call = "sent"
  /\ call' = "ok"
  /\ UNCHANGED <<host, cni, table, pc, lease, offer, afterwards, timer, lastSuccess, renewed,
                 served, tearing, now, crashes, failures>>

(* No answer in time, or an error answer, be the request served or not.    *)
Unanswered ==
  /\ pc \in waiting
  /\ call # "error" /\ call' = "error" /\ offer' = None
  /\ Fault
  /\ UNCHANGED <<host, cni, table, pc, lease, afterwards, timer, lastSuccess, renewed,
                 served, tearing, now, crashes>>

(* The lease expired and was given to another host.  That a reclaim may     *)
(* also delete a lease renewed since it was selected is left to             *)
(* LeaseController (ReclaimedWasExpired).                                   *)
Reclaimed ==
  /\ row # None /\ renewedAt + LeaseExpirationSeconds <= now
  /\ row' = None /\ renewedAt' = 0
  /\ UNCHANGED <<host, cni, process, tearing, now, crashes, failures>>

-------------------------------------------------------------------------------
(* The answers. *)

AcquiredIgnoringError ==
  /\ pc = "acquire" /\ call \in {"ok", "error"}
  /\ lease' = offer
  /\ Goto("link")
  /\ UNCHANGED <<host, cni, table, afterwards, lastSuccess, renewed, served, tearing, now,
                 crashes, failures>>

Acquired ==
  /\ pc = "acquire" /\ call \in {"ok", "error"}
  /\ \/ /\ call = "ok"
        /\ lease' = offer
        /\ Goto("link")
        /\ UNCHANGED <<afterwards, lastSuccess, renewed, served>>
     \/ call = "error" /\ Exit
  /\ UNCHANGED <<host, cni, table, tearing, now, crashes, failures>>

Renewed ==
  /\ pc = "renew" /\ call \in {"ok", "refused", "error"}
  /\ IF call = "ok" THEN Goto("info") /\ UNCHANGED afterwards
     ELSE Goto("read store") /\ afterwards' = "info"
  /\ UNCHANGED <<host, cni, table, lease, lastSuccess, renewed, served, tearing, now,
                 crashes, failures>>

(* IsFatal of the graceful detector. *)
IsFatalNever == call = "refused"

IsFatal == call = "refused" \/ now - lastSuccess >= PartitionToleranceSeconds

Sleep == pc' = "sleep" /\ call' = None /\ offer' = None /\ timer' = now + PollInterval

DoCycle ==
  /\ pc = "poll" /\ call \in {"ok", "refused", "error"}
  /\ \/ /\ call = "ok"
        /\ lastSuccess' = now /\ renewed' = TRUE
        /\ Call("list")
        /\ UNCHANGED <<lease, afterwards, served>>
     \/ /\ call # "ok"
        /\ IF IsFatal THEN Exit
           ELSE Sleep /\ UNCHANGED <<lease, afterwards, lastSuccess, renewed, served>>
  /\ UNCHANGED <<host, cni, table, tearing, now, crashes, failures>>

(* The list goes to the converger; neither can end the poll loop. *)
Listed ==
  /\ pc = "list" /\ call \in {"ok", "error"}
  /\ Sleep
  /\ UNCHANGED <<host, cni, table, lease, afterwards, lastSuccess, renewed, served,
                 tearing, now, crashes, failures>>

Wake ==
  /\ pc = "sleep" /\ now = timer
  /\ Call("poll")
  /\ UNCHANGED <<host, cni, table, lease, afterwards, lastSuccess, renewed, served,
                 tearing, now, crashes, failures>>

-------------------------------------------------------------------------------
(* What happens to the host from outside. *)

Crash ==
  /\ pc # "down" /\ crashes < MaxCrashes
  /\ crashes' = crashes + 1
  /\ Exit
  /\ UNCHANGED <<host, cni, table, tearing, now, failures>>

(* silk-teardown, on a host whose daemon is stopped: it goes on to delete  *)
(* the VTEP when the release failed.                                       *)
TeardownRelease ==
  /\ pc = "down" /\ ~ tearing /\ crashes < MaxCrashes
  /\ crashes' = crashes + 1
  /\ tearing' = TRUE
  /\ \/ row' = None /\ renewedAt' = 0 /\ Fine
     \/ UNCHANGED table /\ Fault
  /\ UNCHANGED <<host, cni, process, now>>

TeardownDelete ==
  /\ tearing
  /\ tearing' = FALSE
  /\ \/ vtep' = None /\ madeFor' = None /\ Fine
     \/ UNCHANGED host /\ Fault
  /\ UNCHANGED <<cni, table, process, now, crashes>>

(* The datastore, whose file lock makes each change one step. *)
StoreAdd(c) == containers' = containers \cup {c}
StoreDelete(c) == containers' = containers \ {c}

(* silk-cni asks the daemon for the subnet, sets up the container, which is *)
(* left out here, and stores it.                                           *)
AddBegins(c) ==
  /\ served # None /\ c \notin containers \cup adding
  /\ adding' = adding \cup {c}
  /\ UNCHANGED <<host, containers, late, table, process, tearing, now, crashes, failures>>

AddStores(c) ==
  /\ c \in adding
  /\ adding' = adding \ {c}
  /\ \/ StoreAdd(c) /\ UNCHANGED late
     \/ late' = late \ {c} /\ UNCHANGED containers           \* the ADD fails
  /\ UNCHANGED <<host, table, process, tearing, now, crashes, failures>>

Del(c) ==
  /\ c \in containers
  /\ StoreDelete(c) /\ late' = late \ {c}
  /\ UNCHANGED <<host, adding, table, process, tearing, now, crashes, failures>>

(* A call ends at its deadline and a sleep at its end. *)
Tick ==
  /\ now < MaxTime
  /\ pc \in waiting \cup {"sleep"} => now < timer
  /\ now' = now + 1
  /\ UNCHANGED <<host, cni, table, process, tearing, crashes, failures>>

(* A host with nothing, or one that ran under an earlier overlay network. *)
Init ==
  /\ \/ vtep = None /\ madeFor = None /\ row = None
     \/ \E s \in OldSubnets : vtep = [ip |-> s.ip] /\ madeFor = s /\ row = s
  /\ containers \in SUBSET Container /\ (vtep = None => containers = {})
  /\ adding = {} /\ late = {} /\ renewedAt = 0
  /\ pc = "down" /\ lease = None /\ afterwards = None /\ call = None /\ offer = None /\ timer = 0
  /\ lastSuccess = 0 /\ renewed = FALSE /\ served = None /\ tearing = FALSE
  /\ now = 0 /\ crashes = 0 /\ failures = 0

Daemon == \/ Start \/ ReadStore \/ DeleteVTEP \/ LinkAdd \/ AddrAdd \/ Serve
          \/ Acquired \/ Renewed \/ DoCycle \/ Listed \/ Wake

Controller == ServeAcquire \/ ServeRenew \/ ServeList

Next ==
  \/ Daemon \/ Controller \/ Unanswered \/ Reclaimed
  \/ Crash \/ TeardownRelease \/ TeardownDelete \/ Tick
  \/ \E c \in Container : AddBegins(c) \/ AddStores(c) \/ Del(c)

(* The process runs and is restarted when it exits; the controller serves. *)
Spec == /\ Init /\ [][Next]_vars
        /\ WF_vars(Daemon) /\ WF_vars(Controller) /\ WF_vars(TeardownDelete)

-------------------------------------------------------------------------------
(* The daemon has a lease wherever its start-up or its poll loop uses one,  *)
(* and tells silk-cni no other; everything else has its type.               *)
TypeOK ==
  /\ vtep \in [ip : Address \cup {None}] \cup {None}
  /\ madeFor \in CIDR \cup {None} /\ row \in CIDR \cup {None}
  /\ lease \in CIDR \cup {None} /\ served \in {lease, None}
  /\ pc \notin {"down", "acquire", "read store", "delete vtep"} => lease # None
  /\ containers \in SUBSET Container /\ adding \in SUBSET Container
  /\ late \in SUBSET Container
  /\ pc \in waiting \cup {"down", "read store", "delete vtep", "link", "addr", "info",
                          "sleep"}
  /\ call \in {None, "sent", "ok", "refused", "error"} /\ offer \in CIDR \cup {None}
  /\ afterwards \in {None, "info", "renew"}
  /\ renewedAt \in 0..MaxTime /\ lastSuccess \in 0..MaxTime /\ now \in 0..MaxTime
  /\ timer \in Nat /\ renewed \in BOOLEAN /\ tearing \in BOOLEAN

(* Whenever the health check tells silk-cni a subnet, the VTEP exists and   *)
(* carries the address of that very subnet: no restart, failed renewal or   *)
(* half-made link lets the daemon serve a subnet the host does not route.   *)
ServedMatchesVTEP == served # None => HasAddress /\ vtep.ip = served.ip

(* A daemon that has renewed once while serving serves only a lease that    *)
(* the controller still keeps for this host and has not let expire: cut off *)
(* from the controller, it exits before another host can be given its       *)
(* subnet.                                                                  *)
ServesLiveLease ==
  renewed => row = served /\ renewedAt + LeaseExpirationSeconds > now

(* Start-up deletes the VTEP only when the datastore holds no container,    *)
(* save those whose ADD was already under way when this process started.    *)
OnlyLateAddsLoseNetwork ==
  [][(pc = "delete vtep" /\ vtep # None /\ vtep' = None) => containers \subseteq late]_vars

(* The host is beyond what start-up repairs: its VTEP was left without an   *)
(* address, or there are containers and the lease its VTEP stands for is of *)
(* another network or is not the one the controller has for it.             *)
Wedged ==
  /\ vtep # None
  /\ \/ vtep.ip = None
     \/ /\ containers # {}
        /\ ~ Contains(Network, vtep.ip) \/ row # leaseFromVTEPState

(* Once calls stop failing and nobody stops the daemon, it comes to serve   *)
(* and goes on serving, unless the host stays wedged: containers alone, on  *)
(* a VTEP whose lease the controller has or accepts, never keep it down.    *)
EventuallyServes == <>[](served # None) \/ <>[]Wedged

(* "when containers are running ... exits with status 1": start-up never    *)
(* deletes the VTEP while the datastore holds a container.                  *)
ContainersKeepVTEP ==
  [][(pc = "delete vtep" /\ vtep # None /\ vtep' = None) => containers = {}]_vars

(* "in order to acquire and renew the subnet lease for the host": a daemon  *)
(* that starts on a host whose VTEP and lease are intact has its renewal    *)
(* accepted.                                                                *)
RestartRenewsLease ==
  [][(pc = "renew" /\ call = "sent" /\ call' = "refused") => row # madeFor]_vars
=================================================================================
