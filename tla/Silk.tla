----------------------------------- MODULE Silk -----------------------------------
(***************************************************************************)
(* Two container hosts and the controller's table: each host is a Daemon,   *)
(* without containers, and its row is one of two in a table with UNIQUE     *)
(* subnets.  The hosts compete for the blocks of the pool.  An expired      *)
(* lease is selected by one statement and deleted by another, and a request *)
(* whose client has given up may still be served.  Handlers that interleave *)
(* statement by statement in other ways are LeaseController's.              *)
(*                                                                         *)
(* MayLeaseAny is a mistaken variant of MayLease.                           *)
(***************************************************************************)
EXTENDS CIDRPool

CONSTANTS
  Network, SubnetPrefixLength, None,
  LeaseExpirationSeconds, PollInterval, PartitionToleranceSeconds, ClientTimeoutSeconds,
  MaxTime, MaxCrashes, MaxFailures

(* net.ParseCIDR leaves the overlay network no host bits. *)
ASSUME SilkNetworkAssumption ==
  /\ Network \in CIDR /\ SubnetPrefixLength \in (Network.len + 1)..AddrBits
  /\ \E q \in Address : Network.ip = q * Size(Network.len)
  /\ None \notin Address /\ None \notin CIDR /\ None \notin [ip : Address \cup {None}]
  /\ None \notin {"sent", "ok", "refused", "error"}

(* As for one host: the lease outlives what a cut-off daemon goes on        *)
(* serving.                                                                 *)
ASSUME SilkTimingAssumption ==
  /\ MaxTime \in Nat /\ MaxCrashes \in Nat /\ MaxFailures \in Nat
  /\ PollInterval \in Nat \ {0} /\ ClientTimeoutSeconds \in Nat \ {0}
  /\ LeaseExpirationSeconds \in Nat /\ PartitionToleranceSeconds \in Nat
  /\ PartitionToleranceSeconds > ClientTimeoutSeconds
  /\ LeaseExpirationSeconds
       >= PartitionToleranceSeconds + PollInterval + 2 * ClientTimeoutSeconds

VARIABLES
  row1, renewedAt1, vtep1, madeFor1, pc1, lease1, afterwards1, call1, offer1, timer1,
  lastSuccess1, renewed1, served1, tearing1,
  row2, renewedAt2, vtep2, madeFor2, pc2, lease2, afterwards2, call2, offer2, timer2,
  lastSuccess2, renewed2, served2, tearing2,
  now, crashes, failures,
  selected,     \* the host whose expired lease a reclaim has selected, or None
  stray,        \* requests that may be served though their client gave up
  raced,        \* a reclaim deleted a lease that was renewed after its selection
  lateRelease   \* a release was served after its client had given up

table1 == <<row1, renewedAt1>>
rest1  == <<vtep1, madeFor1, pc1, lease1, afterwards1, offer1, timer1, lastSuccess1,
            renewed1, served1, tearing1>>
host1  == <<table1, rest1, call1>>
table2 == <<row2, renewedAt2>>
rest2  == <<vtep2, madeFor2, pc2, lease2, afterwards2, offer2, timer2, lastSuccess2,
            renewed2, served2, tearing2>>
host2  == <<table2, rest2, call2>>
bounds == <<now, crashes, failures>>
vars   == <<host1, host2, bounds, selected, stray, raced, lateRelease>>

H1 == INSTANCE Daemon WITH
        SingleIPOnly <- FALSE, OldSubnets <- {}, Container <- {},
        containers <- {}, adding <- {}, late <- {},
        row <- row1, renewedAt <- renewedAt1, vtep <- vtep1, madeFor <- madeFor1,
        pc <- pc1, lease <- lease1, afterwards <- afterwards1, call <- call1,
        offer <- offer1, timer <- timer1, lastSuccess <- lastSuccess1,
        renewed <- renewed1, served <- served1, tearing <- tearing1

H2 == INSTANCE Daemon WITH
        SingleIPOnly <- FALSE, OldSubnets <- {}, Container <- {},
        containers <- {}, adding <- {}, late <- {},
        row <- row2, renewedAt <- renewedAt2, vtep <- vtep2, madeFor <- madeFor2,
        pc <- pc2, lease <- lease2, afterwards <- afterwards2, call <- call2,
        offer <- offer2, timer <- timer2, lastSuccess <- lastSuccess2,
        renewed <- renewed2, served <- served2, tearing <- tearing2

blockPool == generateBlockPool(Network.ip, Network.len, SubnetPrefixLength)

-------------------------------------------------------------------------------
(* A request that is under way and not yet served; the list asks for        *)
(* nothing that matters here.                                               *)
Acquire(h) == [host |-> h, op |-> "acquire", subnet |-> None]

Pending(h, pc, call, lease) ==
  {r \in {Acquire(h), [host |-> h, op |-> "renew", subnet |-> lease]} :
     call = "sent" /\ pc \in (IF r.op = "acquire" THEN {"acquire"} ELSE {"renew", "poll"})}

Release(h) == [host |-> h, op |-> "release", subnet |-> None]

MayLeaseAny(subnet, others) == TRUE

(* UNIQUE (overlay_subnet). *)
MayLease(subnet, others) == subnet # None => subnet # others

Expired(row, renewedAt) == row # None /\ renewedAt + LeaseExpirationSeconds <= now

(* The pool has nothing left for an acquire of a host without a lease. *)
Exhausted(asking, row, others) == asking /\ row = None /\ blockPool = {others}

-------------------------------------------------------------------------------
(* A host's own steps, and its requests served in time. *)

Step1 ==
  /\ \/ H1!Daemon \/ H1!ServeList \/ H1!TeardownDelete
     \/ H1!ServeAcquire /\ MayLease(row1', row2)
     \/ /\ H1!ServeRenew /\ MayLease(row1', row2)
        /\ failures' = failures =>
             (call1' = "ok" <=> row1 \in {lease1, None} /\ MayLease(lease1, row2))
  /\ UNCHANGED <<host2, selected, stray, raced, lateRelease>>

Step2 ==
  /\ \/ H2!Daemon \/ H2!ServeList \/ H2!TeardownDelete
     \/ H2!ServeAcquire /\ MayLease(row2', row1)
     \/ /\ H2!ServeRenew /\ MayLease(row2', row1)
        /\ failures' = failures =>
             (call2' = "ok" <=> row2 \in {lease2, None} /\ MayLease(lease2, row1))
  /\ UNCHANGED <<host1, selected, stray, raced, lateRelease>>

(* A client gives up, by itself or because its process ends, and so does    *)
(* silk-teardown, whose release has failed as far as it knows.              *)
GiveUp1 ==
  /\ \/ /\ H1!Unanswered \/ H1!Crash
        /\ stray' \in {stray, stray \cup Pending(1, pc1, call1, lease1)}
     \/ H1!TeardownRelease
        /\ stray' \in {stray, stray \cup {Release(1)}} /\ (failures' = failures => stray' = stray)
  /\ UNCHANGED <<host2, selected, raced, lateRelease>>

GiveUp2 ==
  /\ \/ /\ H2!Unanswered \/ H2!Crash
        /\ stray' \in {stray, stray \cup Pending(2, pc2, call2, lease2)}
     \/ H2!TeardownRelease
        /\ stray' \in {stray, stray \cup {Release(2)}} /\ (failures' = failures => stray' = stray)
  /\ UNCHANGED <<host1, selected, raced, lateRelease>>

asking1 == pc1 = "acquire" /\ call1 = "sent"
asking2 == pc2 = "acquire" /\ call2 = "sent"

(* An acquire that finds the pool exhausted reclaims the other host's lease *)
(* if it has expired, in two statements, whether or not its client still    *)
(* waits, and otherwise fails.                                              *)
SelectExpired ==
  /\ selected = None
  /\ \/ /\ Exhausted(asking1 \/ Acquire(1) \in stray, row1, row2)
        /\ Expired(row2, renewedAt2) /\ selected' = 2
     \/ /\ Exhausted(asking2 \/ Acquire(2) \in stray, row2, row1)
        /\ Expired(row1, renewedAt1) /\ selected' = 1
  /\ UNCHANGED <<host1, host2, bounds, stray, raced, lateRelease>>

DeleteSelected ==
  /\ \/ /\ selected = 1 /\ row1' = None /\ renewedAt1' = 0 /\ UNCHANGED table2
        /\ raced' = (raced \/ (row1 # None /\ ~ Expired(row1, renewedAt1)))
     \/ /\ selected = 2 /\ row2' = None /\ renewedAt2' = 0 /\ UNCHANGED table1
        /\ raced' = (raced \/ (row2 # None /\ ~ Expired(row2, renewedAt2)))
  /\ selected' = None
  /\ UNCHANGED <<rest1, call1, rest2, call2, bounds, stray, lateRelease>>

NoneAvailable ==
  /\ \/ /\ Exhausted(asking1, row1, row2) /\ ~ Expired(row2, renewedAt2)
        /\ call1' = "error" /\ UNCHANGED call2
     \/ /\ Exhausted(asking2, row2, row1) /\ ~ Expired(row1, renewedAt1)
        /\ call2' = "error" /\ UNCHANGED call1
  /\ UNCHANGED <<table1, rest1, table2, rest2, bounds, selected, stray, raced, lateRelease>>

(* What a request that is served late makes of its host's row. *)
Served(r, row, renewedAt, others) ==
  CASE r.op = "release" -> {<<None, 0>>}
    [] r.op = "renew" -> {IF row \in {r.subnet, None} /\ MayLease(r.subnet, others)
                          THEN <<r.subnet, now>> ELSE <<row, renewedAt>>}
    [] r.op = "acquire" -> IF row # None \/ blockPool = {others} THEN {<<row, renewedAt>>}
                           ELSE {<<s, now>> : s \in blockPool \ {others}}

ServeStray(r) ==
  /\ \/ /\ r.host = 1 /\ UNCHANGED table2
        /\ \E t \in Served(r, row1, renewedAt1, row2) : row1' = t[1] /\ renewedAt1' = t[2]
     \/ /\ r.host = 2 /\ UNCHANGED table1
        /\ \E t \in Served(r, row2, renewedAt2, row1) : row2' = t[1] /\ renewedAt2' = t[2]
  /\ stray' = stray \ {r}
  /\ lateRelease' = (lateRelease \/ r.op = "release")
  /\ UNCHANGED <<rest1, call1, rest2, call2, bounds, selected, raced>>

Tick == H1!Tick /\ H2!Tick /\ UNCHANGED <<selected, stray, raced, lateRelease>>

(* The bound on the clock ends a behaviour. *)
End == now = MaxTime /\ UNCHANGED vars

Init ==
  /\ H1!Init /\ H2!Init
  /\ selected = None /\ stray = {} /\ raced = FALSE /\ lateRelease = FALSE

Next ==
  \/ Step1 \/ Step2 \/ GiveUp1 \/ GiveUp2
  \/ SelectExpired \/ DeleteSelected \/ NoneAvailable
  \/ \E r \in stray : ServeStray(r)
  \/ Tick \/ End

Spec == Init /\ [][Next]_vars

-------------------------------------------------------------------------------
(* Each host has its types, and the requests left behind are requests. *)
TypeOK ==
  /\ H1!TypeOK /\ H2!TypeOK
  /\ selected \in {1, 2, None} /\ raced \in BOOLEAN /\ lateRelease \in BOOLEAN
  /\ \A r \in stray : r.op = "renew" => r.subnet \in CIDR

(* "Each container host is assigned a unique IP address range": two daemons *)
(* that have both renewed while serving serve disjoint subnets, whatever    *)
(* requests are lost or served late, unless a reclaim deleted a lease       *)
(* renewed after it was selected or a release was served after its client   *)
(* gave up.  The lease that is handed over was given up by its former host  *)
(* in time.                                                                 *)
UniqueRanges ==
  renewed1 /\ renewed2 => ~ Overlap(served1, served2) \/ raced \/ lateRelease

(* A host that has renewed while serving keeps its row while it serves:     *)
(* no late request, restart or competing acquire replaces it, with the same *)
(* two exceptions.                                                          *)
ServedStaysLeased ==
  /\ renewed1 => row1 = served1 \/ raced \/ lateRelease
  /\ renewed2 => row2 = served2 \/ raced \/ lateRelease

held ==
  {l \in {[host |-> 1, subnet |-> row1], [host |-> 2, subnet |-> row2]} : l.subnet # None}

Registry == INSTANCE LeaseRegistry WITH
  Host <- {1, 2}, Subnet <- blockPool, Foreign <- {}, held <- held

(* Through lost answers, late requests, races and restarts the table stays  *)
(* the registry of LeaseRegistry: a host gets a subnet only when it has     *)
(* none and none that is granted overlaps it, and leases end one at a time. *)
ImplementsRegistry == Registry!Spec
===================================================================================
