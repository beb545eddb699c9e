---------------------------- MODULE LeaseController ----------------------------
(***************************************************************************)
(* The silk-controller: HTTP handlers, on any number of controller         *)
(* instances, that acquire, renew, release and list subnet leases kept in  *)
(* one SQL table.  The controller holds no lock and opens no transaction:  *)
(* every SQL statement is one action, everything a handler computes        *)
(* between two statements belongs to the first of them, and the statements *)
(* of different handlers interleave in any order.  A statement may fail    *)
(* with a database error, with or without having taken effect.             *)
(*                                                                         *)
(* A definition named for a mistake (AllActiveInclusive, MayAddAnySubnet,  *)
(* TryAgainForever, TryAgainOnceMore, InsertIgnoringError,                 *)
(* RenewUpdateSkipped) varies the one that follows it and is used only to  *)
(* show that a property tells the two apart.                               *)
(***************************************************************************)
EXTENDS Lease, FiniteSets

CONSTANTS
  Host,                         \* underlay IPs of the container hosts
  Malformed,                    \* an underlay IP that does not parse
  Handler,                      \* requests being served at the same time
  Network,                      \* the overlay network of the configuration
  SubnetPrefixLength,
  OldSubnets,                   \* subnets leased under an earlier network
  PresentedSubnets,             \* subnets of the leases hosts ask to renew
  LeaseExpirationSeconds,
  AcquireSubnetLeaseAttempts,   \* 10 in the code
  MaxTime,                      \* bound on the database clock
  None

blockPool  == generateBlockPool(Network.ip, Network.len, SubnetPrefixLength)
singlePool == generateSingleIPPool(Network.ip, SubnetPrefixLength)
Pool       == blockPool \cup singlePool

(* leaseFromVTEPState: what a host leased a single address asks to renew,   *)
(* its address with the prefix length of a block.                           *)
Rebuilt == {[ip |-> s.ip, len |-> SubnetPrefixLength] : s \in singlePool}

Subnet     == Pool \cup OldSubnets \cup PresentedSubnets

ASSUME NetworkAssumption ==
  /\ Network \in CIDR
  /\ \E q \in Address : Network.ip = q * Size(Network.len)
  /\ SubnetPrefixLength \in Network.len..AddrBits

(* The network before a change of configuration shares no address with the  *)
(* present one, and its own leases were disjoint.                           *)
ASSUME OldSubnetsAssumption ==
  /\ OldSubnets \subseteq CIDR
  /\ \A s \in OldSubnets :
       /\ \A t \in OldSubnets : s # t => ~ Overlap(s, t) /\ s.ip # t.ip
       /\ \A t \in Pool \cup Rebuilt : ~ Overlap(s, t) /\ s.ip # t.ip

(* A renewal presents any CIDR: LeaseValidator only parses it.              *)
ASSUME PresentedAssumption == PresentedSubnets \subseteq CIDR

(* What a renewal may present that the controller never handed out. *)
Foreign == PresentedSubnets \ (Pool \cup OldSubnets)

ASSUME ControllerAssumption ==
  /\ Malformed \notin Host
  /\ None \notin Host \cup CIDR /\ NoSubnet \notin CIDR
  /\ LeaseExpirationSeconds \in Nat \ {0}
  /\ AcquireSubnetLeaseAttempts \in Nat \ {0}
  /\ MaxTime \in Nat

LeaseRecord == [underlay_ip : Host, overlay_subnet : Subnet, overlay_hwaddr : HardwareAddr]

Row == [lease : LeaseRecord, last_renewed_at : 0..MaxTime]

VARIABLES
  subnets,       \* the table: a set of rows
  now,           \* the clock of the database
  pc,            \* the next statement of each handler
  req,           \* the request it serves
  attempt,       \* numErrs of AcquireSubnetLease
  lease,         \* the local variable lease: to delete, to insert or to renew
  started,       \* when the request began
  reply          \* the HTTP answer

vars == <<subnets, now, pc, req, attempt, lease, started, reply>>

Request ==
  [op : {"acquire"}, underlay_ip : Host \cup {Malformed}, single : BOOLEAN]
    \cup [op : {"renew", "release"}, underlay_ip : Host \cup {Malformed}]
    \cup [op : {"index"}]

Reply ==
  [status : {200, 409, 500}, lease : LeaseRecord \cup {None}]
    \cup [status : {200}, leases : SUBSET LeaseRecord]

Label == {"idle", "delete own", "taken", "oldest", "reclaim", "insert",
          "renew insert", "renew update", "renew read", "done"}

ControlOK ==
  /\ pc \in [Handler -> Label]
  /\ attempt \in [Handler -> 0..(AcquireSubnetLeaseAttempts - 1)]
  /\ lease \in [Handler -> LeaseRecord \cup {None}]
  /\ reply \in [Handler -> Reply \cup {None}]

(* Every row is a well-formed lease, and no handler of the attempts loop    *)
(* counts past AcquireSubnetLeaseAttempts or keeps a local of another kind. *)
TypeOK ==
  /\ subnets \subseteq Row
  /\ now \in 0..MaxTime
  /\ req \in [Handler -> Request \cup {None}]
  /\ started \in [Handler -> 0..MaxTime]
  /\ ControlOK

-------------------------------------------------------------------------------
(* The statements of controller/database/database_handler.go. *)

RowsOf(u) == {r \in subnets : r.lease.underlay_ip = u}

IsSingle(r) == r.lease.overlay_subnet.len = AddrBits       \* LIKE '%/32'

AllOfKind(single) == {r \in subnets : IsSingle(r) = single}

Expired(r) == r.last_renewed_at + LeaseExpirationSeconds <= now

AllActiveInclusive(duration) == {r \in subnets : r.last_renewed_at + duration >= now}

AllActive(duration) == {r \in subnets : r.last_renewed_at + duration > now}

(* ORDER BY last_renewed_at ASC LIMIT 1: any of the oldest. *)
OldestExpired(single) ==
  LET expired == {r \in AllOfKind(single) : Expired(r)} IN
  {r \in expired : \A s \in expired : r.last_renewed_at <= s.last_renewed_at}

(* The three UNIQUE constraints of the table. *)
MayAddAnySubnet(l) == RowsOf(l.underlay_ip) = {}

MayAdd(l) ==
  \A r \in subnets :
    /\ r.lease.underlay_ip # l.underlay_ip
    /\ r.lease.overlay_subnet # l.overlay_subnet
    /\ r.lease.overlay_hwaddr # l.overlay_hwaddr

AddEntry(l) == subnets' = subnets \cup {[lease |-> l, last_renewed_at |-> now]}

DeleteEntry(u) == subnets' = subnets \ RowsOf(u)

RenewLeaseForUnderlayIP(u) ==
  subnets' = {IF r.lease.underlay_ip = u THEN [r EXCEPT !.last_renewed_at = now] ELSE r :
                r \in subnets}

-------------------------------------------------------------------------------
(* How a handler goes on. *)

Goto(p, label) ==
  /\ pc' = [pc EXCEPT ![p] = label]
  /\ UNCHANGED reply

(* The handler writes its answer; its locals are gone. *)
Answer(p, r) ==
  /\ pc' = [pc EXCEPT ![p] = "done"]
  /\ reply' = [reply EXCEPT ![p] = r]
  /\ lease' = [lease EXCEPT ![p] = None]
  /\ attempt' = [attempt EXCEPT ![p] = 0]

OK(l) == [status |-> 200, lease |-> l]
Status(n) == [status |-> n, lease |-> None]

(* A request reaches a handler. *)
Receive(p, r) ==
  /\ pc[p] = "idle"
  /\ req' = [req EXCEPT ![p] = r]
  /\ started' = [started EXCEPT ![p] = now]
  /\ UNCHANGED now

(* A later statement of the request p serves. *)
At(p, label) ==
  /\ pc[p] = label
  /\ UNCHANGED <<now, req, started>>

(* tryAcquireLease returned no lease: the loop of AcquireSubnetLease goes   *)
(* on, or gives the last attempt's outcome, an error or (nil, nil).         *)
TryAgainForever(p, status) ==
  /\ Goto(p, "taken")
  /\ lease' = [lease EXCEPT ![p] = None]
  /\ UNCHANGED attempt

TryAgainOnceMore(p, status) ==
  IF attempt[p] < AcquireSubnetLeaseAttempts
  THEN /\ Goto(p, "taken")
       /\ attempt' = [attempt EXCEPT ![p] = @ + 1]
       /\ lease' = [lease EXCEPT ![p] = None]
  ELSE Answer(p, Status(status))

TryAgain(p, status) ==
  IF attempt[p] + 1 < AcquireSubnetLeaseAttempts
  THEN /\ Goto(p, "taken")
       /\ attempt' = [attempt EXCEPT ![p] = @ + 1]
       /\ lease' = [lease EXCEPT ![p] = None]
  ELSE Answer(p, Status(status))

-------------------------------------------------------------------------------
(* PUT /leases/acquire *)

AcquireSubnetLease(p, u, single) ==
  /\ Receive(p, [op |-> "acquire", underlay_ip |-> u, single |-> single])
  /\ \/ /\ u \in Host
        /\ \/ /\ RowsOf(u) = {}
              /\ Goto(p, "taken")
              /\ UNCHANGED <<lease, attempt>>
           \/ \E r \in RowsOf(u) :
                IF IsMember(r.lease.overlay_subnet, blockPool, singlePool)
                THEN Answer(p, OK(r.lease))
                ELSE Goto(p, "delete own") /\ UNCHANGED <<lease, attempt>>
     \/ Answer(p, Status(500))             \* malformed address or database error
  /\ UNCHANGED subnets

(* The host's lease is not of this network: delete it first. *)
DeleteOwn(p) ==
  LET u == req[p].underlay_ip IN
  /\ At(p, "delete own")
  /\ \/ /\ RowsOf(u) # {}
        /\ DeleteEntry(u)
        /\ Goto(p, "taken")
        /\ UNCHANGED <<lease, attempt>>
     \/ /\ DeleteEntry(u) \/ UNCHANGED subnets
        /\ Answer(p, Status(500))          \* no row affected, or database error

SelectTaken(p) ==
  LET single == req[p].single
      taken  == {r.lease.overlay_subnet : r \in AllOfKind(single)}
  IN
  /\ At(p, "taken")
  /\ \/ \E s \in getAvailable(taken, IF single THEN singlePool ELSE blockPool) :
          IF s = NoSubnet
          THEN Goto(p, "oldest") /\ UNCHANGED <<lease, attempt>>
          ELSE /\ Goto(p, "insert")
               /\ lease' = [lease EXCEPT ![p] = LeaseFor(req[p].underlay_ip, s)]
               /\ UNCHANGED attempt
     \/ TryAgain(p, 500)
  /\ UNCHANGED subnets

SelectOldestExpired(p) ==
  LET oldest == OldestExpired(req[p].single) IN
  /\ At(p, "oldest")
  /\ \/ \E r \in oldest :
          /\ Goto(p, "reclaim")
          /\ lease' = [lease EXCEPT ![p] = r.lease]
          /\ UNCHANGED attempt
     \/ oldest = {} /\ TryAgain(p, 409)
     \/ TryAgain(p, 500)
  /\ UNCHANGED subnets

(* Delete the expired lease, by the underlay IP of its host; keep its subnet. *)
DeleteExpired(p) ==
  LET victim == lease[p] IN
  /\ At(p, "reclaim")
  /\ \/ /\ RowsOf(victim.underlay_ip) # {}
        /\ DeleteEntry(victim.underlay_ip)
        /\ Goto(p, "insert")
        /\ lease' = [lease EXCEPT ![p] = LeaseFor(req[p].underlay_ip, victim.overlay_subnet)]
        /\ UNCHANGED attempt
     \/ /\ DeleteEntry(victim.underlay_ip) \/ UNCHANGED subnets
        /\ TryAgain(p, 500)

InsertIgnoringError(p) ==
  /\ At(p, "insert")
  /\ IF MayAdd(lease[p]) THEN AddEntry(lease[p]) ELSE UNCHANGED subnets
  /\ Answer(p, OK(lease[p]))

InsertLease(p) ==
  /\ At(p, "insert")
  /\ \/ /\ MayAdd(lease[p])
        /\ AddEntry(lease[p])
        /\ Answer(p, OK(lease[p])) \/ TryAgain(p, 500)
     \/ /\ TryAgain(p, 500)
        /\ UNCHANGED subnets

-------------------------------------------------------------------------------
(* PUT /leases/renew *)

RenewSubnetLease(p, u, s) ==
  LET l == LeaseFor(u, s) IN
  /\ Receive(p, [op |-> "renew", underlay_ip |-> u])
  /\ \/ /\ u \in Host
        /\ \/ /\ RowsOf(u) = {}
              /\ Goto(p, "renew insert")
              /\ lease' = [lease EXCEPT ![p] = l]
              /\ UNCHANGED attempt
           \/ \E r \in RowsOf(u) :
                IF r.lease = l
                THEN /\ Goto(p, "renew update")
                     /\ lease' = [lease EXCEPT ![p] = l]
                     /\ UNCHANGED attempt
                ELSE Answer(p, Status(409))
           \/ Answer(p, Status(500))
     \/ u = Malformed /\ Answer(p, Status(409))
  /\ UNCHANGED subnets

RenewInsert(p) ==
  /\ At(p, "renew insert")
  /\ \/ /\ MayAdd(lease[p])
        /\ AddEntry(lease[p])
        /\ \/ Goto(p, "renew update") /\ UNCHANGED <<lease, attempt>>
           \/ Answer(p, Status(409))
     \/ /\ Answer(p, Status(409))
        /\ UNCHANGED subnets

RenewUpdateSkipped(p) ==
  /\ At(p, "renew update")
  /\ Goto(p, "renew read")
  /\ UNCHANGED <<subnets, lease, attempt>>

RenewUpdate(p) ==
  /\ At(p, "renew update")
  /\ \/ /\ RenewLeaseForUnderlayIP(lease[p].underlay_ip)
        /\ \/ Goto(p, "renew read") /\ UNCHANGED <<lease, attempt>>
           \/ Answer(p, Status(500))
     \/ /\ Answer(p, Status(500))
        /\ UNCHANGED subnets

RenewRead(p) ==
  /\ At(p, "renew read")
  /\ \/ RowsOf(lease[p].underlay_ip) # {} /\ Answer(p, OK(lease[p]))
     \/ Answer(p, Status(500))
  /\ UNCHANGED subnets

-------------------------------------------------------------------------------
(* PUT /leases/release, GET /leases *)

ReleaseSubnetLease(p, u) ==
  /\ Receive(p, [op |-> "release", underlay_ip |-> u])
  /\ \/ DeleteEntry(u) /\ Answer(p, Status(200))
     \/ /\ DeleteEntry(u) \/ UNCHANGED subnets
        /\ Answer(p, Status(500))

RoutableLeases(p) ==
  /\ Receive(p, [op |-> "index"])
  /\ \/ Answer(p, [status |-> 200,
                   leases |-> {r.lease : r \in AllActive(LeaseExpirationSeconds)}])
     \/ Answer(p, Status(500))
  /\ UNCHANGED subnets

-------------------------------------------------------------------------------
(* The answer leaves the handler, or the controller dies while it serves. *)

Finish(p) ==
  /\ pc' = [pc EXCEPT ![p] = "idle"]
  /\ req' = [req EXCEPT ![p] = None]
  /\ reply' = [reply EXCEPT ![p] = None]
  /\ lease' = [lease EXCEPT ![p] = None]
  /\ attempt' = [attempt EXCEPT ![p] = 0]
  /\ started' = [started EXCEPT ![p] = 0]
  /\ UNCHANGED <<subnets, now>>

Deliver(p) == pc[p] = "done" /\ Finish(p)

Crash(p) == pc[p] \notin {"idle", "done"} /\ Finish(p)

Tick ==
  /\ now < MaxTime
  /\ now' = now + 1
  /\ UNCHANGED <<subnets, pc, req, attempt, lease, started, reply>>

-------------------------------------------------------------------------------
UniqueKeys(T) ==
  \A r, s \in T : r # s => /\ r.lease.underlay_ip # s.lease.underlay_ip
                           /\ r.lease.overlay_subnet # s.lease.overlay_subnet
                           /\ r.lease.overlay_hwaddr # s.lease.overlay_hwaddr

(* The table as the previous configuration left it. *)
OldRows == {[lease |-> LeaseFor(u, s), last_renewed_at |-> 0] : u \in Host, s \in OldSubnets}

Init ==
  /\ subnets \in SUBSET OldRows
  /\ UniqueKeys(subnets)
  /\ now = 0
  /\ pc = [p \in Handler |-> "idle"]
  /\ req = [p \in Handler |-> None]
  /\ attempt = [p \in Handler |-> 0]
  /\ lease = [p \in Handler |-> None]
  /\ started = [p \in Handler |-> 0]
  /\ reply = [p \in Handler |-> None]

(* A handler that has begun a request takes its next statement. *)
Step(p) ==
  \/ DeleteOwn(p) \/ SelectTaken(p) \/ SelectOldestExpired(p)
  \/ DeleteExpired(p) \/ InsertLease(p)
  \/ RenewInsert(p) \/ RenewUpdate(p) \/ RenewRead(p)

Begin(p) ==
  \/ \E u \in Host \cup {Malformed}, single \in BOOLEAN : AcquireSubnetLease(p, u, single)
  \/ \E u \in Host \cup {Malformed}, s \in PresentedSubnets : RenewSubnetLease(p, u, s)
  \/ \E u \in Host \cup {Malformed} : ReleaseSubnetLease(p, u)
  \/ RoutableLeases(p)

Next ==
  \/ \E p \in Handler : Begin(p) \/ Step(p) \/ Deliver(p) \/ Crash(p)
  \/ Tick

Spec == Init /\ [][Next]_vars

(* A handler is a goroutine whose statements return, if only with an error. *)
Fairness == \A p \in Handler : WF_vars(Step(p)) /\ WF_vars(Deliver(p))

LiveSpec == Spec /\ Fairness

-------------------------------------------------------------------------------
(* No host has two leases and no two share a VTEP hardware address, however *)
(* the statements of concurrent acquires, renewals, reclaims and releases   *)
(* interleave; and when the ranges of two leases overlap, a renewal brought *)
(* in one of them: RenewSubnetLease inserts any subnet that is not in the   *)
(* table as a string.                                                       *)
DisjointSubnets ==
  \A r, s \in subnets :
    r # s => /\ r.lease.underlay_ip # s.lease.underlay_ip
             /\ r.lease.overlay_hwaddr # s.lease.overlay_hwaddr
             /\ Overlap(r.lease.overlay_subnet, s.lease.overlay_subnet)
                => \/ r.lease.overlay_subnet \in Foreign
                   \/ s.lease.overlay_subnet \in Foreign

(* The range of a host that was leased a block overlaps no other lease, the *)
(* subnets that leaseFromVTEPState makes of single addresses included: the  *)
(* single addresses come from the first block, which is not in the pool.    *)
BlockLeaseIsExclusive ==
  \A r, s \in subnets :
    r # s /\ r.lease.overlay_subnet \in blockPool
    => ~ Overlap(r.lease.overlay_subnet, s.lease.overlay_subnet)

Granted(p) ==
  (/\ pc'[p] = "done" /\ pc[p] # "done"
   /\ req'[p].op = "acquire" /\ reply'[p].status = 200)
  => /\ reply'[p].lease.underlay_ip = req'[p].underlay_ip
     /\ \E r \in subnets' : r.lease = reply'[p].lease

(* A 200 answer to an acquire gives the host a lease that the table holds   *)
(* for this host at the very moment of the answer: a handler whose INSERT   *)
(* lost a race against another handler never answers with the lost subnet.  *)
GrantIsBacked == [][\A p \in Handler : Granted(p)]_vars

Acked(p) ==
  (/\ pc'[p] = "done" /\ pc[p] # "done"
   /\ req'[p].op = "renew" /\ reply'[p].status = 200)
  => \E r \in subnets' : /\ r.lease.underlay_ip = req'[p].underlay_ip
                        /\ r.last_renewed_at >= started[p]

(* A 200 answer to a renewal means that, when the handler last looked, the  *)
(* table had a lease of this host stamped no earlier than the request: the  *)
(* UPDATE that touched no row because a reclaim or a release came first is  *)
(* never reported as a renewal.                                             *)
RenewAckBacked == [][\A p \in Handler : Acked(p)]_vars

(* The list of routable leases and the reclaim agree on what has expired,   *)
(* to the second: a lease told to the hosts as routable cannot be selected  *)
(* for reclaim at that moment, and a lease left out of the list can.        *)
RoutableXorReclaimable ==
  \A r \in subnets :
    (r \in AllActive(LeaseExpirationSeconds)) # Expired(r)

(* Every request is answered, whatever the database does and whatever the   *)
(* other handlers do to the rows it needs, unless the controller dies.      *)
EveryRequestAnswered ==
  \A p \in Handler : (pc[p] # "idle") ~> (pc[p] \in {"done", "idle"})

held == {[host |-> r.lease.underlay_ip, subnet |-> r.lease.overlay_subnet] : r \in subnets}

Registry == INSTANCE LeaseRegistry WITH
  Host <- Host, Subnet <- Subnet, Foreign <- Foreign, held <- held

(* The controller implements the registry of LeaseRegistry: seen as pairs   *)
(* of host and subnet the table changes by whole grants and whole endings   *)
(* only, each statement of a reclaim, a renewal or a retry being one such   *)
(* step or none.                                                            *)
ImplementsRegistry == Registry!Spec

(* "Deletes the expired lease and assigns that lease's subnet": what a      *)
(* reclaim deletes is a lease that has expired.                             *)
ReclaimedWasExpired ==
  [][\A p \in Handler :
       (pc[p] = "reclaim" /\ pc'[p] # "reclaim")
       => \A r \in subnets \ subnets' : Expired(r)]_vars

(* "returns a new lease in the new network": what an acquire hands out is a *)
(* subnet of the network the controller is configured with.                 *)
AcquiredInNetwork ==
  [][\A p \in Handler :
       (/\ pc'[p] = "done" /\ pc[p] # "done"
        /\ req'[p].op = "acquire" /\ reply'[p].status = 200)
       => Contains(Network, reply'[p].lease.overlay_subnet.ip)]_vars

===============================================================================
