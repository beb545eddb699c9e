------------------------- MODULE LeaseControllerTheorems -------------------------
(***************************************************************************)
(* LeaseController keeps its types, and the leases of the table disjoint,  *)
(* for every network, prefix length, set of hosts, number of handlers and  *)
(* bound.  The inductive invariant ties the label of a handler to the      *)
(* locals it has set, and states the three UNIQUE keys of the table;       *)
(* disjointness follows from the keys because the subnets of the pools are *)
(* pairwise disjoint (CIDRPoolTheorems).  Then, it implements the registry; *)
(* last, what its answers are worth.                                       *)
(***************************************************************************)
EXTENDS LeaseController, CIDRPoolTheorems

LEMMA SubnetIsCIDR ==
  /\ Subnet \subseteq CIDR
  /\ Pool \subseteq Subnet
  /\ Subnet \subseteq Pool \cup OldSubnets \cup Foreign
<1>1. IsNetwork(Network.ip, Network.len)
  BY NetworkAssumption, NetworkFits, SizePositive DEF Address
<1>2. Network.len \in 0..AddrBits /\ SubnetPrefixLength \in Network.len..AddrBits
  BY NetworkAssumption DEF CIDR
<1>3. Pool \subseteq CIDR
  BY <1>1, <1>2, PoolsAreCIDRs DEF Pool, blockPool, singlePool
<1> QED BY <1>3, OldSubnetsAssumption, PresentedAssumption DEF Subnet, Foreign

(* Distinct subnets the controller hands out do not overlap: within the      *)
(* network by the way the pools are cut, against an older network by         *)
(* assumption.                                                               *)
LEMMA SubnetsDisjoint ==
  ASSUME NEW s \in Subnet \ Foreign, NEW t \in Subnet \ Foreign, s # t
  PROVE  ~ Overlap(s, t)
<1>1. IsNetwork(Network.ip, Network.len)
  BY NetworkAssumption, NetworkFits, SizePositive DEF Address
<1>2. Network.len \in 0..AddrBits /\ SubnetPrefixLength \in Network.len..AddrBits
  BY NetworkAssumption DEF CIDR
<1>3. s \in Pool \cup OldSubnets /\ t \in Pool \cup OldSubnets
  BY SubnetIsCIDR
<1>4. CASE s \in Pool /\ t \in Pool
  BY <1>1, <1>2, <1>4, PoolsAreDisjoint DEF Pool, blockPool, singlePool
<1>5. CASE s \in OldSubnets
  BY <1>3, <1>5, OldSubnetsAssumption
<1>6. CASE t \in OldSubnets
  <2>1. ~ Overlap(t, s)
    BY <1>3, <1>6, OldSubnetsAssumption
  <2> QED BY <2>1 DEF Overlap
<1> QED BY <1>3, <1>4, <1>5, <1>6

LEMMA LeaseForType ==
  ASSUME NEW u \in Host, NEW s \in Subnet
  PROVE  LeaseFor(u, s) \in LeaseRecord
BY SubnetIsCIDR DEF LeaseFor, LeaseRecord, HardwareAddr, CIDR

-------------------------------------------------------------------------------
(* What a handler has set by the time it is at a label. *)
Coupled(p) ==
  /\ pc[p] \in {"delete own", "taken", "oldest", "reclaim", "insert"} =>
       req[p] \in [op : {"acquire"}, underlay_ip : Host, single : BOOLEAN]
  /\ pc[p] \in {"renew insert", "renew update", "renew read"} => req[p].op = "renew"
  /\ pc[p] \in {"reclaim", "insert", "renew insert", "renew update", "renew read"} =>
       lease[p] \in LeaseRecord
  /\ pc[p] \in {"insert", "renew insert", "renew update", "renew read"} =>
       lease[p].underlay_ip = req[p].underlay_ip

IInv ==
  /\ TypeOK
  /\ UniqueKeys(subnets)
  /\ \A p \in Handler : Coupled(p)

(* The four ways a statement leaves the table. *)

LEMMA AddEntryKeeps ==
  ASSUME subnets \subseteq Row, UniqueKeys(subnets), now \in 0..MaxTime,
         NEW l \in LeaseRecord, MayAdd(l), AddEntry(l)
  PROVE  subnets' \subseteq Row /\ UniqueKeys(subnets')
<1>1. [lease |-> l, last_renewed_at |-> now] \in Row
  BY DEF Row
<1>2. subnets' \subseteq Row
  BY <1>1 DEF AddEntry
<1>3. UniqueKeys(subnets')
  BY DEF UniqueKeys, AddEntry, MayAdd
<1> QED BY <1>2, <1>3

LEMMA DeleteEntryKeeps ==
  ASSUME subnets \subseteq Row, UniqueKeys(subnets), NEW u, DeleteEntry(u)
  PROVE  subnets' \subseteq Row /\ UniqueKeys(subnets')
BY DEF UniqueKeys, DeleteEntry

LEMMA RenewKeeps ==
  ASSUME subnets \subseteq Row, UniqueKeys(subnets), now \in 0..MaxTime,
         NEW u, RenewLeaseForUnderlayIP(u)
  PROVE  subnets' \subseteq Row /\ UniqueKeys(subnets')
<1>1. \A r \in subnets : r \in Row
  OBVIOUS
<1>2. ASSUME NEW x \in subnets'
      PROVE  x \in Row /\ \E r \in subnets :
               x.lease = r.lease
               /\ x = IF r.lease.underlay_ip = u THEN [r EXCEPT !.last_renewed_at = now] ELSE r
  BY <1>1, <1>2 DEF RenewLeaseForUnderlayIP, Row
<1>3. UniqueKeys(subnets')
  BY <1>2 DEF UniqueKeys
<1> QED BY <1>2, <1>3

-------------------------------------------------------------------------------
(* How a handler goes on, whichever statement it has executed. *)

LEMMA AnswerKeeps ==
  ASSUME IInv, NEW p \in Handler, NEW r \in Reply, Answer(p, r),
         \A q \in Handler \ {p} : req'[q] = req[q]
  PROVE  ControlOK' /\ \A q \in Handler : Coupled(q)'
<1> 0 \in 0..(AcquireSubnetLeaseAttempts - 1) /\ "done" \in Label
  BY ControllerAssumption DEF Label
<1>1. ControlOK'
  BY DEF IInv, TypeOK, ControlOK, Answer
<1>2. ASSUME NEW q \in Handler PROVE Coupled(q)'
  BY Zenon DEF IInv, TypeOK, ControlOK, Answer, Coupled
<1> QED BY <1>1, <1>2

LEMMA GotoKeeps ==
  ASSUME IInv, NEW p \in Handler, NEW label \in Label, Goto(p, label),
         attempt' \in [Handler -> 0..(AcquireSubnetLeaseAttempts - 1)],
         NEW l \in LeaseRecord \cup {None}, lease' = [lease EXCEPT ![p] = l],
         \A q \in Handler \ {p} : req'[q] = req[q],
         label \in {"delete own", "taken", "oldest", "reclaim", "insert"} =>
           req'[p] \in [op : {"acquire"}, underlay_ip : Host, single : BOOLEAN],
         label \in {"renew insert", "renew update", "renew read"} => req'[p].op = "renew",
         label \in {"reclaim", "insert", "renew insert", "renew update", "renew read"} =>
           l \in LeaseRecord,
         label \in {"insert", "renew insert", "renew update", "renew read"} =>
           l.underlay_ip = req'[p].underlay_ip
  PROVE  ControlOK' /\ \A q \in Handler : Coupled(q)'
<1>1. ControlOK'
  BY Zenon DEF IInv, TypeOK, ControlOK, Goto
<1>2. ASSUME NEW q \in Handler PROVE Coupled(q)'
  BY Zenon DEF IInv, TypeOK, ControlOK, Goto, Coupled
<1> QED BY Zenon, <1>1, <1>2

LEMMA TryAgainKeeps ==
  ASSUME IInv, NEW p \in Handler, NEW status \in {409, 500}, TryAgain(p, status),
         pc[p] \in {"taken", "oldest", "reclaim", "insert"}, UNCHANGED req
  PROVE  ControlOK' /\ \A q \in Handler : Coupled(q)'
<1>1. CASE attempt[p] + 1 < AcquireSubnetLeaseAttempts
  <2>1. attempt[p] \in 0..(AcquireSubnetLeaseAttempts - 1)
    BY DEF IInv, TypeOK, ControlOK
  <2>2. attempt[p] + 1 \in 0..(AcquireSubnetLeaseAttempts - 1)
    BY <1>1, <2>1, ControllerAssumption
  <2>3. attempt' \in [Handler -> 0..(AcquireSubnetLeaseAttempts - 1)]
    BY <1>1, <2>2 DEF IInv, TypeOK, ControlOK, TryAgain
  <2>4. req'[p] \in [op : {"acquire"}, underlay_ip : Host, single : BOOLEAN]
    <3>1. Coupled(p)
      BY DEF IInv
    <3> QED BY <3>1, Zenon DEF Coupled
  <2>5. Goto(p, "taken") /\ lease' = [lease EXCEPT ![p] = None] /\ "taken" \in Label
    BY <1>1 DEF TryAgain, Label
  <2>6. None \in LeaseRecord \cup {None} /\ \A q \in Handler \ {p} : req'[q] = req[q]
    OBVIOUS
  <2>7. "taken" \notin {"reclaim", "insert", "renew insert", "renew update", "renew read"}
    OBVIOUS
  <2> QED BY ONLY Zenon, IInv, p \in Handler, <2>3, <2>4, <2>5, <2>6, <2>7, GotoKeeps
<1>2. CASE ~ (attempt[p] + 1 < AcquireSubnetLeaseAttempts)
  <2>1. Status(status) \in Reply
    BY DEF Status, Reply
  <2> QED BY <1>2, <2>1, AnswerKeeps DEF TryAgain
<1> QED BY <1>1, <1>2

LEMMA ReplyTypes ==
  /\ \A n \in {200, 409, 500} : Status(n) \in Reply
  /\ \A l \in LeaseRecord : OK(l) \in Reply
BY DEF Status, OK, Reply

(* The request that a handler begins with is one of the four kinds. *)
LEMMA ReceiveKeeps ==
  ASSUME IInv, NEW p \in Handler, NEW r \in Request, Receive(p, r)
  PROVE  /\ now' \in 0..MaxTime
         /\ req' \in [Handler -> Request \cup {None}] /\ req'[p] = r
         /\ started' \in [Handler -> 0..MaxTime]
         /\ \A q \in Handler \ {p} : req'[q] = req[q]
BY DEF IInv, TypeOK, Receive

LEMMA StayKeeps ==
  ASSUME IInv, NEW p \in Handler, NEW label \in Label, Goto(p, label),
         UNCHANGED <<lease, attempt>>,
         \A q \in Handler \ {p} : req'[q] = req[q],
         label \in {"delete own", "taken", "oldest", "reclaim", "insert"} =>
           req'[p] \in [op : {"acquire"}, underlay_ip : Host, single : BOOLEAN],
         label \in {"renew insert", "renew update", "renew read"} => req'[p].op = "renew",
         label \in {"reclaim", "insert", "renew insert", "renew update", "renew read"} =>
           lease[p] \in LeaseRecord,
         label \in {"insert", "renew insert", "renew update", "renew read"} =>
           lease[p].underlay_ip = req'[p].underlay_ip
  PROVE  ControlOK' /\ \A q \in Handler : Coupled(q)'
<1>1. ControlOK'
  BY Zenon DEF IInv, TypeOK, ControlOK, Goto
<1>2. ASSUME NEW q \in Handler PROVE Coupled(q)'
  BY Zenon DEF IInv, TypeOK, ControlOK, Goto, Coupled
<1> QED BY Zenon, <1>1, <1>2

(* The rest of a later statement: the request and the clock stay. *)
LEMMA AtKeeps ==
  ASSUME IInv, NEW p \in Handler, NEW label, At(p, label),
         subnets' \subseteq Row, UniqueKeys(subnets'),
         ControlOK', \A q \in Handler : Coupled(q)'
  PROVE  IInv'
<1>1. TypeOK'
  BY DEF IInv, TypeOK, At
<1> QED BY <1>1 DEF IInv, UniqueKeys

(* The rest of a first statement. *)
LEMMA BeginKeeps ==
  ASSUME IInv, NEW p \in Handler, NEW r \in Request, Receive(p, r),
         subnets' \subseteq Row, UniqueKeys(subnets'),
         ControlOK', \A q \in Handler : Coupled(q)'
  PROVE  IInv'
<1>1. TypeOK'
  BY ReceiveKeeps DEF TypeOK
<1> QED BY <1>1 DEF IInv, UniqueKeys

-------------------------------------------------------------------------------
(* One lemma per action. *)

LEMMA AcquireKeeps ==
  ASSUME IInv, NEW p \in Handler, NEW u \in Host \cup {Malformed}, NEW single \in BOOLEAN,
         AcquireSubnetLease(p, u, single)
  PROVE  IInv'
<1> DEFINE r == [op |-> "acquire", underlay_ip |-> u, single |-> single]
<1>1. r \in Request /\ Receive(p, r)
  BY Zenon DEF Request, AcquireSubnetLease
<1>2. /\ req'[p] = r /\ \A q \in Handler \ {p} : req'[q] = req[q]
  BY <1>1, ReceiveKeeps
<1>3. u \in Host => req'[p] \in [op : {"acquire"}, underlay_ip : Host, single : BOOLEAN]
  BY <1>2
<1>4. subnets' \subseteq Row /\ UniqueKeys(subnets')
  BY Zenon DEF AcquireSubnetLease, IInv, TypeOK
<1>5. ControlOK' /\ \A q \in Handler : Coupled(q)'
  <2>1. CASE u \in Host /\ Goto(p, "taken") /\ UNCHANGED <<lease, attempt>>
    BY Zenon, <1>2, <1>3, <2>1, StayKeeps DEF Label
  <2>2. CASE u \in Host /\ Goto(p, "delete own") /\ UNCHANGED <<lease, attempt>>
    BY Zenon, <1>2, <1>3, <2>2, StayKeeps DEF Label
  <2>3. CASE \E x \in RowsOf(u) : Answer(p, OK(x.lease))
    <3>1. PICK x \in RowsOf(u) : Answer(p, OK(x.lease))
      BY <2>3
    <3>2. OK(x.lease) \in Reply
      BY ReplyTypes DEF RowsOf, IInv, TypeOK, Row
    <3> QED BY <1>2, <3>1, <3>2, AnswerKeeps
  <2>4. CASE Answer(p, Status(500))
    <3>1. Status(500) \in Reply
      BY ReplyTypes
    <3> QED BY <1>2, <2>4, <3>1, AnswerKeeps
  <2> QED BY Zenon, <2>1, <2>2, <2>3, <2>4 DEF AcquireSubnetLease
<1> QED BY <1>1, <1>4, <1>5, BeginKeeps

LEMMA DeleteOwnKeeps ==
  ASSUME IInv, NEW p \in Handler, DeleteOwn(p)
  PROVE  IInv'
<1>1. At(p, "delete own") /\ req' = req
  BY Zenon DEF DeleteOwn, At
<1>2. subnets' \subseteq Row /\ UniqueKeys(subnets')
  <2>1. subnets \subseteq Row /\ UniqueKeys(subnets)
    BY DEF IInv, TypeOK
  <2>2. DeleteEntry(req[p].underlay_ip) \/ UNCHANGED subnets
    BY Zenon DEF DeleteOwn
  <2> QED BY <2>1, <2>2, DeleteEntryKeeps
<1>3. ControlOK' /\ \A q \in Handler : Coupled(q)'
  <2>1. CASE Goto(p, "taken") /\ UNCHANGED <<lease, attempt>>
    <3>1. req'[p] \in [op : {"acquire"}, underlay_ip : Host, single : BOOLEAN]
      BY Zenon, <1>1 DEF IInv, Coupled, At
    <3> QED BY Zenon, <1>1, <2>1, <3>1, StayKeeps DEF Label
  <2>2. CASE Answer(p, Status(500))
    <3>1. Status(500) \in Reply
      BY ReplyTypes
    <3> QED BY Zenon, <1>1, <2>2, <3>1, AnswerKeeps
  <2> QED BY Zenon, <2>1, <2>2 DEF DeleteOwn
<1> QED BY Zenon, <1>1, <1>2, <1>3, AtKeeps

(* A subnet that getAvailable returns is one of the pool. *)
LEMMA AvailableIsMember ==
  ASSUME NEW taken, NEW pool, NEW s \in getAvailable(taken, pool), s # NoSubnet
  PROVE  s \in pool
BY DEF getAvailable

(* The request of a handler between the first and the last statement of an *)
(* acquire.                                                                *)
LEMMA Acquiring ==
  ASSUME IInv, NEW p \in Handler, pc[p] \in {"taken", "oldest", "reclaim", "insert"}
  PROVE  req[p] \in [op : {"acquire"}, underlay_ip : Host, single : BOOLEAN]
BY Zenon DEF IInv, Coupled

LEMMA SelectTakenKeeps ==
  ASSUME IInv, NEW p \in Handler, SelectTaken(p)
  PROVE  IInv'
<1>1. At(p, "taken") /\ req' = req /\ pc[p] = "taken"
  BY DEF SelectTaken, At
<1>2. subnets' \subseteq Row /\ UniqueKeys(subnets')
  BY DEF SelectTaken, IInv, TypeOK
<1>3. req[p] \in [op : {"acquire"}, underlay_ip : Host, single : BOOLEAN]
  BY <1>1, Acquiring
<1>4. ControlOK' /\ \A q \in Handler : Coupled(q)'
  <2>1. CASE Goto(p, "oldest") /\ UNCHANGED <<lease, attempt>>
    BY Zenon, <1>1, <1>3, <2>1, StayKeeps DEF Label
  <2>2. CASE \E s \in Subnet : /\ Goto(p, "insert") /\ UNCHANGED attempt
                               /\ lease' = [lease EXCEPT ![p] = LeaseFor(req[p].underlay_ip, s)]
    <3>1. PICK s \in Subnet : /\ Goto(p, "insert") /\ UNCHANGED attempt
                              /\ lease' = [lease EXCEPT ![p] = LeaseFor(req[p].underlay_ip, s)]
      BY Zenon, <2>2
    <3>2. /\ LeaseFor(req[p].underlay_ip, s) \in LeaseRecord
          /\ LeaseFor(req[p].underlay_ip, s).underlay_ip = req[p].underlay_ip
      BY <1>3, LeaseForType DEF LeaseFor
    <3>3. attempt' \in [Handler -> 0..(AcquireSubnetLeaseAttempts - 1)] /\ "insert" \in Label
      BY Zenon, <3>1 DEF IInv, TypeOK, ControlOK, Label
    <3> QED BY Zenon, <1>1, <1>3, <3>1, <3>2, <3>3, GotoKeeps
  <2>3. CASE TryAgain(p, 500)
    BY <1>1, <2>3, TryAgainKeeps
  <2>4. \A taken : \A s \in getAvailable(taken, IF req[p].single THEN singlePool ELSE blockPool) :
          s # NoSubnet => s \in Subnet
    BY AvailableIsMember DEF Subnet, Pool
  <2> QED BY Zenon, <2>1, <2>2, <2>3, <2>4 DEF SelectTaken
<1> QED BY <1>1, <1>2, <1>4, AtKeeps

LEMMA SelectOldestExpiredKeeps ==
  ASSUME IInv, NEW p \in Handler, SelectOldestExpired(p)
  PROVE  IInv'
<1>1. At(p, "oldest") /\ req' = req /\ pc[p] = "oldest"
  BY DEF SelectOldestExpired, At
<1>2. subnets' \subseteq Row /\ UniqueKeys(subnets')
  BY DEF SelectOldestExpired, IInv, TypeOK
<1>3. req[p] \in [op : {"acquire"}, underlay_ip : Host, single : BOOLEAN]
  BY <1>1, Acquiring
<1>4. ControlOK' /\ \A q \in Handler : Coupled(q)'
  <2>1. CASE \E r \in subnets : /\ Goto(p, "reclaim") /\ UNCHANGED attempt
                                /\ lease' = [lease EXCEPT ![p] = r.lease]
    <3>1. PICK r \in subnets : /\ Goto(p, "reclaim") /\ UNCHANGED attempt
                               /\ lease' = [lease EXCEPT ![p] = r.lease]
      BY Zenon, <2>1
    <3>2. r.lease \in LeaseRecord
      BY DEF IInv, TypeOK, Row
    <3>3. attempt' \in [Handler -> 0..(AcquireSubnetLeaseAttempts - 1)] /\ "reclaim" \in Label
      BY Zenon, <3>1 DEF IInv, TypeOK, ControlOK, Label
    <3> QED BY Zenon, <1>1, <1>3, <3>1, <3>2, <3>3, GotoKeeps
  <2>2. CASE TryAgain(p, 409) \/ TryAgain(p, 500)
    BY <1>1, <2>2, TryAgainKeeps
  <2>3. OldestExpired(req[p].single) \subseteq subnets
    BY DEF OldestExpired, AllOfKind
  <2> QED BY <2>1, <2>2, <2>3 DEF SelectOldestExpired
<1> QED BY <1>1, <1>2, <1>4, AtKeeps

LEMMA DeleteExpiredKeeps ==
  ASSUME IInv, NEW p \in Handler, DeleteExpired(p)
  PROVE  IInv'
<1>1. At(p, "reclaim") /\ req' = req /\ pc[p] = "reclaim"
  BY DEF DeleteExpired, At
<1>2. subnets' \subseteq Row /\ UniqueKeys(subnets')
  <2>1. subnets \subseteq Row /\ UniqueKeys(subnets)
    BY DEF IInv, TypeOK
  <2>2. DeleteEntry(lease[p].underlay_ip) \/ UNCHANGED subnets
    BY DEF DeleteExpired
  <2> QED BY <2>1, <2>2, DeleteEntryKeeps
<1>3. req[p] \in [op : {"acquire"}, underlay_ip : Host, single : BOOLEAN]
  BY <1>1, Acquiring
<1>4. ControlOK' /\ \A q \in Handler : Coupled(q)'
  <2> DEFINE l == LeaseFor(req[p].underlay_ip, lease[p].overlay_subnet)
  <2>1. CASE Goto(p, "insert") /\ lease' = [lease EXCEPT ![p] = l] /\ UNCHANGED attempt
    <3>1. lease[p].overlay_subnet \in Subnet
      BY Zenon, <1>1 DEF IInv, Coupled, LeaseRecord
    <3>2. l \in LeaseRecord /\ l.underlay_ip = req[p].underlay_ip
      BY <1>3, <3>1, LeaseForType DEF LeaseFor
    <3>3. attempt' \in [Handler -> 0..(AcquireSubnetLeaseAttempts - 1)] /\ "insert" \in Label
      BY Zenon, <2>1 DEF IInv, TypeOK, ControlOK, Label
    <3> HIDE DEF l
    <3> QED BY Zenon, <1>1, <1>3, <2>1, <3>2, <3>3, GotoKeeps
  <2>2. CASE TryAgain(p, 500)
    BY <1>1, <2>2, TryAgainKeeps
  <2> QED BY <2>1, <2>2 DEF DeleteExpired
<1> QED BY <1>1, <1>2, <1>4, AtKeeps

LEMMA InsertLeaseKeeps ==
  ASSUME IInv, NEW p \in Handler, InsertLease(p)
  PROVE  IInv'
<1>1. At(p, "insert") /\ req' = req /\ pc[p] = "insert"
  BY DEF InsertLease, At
<1>2. lease[p] \in LeaseRecord
  BY Zenon, <1>1 DEF IInv, Coupled
<1>3. subnets' \subseteq Row /\ UniqueKeys(subnets')
  <2>1. subnets \subseteq Row /\ UniqueKeys(subnets) /\ now \in 0..MaxTime
    BY DEF IInv, TypeOK
  <2>2. (MayAdd(lease[p]) /\ AddEntry(lease[p])) \/ UNCHANGED subnets
    BY DEF InsertLease
  <2> QED BY <1>2, <2>1, <2>2, AddEntryKeeps
<1>4. ControlOK' /\ \A q \in Handler : Coupled(q)'
  <2>1. CASE Answer(p, OK(lease[p]))
    BY <1>1, <1>2, <2>1, ReplyTypes, AnswerKeeps
  <2>2. CASE TryAgain(p, 500)
    BY <1>1, <2>2, TryAgainKeeps
  <2> QED BY <2>1, <2>2 DEF InsertLease
<1> QED BY <1>1, <1>3, <1>4, AtKeeps

LEMMA RenewSubnetLeaseKeeps ==
  ASSUME IInv, NEW p \in Handler, NEW u \in Host \cup {Malformed}, NEW s \in PresentedSubnets,
         RenewSubnetLease(p, u, s)
  PROVE  IInv'
<1> DEFINE r == [op |-> "renew", underlay_ip |-> u]
           l == LeaseFor(u, s)
<1>1. r \in Request /\ Receive(p, r)
  BY Zenon DEF Request, RenewSubnetLease
<1>2. req'[p] = r /\ \A q \in Handler \ {p} : req'[q] = req[q]
  BY <1>1, ReceiveKeeps
<1>3. u \in Host => l \in LeaseRecord /\ l.underlay_ip = u
  BY LeaseForType DEF Subnet, LeaseFor
<1>4. subnets' \subseteq Row /\ UniqueKeys(subnets')
  BY Zenon DEF RenewSubnetLease, IInv, TypeOK
<1>5. ControlOK' /\ \A q \in Handler : Coupled(q)'
  <2>1. ASSUME NEW label \in {"renew insert", "renew update"}, u \in Host, Goto(p, label),
               lease' = [lease EXCEPT ![p] = l], UNCHANGED attempt
        PROVE  ControlOK' /\ \A q \in Handler : Coupled(q)'
    <3>1. attempt' \in [Handler -> 0..(AcquireSubnetLeaseAttempts - 1)] /\ label \in Label
      BY Zenon, <2>1 DEF IInv, TypeOK, ControlOK, Label
    <3>2. req'[p].op = "renew" /\ req'[p].underlay_ip = u
      <4>1. r.op = "renew" /\ r.underlay_ip = u
        BY Zenon
      <4> HIDE DEF r
      <4> QED BY Zenon, <1>2, <4>1
    <3>3. label \notin {"delete own", "taken", "oldest", "reclaim", "insert"}
      BY Zenon, <2>1
    <3> HIDE DEF l, r
    <3> QED BY Zenon, <1>2, <1>3, <2>1, <3>1, <3>2, <3>3, GotoKeeps
  <2>2. CASE Answer(p, Status(409)) \/ Answer(p, Status(500))
    <3>1. PICK a \in Reply : Answer(p, a)
      BY <2>2, ReplyTypes
    <3> QED BY <1>2, <3>1, AnswerKeeps
  <2> QED BY Zenon, <2>1, <2>2 DEF RenewSubnetLease
<1> QED BY <1>1, <1>4, <1>5, BeginKeeps

LEMMA RenewInsertKeeps ==
  ASSUME IInv, NEW p \in Handler, RenewInsert(p)
  PROVE  IInv'
<1>1. At(p, "renew insert") /\ req' = req /\ pc[p] = "renew insert"
  BY Zenon DEF RenewInsert, At
<1>2. /\ lease[p] \in LeaseRecord /\ lease[p].underlay_ip = req[p].underlay_ip
      /\ req[p].op = "renew"
  BY Zenon, <1>1 DEF IInv, Coupled
<1>3. subnets' \subseteq Row /\ UniqueKeys(subnets')
  <2>1. subnets \subseteq Row /\ UniqueKeys(subnets) /\ now \in 0..MaxTime
    BY DEF IInv, TypeOK
  <2>2. (MayAdd(lease[p]) /\ AddEntry(lease[p])) \/ UNCHANGED subnets
    BY Zenon DEF RenewInsert
  <2> QED BY <1>2, <2>1, <2>2, AddEntryKeeps
<1>4. ControlOK' /\ \A q \in Handler : Coupled(q)'
  <2>1. CASE Goto(p, "renew update") /\ UNCHANGED <<lease, attempt>>
    BY Zenon, <1>1, <1>2, <2>1, StayKeeps DEF Label
  <2>2. CASE Answer(p, Status(409))
    <3>1. Status(409) \in Reply
      BY ReplyTypes
    <3> QED BY Zenon, <1>1, <2>2, <3>1, AnswerKeeps
  <2> QED BY Zenon, <2>1, <2>2 DEF RenewInsert
<1> QED BY Zenon, <1>1, <1>3, <1>4, AtKeeps

LEMMA RenewUpdateKeeps ==
  ASSUME IInv, NEW p \in Handler, RenewUpdate(p)
  PROVE  IInv'
<1>1. At(p, "renew update") /\ req' = req /\ pc[p] = "renew update"
  BY Zenon DEF RenewUpdate, At
<1>2. /\ lease[p] \in LeaseRecord /\ lease[p].underlay_ip = req[p].underlay_ip
      /\ req[p].op = "renew"
  BY Zenon, <1>1 DEF IInv, Coupled
<1>3. subnets' \subseteq Row /\ UniqueKeys(subnets')
  <2>1. subnets \subseteq Row /\ UniqueKeys(subnets) /\ now \in 0..MaxTime
    BY DEF IInv, TypeOK
  <2>2. RenewLeaseForUnderlayIP(lease[p].underlay_ip) \/ UNCHANGED subnets
    BY Zenon DEF RenewUpdate
  <2> QED BY <2>1, <2>2, RenewKeeps
<1>4. ControlOK' /\ \A q \in Handler : Coupled(q)'
  <2>1. CASE Goto(p, "renew read") /\ UNCHANGED <<lease, attempt>>
    BY Zenon, <1>1, <1>2, <2>1, StayKeeps DEF Label
  <2>2. CASE Answer(p, Status(500))
    <3>1. Status(500) \in Reply
      BY ReplyTypes
    <3> QED BY Zenon, <1>1, <2>2, <3>1, AnswerKeeps
  <2> QED BY Zenon, <2>1, <2>2 DEF RenewUpdate
<1> QED BY Zenon, <1>1, <1>3, <1>4, AtKeeps

LEMMA RenewReadKeeps ==
  ASSUME IInv, NEW p \in Handler, RenewRead(p)
  PROVE  IInv'
<1>1. At(p, "renew read") /\ req' = req /\ pc[p] = "renew read"
  BY Zenon DEF RenewRead, At
<1>2. lease[p] \in LeaseRecord
  BY Zenon, <1>1 DEF IInv, Coupled
<1>3. subnets' \subseteq Row /\ UniqueKeys(subnets')
  BY Zenon DEF RenewRead, IInv, TypeOK
<1>4. ControlOK' /\ \A q \in Handler : Coupled(q)'
  <2>1. PICK r \in Reply : Answer(p, r)
    BY Zenon, <1>2, ReplyTypes DEF RenewRead
  <2> QED BY Zenon, <1>1, <2>1, AnswerKeeps
<1> QED BY Zenon, <1>1, <1>3, <1>4, AtKeeps

LEMMA ReleaseKeeps ==
  ASSUME IInv, NEW p \in Handler, NEW u \in Host \cup {Malformed}, ReleaseSubnetLease(p, u)
  PROVE  IInv'
<1> DEFINE r == [op |-> "release", underlay_ip |-> u]
<1>1. r \in Request /\ Receive(p, r)
  BY DEF Request, ReleaseSubnetLease
<1>2. \A q \in Handler \ {p} : req'[q] = req[q]
  BY <1>1, ReceiveKeeps
<1>3. subnets' \subseteq Row /\ UniqueKeys(subnets')
  <2>1. subnets \subseteq Row /\ UniqueKeys(subnets)
    BY DEF IInv, TypeOK
  <2>2. DeleteEntry(u) \/ UNCHANGED subnets
    BY DEF ReleaseSubnetLease
  <2> QED BY <2>1, <2>2, DeleteEntryKeeps
<1>4. ControlOK' /\ \A q \in Handler : Coupled(q)'
  BY <1>2, ReplyTypes, AnswerKeeps DEF ReleaseSubnetLease
<1> QED BY <1>1, <1>3, <1>4, BeginKeeps

LEMMA RoutableLeasesKeeps ==
  ASSUME IInv, NEW p \in Handler, RoutableLeases(p)
  PROVE  IInv'
<1> DEFINE r == [op |-> "index"]
           active == {x.lease : x \in AllActive(LeaseExpirationSeconds)}
<1>1. r \in Request /\ Receive(p, r)
  BY DEF Request, RoutableLeases
<1>2. \A q \in Handler \ {p} : req'[q] = req[q]
  BY <1>1, ReceiveKeeps
<1>3. subnets' \subseteq Row /\ UniqueKeys(subnets')
  BY DEF RoutableLeases, IInv, TypeOK
<1>4. [status |-> 200, leases |-> active] \in Reply
  <2>1. active \in SUBSET LeaseRecord
    BY DEF AllActive, IInv, TypeOK, Row
  <2> HIDE DEF active
  <2> QED BY <2>1 DEF Reply
<1>5. ControlOK' /\ \A q \in Handler : Coupled(q)'
  BY <1>2, <1>4, ReplyTypes, AnswerKeeps DEF RoutableLeases
<1> QED BY <1>1, <1>3, <1>5, BeginKeeps

LEMMA FinishKeeps ==
  ASSUME IInv, NEW p \in Handler, Finish(p)
  PROVE  IInv'
<1> 0 \in 0..(AcquireSubnetLeaseAttempts - 1) /\ 0 \in 0..MaxTime /\ "idle" \in Label
  BY ControllerAssumption DEF Label
<1>1. TypeOK'
  BY DEF IInv, TypeOK, ControlOK, Finish
<1>2. UniqueKeys(subnets')
  BY DEF IInv, Finish
<1>3. ASSUME NEW q \in Handler PROVE Coupled(q)'
  BY Zenon DEF IInv, TypeOK, ControlOK, Finish, Coupled
<1> QED BY <1>1, <1>2, <1>3 DEF IInv, UniqueKeys

LEMMA TickKeeps ==
  ASSUME IInv, Tick
  PROVE  IInv'
<1>1. now' \in 0..MaxTime
  BY ControllerAssumption DEF IInv, TypeOK, Tick
<1>2. TypeOK'
  BY <1>1 DEF IInv, TypeOK, ControlOK, Tick
<1>3. UniqueKeys(subnets')
  BY DEF IInv, Tick
<1>4. ASSUME NEW q \in Handler PROVE Coupled(q)'
  BY Zenon DEF IInv, Tick, Coupled
<1> QED BY <1>2, <1>3, <1>4 DEF IInv, UniqueKeys

-------------------------------------------------------------------------------
LEMMA InitIInv == Init => IInv
<1> SUFFICES ASSUME Init PROVE IInv
  OBVIOUS
<1> 0 \in 0..(AcquireSubnetLeaseAttempts - 1) /\ 0 \in 0..MaxTime /\ "idle" \in Label
  BY ControllerAssumption DEF Label
<1>1. ASSUME NEW u \in Host, NEW s \in OldSubnets
      PROVE  [lease |-> LeaseFor(u, s), last_renewed_at |-> 0] \in Row
  BY LeaseForType DEF Subnet, Row
<1>2. subnets \subseteq Row
  BY <1>1 DEF Init, OldRows
<1>3. TypeOK
  BY <1>2 DEF Init, TypeOK, ControlOK
<1>4. ASSUME NEW q \in Handler PROVE Coupled(q)
  BY DEF Init, Coupled
<1> QED BY <1>3, <1>4 DEF Init, IInv

LEMMA NextIInv == IInv /\ [Next]_vars => IInv'
<1> SUFFICES ASSUME IInv, [Next]_vars PROVE IInv'
  OBVIOUS
<1>1. ASSUME NEW p \in Handler, Begin(p) PROVE IInv'
  BY <1>1, AcquireKeeps, RenewSubnetLeaseKeeps, ReleaseKeeps, RoutableLeasesKeeps DEF Begin
<1>2. ASSUME NEW p \in Handler, Step(p) PROVE IInv'
  BY <1>2, DeleteOwnKeeps, SelectTakenKeeps, SelectOldestExpiredKeeps, DeleteExpiredKeeps,
     InsertLeaseKeeps, RenewInsertKeeps, RenewUpdateKeeps, RenewReadKeeps DEF Step
<1>3. ASSUME NEW p \in Handler, Deliver(p) \/ Crash(p) PROVE IInv'
  BY <1>3, FinishKeeps DEF Deliver, Crash
<1>4. CASE Tick
  BY <1>4, TickKeeps
<1>5. CASE UNCHANGED vars
  BY Zenon, <1>5 DEF vars, IInv, TypeOK, ControlOK, UniqueKeys, Coupled
<1> QED BY <1>1, <1>2, <1>3, <1>4, <1>5 DEF Next

(* Along every behaviour of the controller the inductive invariant holds. *)
THEOREM Invariance == Spec => []IInv
BY InitIInv, NextIInv, PTL DEF Spec

(* Type correctness of the controller: no statement of a handler, retry,    *)
(* crash or reclaim leaves the table or the locals of a handler outside     *)
(* their types; the attempts never exceed acquireSubnetLeaseAttempts.       *)
THEOREM TypeCorrect == Spec => []TypeOK
<1>1. IInv => TypeOK
  BY DEF IInv
<1> QED BY <1>1, Invariance, PTL

(* No two hosts have overlapping ranges unless a renewal brought in one of  *)
(* the two, whatever CIDRs the renewals present: the UNIQUE keys of the     *)
(* table and the way the pools are cut suffice, without any lock, for any   *)
(* number of handlers on any number of controllers.                         *)
THEOREM LeasesDisjoint == Spec => []DisjointSubnets
<1>1. IInv => DisjointSubnets
  <2> SUFFICES ASSUME IInv, NEW r \in subnets, NEW s \in subnets, r # s
               PROVE  /\ r.lease.underlay_ip # s.lease.underlay_ip
                      /\ r.lease.overlay_hwaddr # s.lease.overlay_hwaddr
                      /\ Overlap(r.lease.overlay_subnet, s.lease.overlay_subnet)
                         => \/ r.lease.overlay_subnet \in Foreign
                            \/ s.lease.overlay_subnet \in Foreign
    BY DEF DisjointSubnets
  <2>1. /\ r.lease.underlay_ip # s.lease.underlay_ip
        /\ r.lease.overlay_subnet # s.lease.overlay_subnet
        /\ r.lease.overlay_hwaddr # s.lease.overlay_hwaddr
    BY DEF IInv, UniqueKeys
  <2>2. r.lease.overlay_subnet \in Subnet /\ s.lease.overlay_subnet \in Subnet
    BY DEF IInv, TypeOK, Row, LeaseRecord
  <2> QED BY <2>1, <2>2, SubnetsDisjoint
<1> QED BY <1>1, Invariance, PTL

(* When hosts present only what they were leased, or what leaseFromVTEPState *)
(* makes of it, the block of a host overlaps no other lease: a single        *)
(* address with the block's prefix length is the first block of the network, *)
(* which is not in the pool.                                                 *)
THEOREM BlocksExclusive ==
  ASSUME PresentedSubnets \subseteq Pool \cup OldSubnets \cup Rebuilt
  PROVE  Spec => []BlockLeaseIsExclusive
<1>1. IInv => BlockLeaseIsExclusive
  <2> SUFFICES ASSUME IInv, NEW r \in subnets, NEW s \in subnets, r # s,
                      r.lease.overlay_subnet \in blockPool
               PROVE  ~ Overlap(r.lease.overlay_subnet, s.lease.overlay_subnet)
    BY DEF BlockLeaseIsExclusive
  <2> DEFINE b == r.lease.overlay_subnet
             t == s.lease.overlay_subnet
  <2>1. b # t
    BY DEF IInv, UniqueKeys
  <2>2. t \in Pool \cup OldSubnets \cup Rebuilt /\ t \in Subnet
    BY DEF IInv, TypeOK, Row, LeaseRecord, Subnet
  <2>3. b \in Pool /\ b \in Subnet /\ b \notin Foreign
    BY SubnetIsCIDR DEF Pool, Foreign
  <2>4. CASE t \in Rebuilt
    <3>1. PICK x \in singlePool : t = [ip |-> x.ip, len |-> SubnetPrefixLength]
      BY <2>4 DEF Rebuilt
    <3>2. IsNetwork(Network.ip, Network.len)
      BY NetworkAssumption, NetworkFits, SizePositive DEF Address
    <3>3. Network.len \in 0..AddrBits /\ SubnetPrefixLength \in Network.len..AddrBits
      BY NetworkAssumption DEF CIDR
    <3> QED BY <3>1, <3>2, <3>3, FirstBlockApart DEF blockPool, singlePool
  <2>5. CASE t \notin Rebuilt
    <3>1. t \notin Foreign
      BY <2>2, <2>5 DEF Foreign
    <3> QED BY <2>1, <2>2, <2>3, <3>1, SubnetsDisjoint
  <2> QED BY <2>4, <2>5
<1> QED BY <1>1, Invariance, PTL

(* What AllActive lists and what the reclaim may select are complementary,  *)
(* to the second, at every moment.                                          *)
THEOREM ExpiryAgrees == Spec => []RoutableXorReclaimable
<1>1. IInv => RoutableXorReclaimable
  <2> SUFFICES ASSUME IInv, NEW r \in subnets
               PROVE  (r \in AllActive(LeaseExpirationSeconds)) # Expired(r)
    BY DEF RoutableXorReclaimable
  <2>1. r.last_renewed_at \in Int /\ now \in Int /\ LeaseExpirationSeconds \in Int
    BY ControllerAssumption DEF IInv, TypeOK, Row
  <2>2. (r.last_renewed_at + LeaseExpirationSeconds > now)
          <=> ~ (r.last_renewed_at + LeaseExpirationSeconds <= now)
    BY <2>1
  <2> QED BY <2>2 DEF AllActive, Expired
<1> QED BY <1>1, Invariance, PTL

-------------------------------------------------------------------------------
(* The controller implements the registry of LeaseRegistry.  Every action   *)
(* leaves the table as it is or executes one INSERT, DELETE or UPDATE; an   *)
(* INSERT that the keys admit is a Grant, because the subnets that may be   *)
(* leased are pairwise disjoint, a DELETE ends the one lease of its host,   *)
(* and an UPDATE does not change who holds what.                            *)

TableStep ==
  \/ UNCHANGED subnets
  \/ \E l \in LeaseRecord : MayAdd(l) /\ AddEntry(l)
  \/ \E u \in Host \cup {Malformed} : DeleteEntry(u)
  \/ \E u \in Host : RenewLeaseForUnderlayIP(u)

LEMMA NextTable ==
  ASSUME IInv, [Next]_vars
  PROVE  TableStep
<1>1. ASSUME NEW p \in Handler, Begin(p) PROVE TableStep
  <2>1. CASE \E u \in Host \cup {Malformed}, single \in BOOLEAN :
               AcquireSubnetLease(p, u, single)
    BY Zenon, <2>1 DEF AcquireSubnetLease, TableStep
  <2>2. CASE \E u \in Host \cup {Malformed}, s \in PresentedSubnets : RenewSubnetLease(p, u, s)
    BY Zenon, <2>2 DEF RenewSubnetLease, TableStep
  <2>3. CASE \E u \in Host \cup {Malformed} : ReleaseSubnetLease(p, u)
    BY <2>3 DEF ReleaseSubnetLease, TableStep
  <2>4. CASE RoutableLeases(p)
    BY <2>4 DEF RoutableLeases, TableStep
  <2> QED BY <1>1, <2>1, <2>2, <2>3, <2>4 DEF Begin
<1>2. ASSUME NEW p \in Handler, Step(p) PROVE TableStep
  <2>1. CASE DeleteOwn(p)
    <3>1. req[p].underlay_ip \in Host
      BY Zenon, <2>1 DEF DeleteOwn, At, IInv, Coupled
    <3> QED BY Zenon, <2>1, <3>1 DEF DeleteOwn, TableStep
  <2>2. CASE SelectTaken(p)
    BY Zenon, <2>2 DEF SelectTaken, TableStep
  <2>3. CASE SelectOldestExpired(p)
    BY <2>3 DEF SelectOldestExpired, TableStep
  <2>4. CASE DeleteExpired(p)
    <3>1. lease[p].underlay_ip \in Host
      BY Zenon, <2>4 DEF DeleteExpired, At, IInv, Coupled, LeaseRecord
    <3> QED BY <2>4, <3>1 DEF DeleteExpired, TableStep
  <2>5. CASE InsertLease(p)
    <3>1. lease[p] \in LeaseRecord
      BY Zenon, <2>5 DEF InsertLease, At, IInv, Coupled
    <3> QED BY <2>5, <3>1 DEF InsertLease, TableStep
  <2>6. CASE RenewInsert(p)
    <3>1. lease[p] \in LeaseRecord
      BY Zenon, <2>6 DEF RenewInsert, At, IInv, Coupled
    <3> QED BY Zenon, <2>6, <3>1 DEF RenewInsert, TableStep
  <2>7. CASE RenewUpdate(p)
    <3>1. lease[p].underlay_ip \in Host
      BY Zenon, <2>7 DEF RenewUpdate, At, IInv, Coupled, LeaseRecord
    <3> QED BY Zenon, <2>7, <3>1 DEF RenewUpdate, TableStep
  <2>8. CASE RenewRead(p)
    BY Zenon, <2>8 DEF RenewRead, TableStep
  <2> QED BY <1>2, <2>1, <2>2, <2>3, <2>4, <2>5, <2>6, <2>7, <2>8 DEF Step
<1>3. ASSUME NEW p \in Handler, Deliver(p) \/ Crash(p) PROVE TableStep
  BY <1>3 DEF Deliver, Crash, Finish, TableStep
<1>4. CASE Tick \/ UNCHANGED vars
  BY <1>4 DEF Tick, vars, TableStep
<1> QED BY <1>1, <1>2, <1>3, <1>4 DEF Next

-------------------------------------------------------------------------------
(* The lease of the registry a row stands for. *)
Entry(r) == [host |-> r.lease.underlay_ip, subnet |-> r.lease.overlay_subnet]

LEMMA EntryFields ==
  \A r : Entry(r).host = r.lease.underlay_ip /\ Entry(r).subnet = r.lease.overlay_subnet
BY DEF Entry

LEMMA HeldIs == held = {Entry(r) : r \in subnets}
BY DEF held, Entry

LEMMA HeldIsPrimed == held' = {Entry(r) : r \in subnets'}
BY DEF held, Entry

(* Different subnets are as far apart as the registry asks. *)
LEMMA KeysApart ==
  ASSUME NEW s \in Subnet, NEW t \in Subnet, s # t
  PROVE  Registry!Apart(s, t)
<1>1. s \notin Foreign /\ t \notin Foreign => ~ Overlap(s, t)
  BY SubnetsDisjoint
<1> QED BY Zenon, <1>1 DEF Registry!Apart, Registry!Overlap, Registry!Contains,
        Registry!Address, Registry!Size, Overlap, Contains, Address, Size

(* An INSERT the keys admit is a Grant. *)
LEMMA AddIsGrant ==
  ASSUME IInv, NEW l \in LeaseRecord, MayAdd(l), AddEntry(l)
  PROVE  Registry!Grant(l.underlay_ip, l.overlay_subnet)
<1>1. ASSUME NEW r \in subnets
      PROVE  /\ r.lease.underlay_ip # l.underlay_ip
             /\ Registry!Apart(r.lease.overlay_subnet, l.overlay_subnet)
  <2>1. r.lease.overlay_subnet \in Subnet /\ l.overlay_subnet \in Subnet
    BY DEF IInv, TypeOK, Row, LeaseRecord
  <2> QED BY <2>1, KeysApart DEF MayAdd
<1>2. Registry!Free(l.underlay_ip, l.overlay_subnet)
  BY <1>1, HeldIs, EntryFields DEF Registry!Free
<1>3. held' = held \cup {[host |-> l.underlay_ip, subnet |-> l.overlay_subnet]}
  <2> DEFINE x == [lease |-> l, last_renewed_at |-> now]
  <2>1. subnets' = subnets \cup {x}
    BY DEF AddEntry
  <2>2. Entry(x) = [host |-> l.underlay_ip, subnet |-> l.overlay_subnet]
    BY DEF Entry
  <2> HIDE DEF x
  <2> QED BY <2>1, <2>2, HeldIs, HeldIsPrimed
<1> QED BY <1>2, <1>3 DEF Registry!Grant

(* A DELETE ends the lease of its host, if there is one. *)
LEMMA DeleteIsEnd ==
  ASSUME IInv, NEW u, DeleteEntry(u)
  PROVE  UNCHANGED held \/ \E l \in held : Registry!End(l)
<1>1. subnets' = subnets \ RowsOf(u)
  BY DEF DeleteEntry
<1>2. CASE RowsOf(u) = {}
  BY <1>1, <1>2, HeldIs, HeldIsPrimed
<1>3. CASE RowsOf(u) # {}
  <2>1. PICK r \in subnets : r.lease.underlay_ip = u
    BY <1>3 DEF RowsOf
  <2>2. RowsOf(u) = {r}
    BY <2>1 DEF RowsOf, IInv, UniqueKeys
  <2>3. \A s \in subnets : s # r => Entry(s) # Entry(r)
    <3>1. \A s \in subnets : s # r => s.lease.underlay_ip # r.lease.underlay_ip
      BY <2>1 DEF IInv, UniqueKeys
    <3> QED BY <3>1, EntryFields
  <2>4. held' = held \ {Entry(r)}
    BY <1>1, <2>1, <2>2, <2>3, HeldIs, HeldIsPrimed
  <2>5. Entry(r) \in held
    BY <2>1, HeldIs
  <2> QED BY <2>4, <2>5 DEF Registry!End
<1> QED BY <1>2, <1>3

(* An UPDATE leaves the holders alone. *)
LEMMA RenewIsStutter ==
  ASSUME IInv, NEW u, RenewLeaseForUnderlayIP(u)
  PROVE  UNCHANGED held
<1> DEFINE f(r) == IF r.lease.underlay_ip = u THEN [r EXCEPT !.last_renewed_at = now] ELSE r
<1>1. subnets' = {f(r) : r \in subnets}
  BY DEF RenewLeaseForUnderlayIP
<1>2. ASSUME NEW r \in subnets PROVE Entry(f(r)) = Entry(r)
  <2>1. r \in Row
    BY DEF IInv, TypeOK
  <2>2. f(r).lease = r.lease
    BY <2>1 DEF Row
  <2> QED BY <2>2 DEF Entry
<1> HIDE DEF f
<1> QED BY <1>1, <1>2, HeldIs, HeldIsPrimed

LEMMA StepRefines == IInv /\ [Next]_vars => [Registry!Next]_held
<1> SUFFICES ASSUME IInv, [Next]_vars PROVE [Registry!Next]_held
  OBVIOUS
<1>1. TableStep
  BY NextTable
<1>2. CASE UNCHANGED subnets
  BY <1>2, HeldIs, HeldIsPrimed
<1>3. ASSUME NEW l \in LeaseRecord, MayAdd(l), AddEntry(l) PROVE [Registry!Next]_held
  <2>1. l.underlay_ip \in Host /\ l.overlay_subnet \in Subnet
    BY DEF LeaseRecord
  <2> QED BY <1>3, <2>1, AddIsGrant DEF Registry!Next
<1>4. ASSUME NEW u, DeleteEntry(u) PROVE [Registry!Next]_held
  BY <1>4, DeleteIsEnd DEF Registry!Next
<1>5. ASSUME NEW u, RenewLeaseForUnderlayIP(u) PROVE [Registry!Next]_held
  BY <1>5, RenewIsStutter
<1> QED BY <1>1, <1>2, <1>3, <1>4, <1>5 DEF TableStep

LEMMA InitRefines == Init => Registry!Init
<1> SUFFICES ASSUME Init PROVE Registry!Init
  OBVIOUS
<1>1. IInv
  BY InitIInv
<1>2. ASSUME NEW r \in subnets
      PROVE  Entry(r) \in [host : Host, subnet : Subnet]
  <2>1. r \in Row
    BY <1>1 DEF IInv, TypeOK
  <2> QED BY <2>1 DEF Entry, Row, LeaseRecord
<1>3. held \subseteq [host : Host, subnet : Subnet]
  BY <1>2, HeldIs
<1>4. ASSUME NEW r \in subnets, NEW s \in subnets, Entry(r) # Entry(s)
      PROVE  /\ Entry(r).host # Entry(s).host
             /\ Registry!Apart(Entry(r).subnet, Entry(s).subnet)
  <2>1. r # s
    BY <1>4
  <2>2. /\ r.lease.underlay_ip # s.lease.underlay_ip
        /\ r.lease.overlay_subnet # s.lease.overlay_subnet
    BY <1>1, <2>1 DEF IInv, UniqueKeys
  <2>3. r.lease.overlay_subnet \in Subnet /\ s.lease.overlay_subnet \in Subnet
    BY <1>1 DEF IInv, TypeOK, Row, LeaseRecord
  <2>4. Registry!Apart(r.lease.overlay_subnet, s.lease.overlay_subnet)
    BY <2>2, <2>3, KeysApart
  <2> QED BY <2>2, <2>4, EntryFields
<1>5. \A l, m \in held : l # m => l.host # m.host /\ Registry!Apart(l.subnet, m.subnet)
  BY <1>4, HeldIs
<1> QED BY <1>3, <1>5 DEF Registry!Init

(* The controller implements LeaseRegistry: its initial tables are initial  *)
(* registries, and every statement of every handler is a grant of a free    *)
(* subnet to a host without lease, the end of one lease, or no change at    *)
(* all to who holds what.                                                   *)
THEOREM RefinesRegistry == Spec => ImplementsRegistry
BY InitRefines, StepRefines, Invariance, PTL
DEF Spec, ImplementsRegistry, Registry!Spec

-------------------------------------------------------------------------------
(* What a 200 answer of the controller is worth: a granted lease is in the  *)
(* table at the moment of the answer, and a renewal is acknowledged only    *)
(* while the table has a lease of the host stamped since the request began. *)
(* Both follow from what each action does to the handler that takes it, to  *)
(* the other handlers and to the rows.                                      *)

(* A handler about to answer a renewal finds only rows of its host that     *)
(* were stamped since its request began.                                    *)
Fresh(p) ==
  /\ started[p] <= now
  /\ pc[p] = "renew read" =>
       \A r \in subnets : r.lease.underlay_ip = lease[p].underlay_ip
                            => r.last_renewed_at >= started[p]

(* The step is p's own. *)
OthersStay(p) ==
  /\ now' = now
  /\ \A q \in Handler \ {p} : /\ pc'[q] = pc[q] /\ lease'[q] = lease[q]
                              /\ started'[q] = started[q]

(* No statement brings in a row that is stamped with a past time. *)
RowsFresh == \A r \in subnets' : r \in subnets \/ r.last_renewed_at = now

Effect(p) ==
  /\ OthersStay(p)
  /\ RowsFresh
  /\ started'[p] \in {started[p], now, 0}
  /\ pc'[p] = "renew read" =>
       /\ started'[p] = started[p]
       /\ \A r \in subnets' : r.lease.underlay_ip = lease'[p].underlay_ip
                                => r.last_renewed_at = now
  /\ Granted(p)
  /\ Fresh(p) => Acked(p)

-------------------------------------------------------------------------------
LEMMA AnswerEffect ==
  ASSUME IInv, NEW p \in Handler, NEW r, Answer(p, r)
  PROVE  /\ pc'[p] = "done" /\ reply'[p] = r
         /\ \A q \in Handler \ {p} : pc'[q] = pc[q] /\ lease'[q] = lease[q]
BY DEF IInv, TypeOK, ControlOK, Answer

LEMMA GotoEffect ==
  ASSUME IInv, NEW p \in Handler, NEW label, Goto(p, label)
  PROVE  pc'[p] = label /\ \A q \in Handler \ {p} : pc'[q] = pc[q]
BY DEF IInv, TypeOK, ControlOK, Goto

LEMMA TryAgainEffect ==
  ASSUME IInv, NEW p \in Handler, NEW status \in {409, 500}, TryAgain(p, status)
  PROVE  /\ \/ pc'[p] = "taken"
            \/ pc'[p] = "done" /\ reply'[p] = Status(status)
         /\ \A q \in Handler \ {p} : pc'[q] = pc[q] /\ lease'[q] = lease[q]
<1>1. CASE attempt[p] + 1 < AcquireSubnetLeaseAttempts
  BY <1>1, GotoEffect DEF TryAgain, IInv, TypeOK, ControlOK
<1>2. CASE ~ (attempt[p] + 1 < AcquireSubnetLeaseAttempts)
  BY <1>2, AnswerEffect DEF TryAgain
<1> QED BY <1>1, <1>2

LEMMA StatusValue ==
  /\ \A n : Status(n).status = n
  /\ \A l : OK(l).status = 200 /\ OK(l).lease = l
BY DEF Status, OK

LEMMA ReceiveEffect ==
  ASSUME IInv, NEW p \in Handler, NEW r, Receive(p, r)
  PROVE  /\ now' = now /\ req'[p] = r /\ started'[p] = now
         /\ \A q \in Handler \ {p} : started'[q] = started[q]
BY DEF IInv, TypeOK, Receive

(* A step that answers with an error, or goes on, proves nothing wrong. *)
LEMMA SilentEffect ==
  ASSUME IInv, NEW p \in Handler, OthersStay(p), RowsFresh,
         started'[p] \in {started[p], now, 0},
         \/ pc'[p] \notin {"done", "renew read"}
         \/ pc'[p] = "done" /\ reply'[p] \in {Status(409), Status(500)}
  PROVE  Effect(p)
<1>1. pc'[p] = "done" => reply'[p].status # 200
  BY StatusValue
<1> QED BY Zenon, <1>1 DEF Effect, Granted, Acked

LEMMA DeleteRowsFresh ==
  ASSUME NEW u, DeleteEntry(u) PROVE RowsFresh
BY DEF DeleteEntry, RowsFresh

LEMMA SameRowsFresh ==
  ASSUME UNCHANGED subnets PROVE RowsFresh
BY DEF RowsFresh

LEMMA AddRowsFresh ==
  ASSUME NEW l, AddEntry(l) PROVE RowsFresh
BY DEF AddEntry, RowsFresh

-------------------------------------------------------------------------------
LEMMA AcquireEffect ==
  ASSUME IInv, NEW p \in Handler, NEW u \in Host \cup {Malformed}, NEW single \in BOOLEAN,
         AcquireSubnetLease(p, u, single)
  PROVE  Effect(p)
<1> DEFINE r == [op |-> "acquire", underlay_ip |-> u, single |-> single]
<1>1. /\ now' = now /\ req'[p] = r /\ started'[p] = now
      /\ \A q \in Handler \ {p} : started'[q] = started[q]
  BY Zenon, ReceiveEffect DEF AcquireSubnetLease
<1>2. UNCHANGED subnets /\ RowsFresh
  BY Zenon, SameRowsFresh DEF AcquireSubnetLease
<1>3. ASSUME NEW label \in {"taken", "delete own"}, Goto(p, label), UNCHANGED <<lease, attempt>>
      PROVE  Effect(p)
  <2>1. OthersStay(p) /\ pc'[p] = label
    BY Zenon, <1>1, <1>3, GotoEffect DEF OthersStay
  <2> QED BY ONLY Zenon, IInv, p \in Handler, <1>1, <1>2, <1>3, <2>1, SilentEffect
<1>4. CASE Answer(p, Status(500))
  <2>1. OthersStay(p) /\ pc'[p] = "done" /\ reply'[p] = Status(500)
    BY <1>1, <1>4, AnswerEffect DEF OthersStay
  <2> QED BY ONLY Zenon, IInv, p \in Handler, <1>1, <1>2, <2>1, SilentEffect
<1>5. ASSUME NEW x \in RowsOf(u), Answer(p, OK(x.lease)) PROVE Effect(p)
  <2>1. OthersStay(p) /\ reply'[p] = OK(x.lease) /\ pc'[p] = "done"
    BY <1>1, <1>5, AnswerEffect DEF OthersStay
  <2>2. req'[p].op # "renew" /\ req'[p].underlay_ip = u
    <3>1. r.op # "renew" /\ r.underlay_ip = u
      OBVIOUS
    <3> QED BY <1>1, <3>1
  <2>3. x \in subnets' /\ x.lease.underlay_ip = u /\ reply'[p].lease = x.lease
    BY <1>2, <2>1, StatusValue DEF RowsOf
  <2>4. Granted(p) /\ Acked(p)
    BY <2>2, <2>3 DEF Granted, Acked
  <2> QED BY <1>1, <1>2, <2>1, <2>4 DEF Effect
<1> QED BY Zenon, <1>3, <1>4, <1>5 DEF AcquireSubnetLease

(* A later statement that does not answer 200 and is not the renewal's      *)
(* UPDATE.                                                                  *)
LEMMA AtSilentEffect ==
  ASSUME IInv, NEW p \in Handler, NEW label, At(p, label), RowsFresh,
         \A q \in Handler \ {p} : pc'[q] = pc[q] /\ lease'[q] = lease[q],
         \/ pc'[p] \notin {"done", "renew read"}
         \/ pc'[p] = "done" /\ reply'[p] \in {Status(409), Status(500)}
  PROVE  Effect(p)
<1>1. OthersStay(p) /\ started'[p] = started[p]
  BY Zenon DEF At, OthersStay
<1> QED BY Zenon, <1>1, SilentEffect

LEMMA TryAgainSilent ==
  ASSUME IInv, NEW p \in Handler, NEW label, At(p, label), RowsFresh,
         NEW status \in {409, 500}, TryAgain(p, status)
  PROVE  Effect(p)
<1>1. \A q \in Handler \ {p} : pc'[q] = pc[q] /\ lease'[q] = lease[q]
  BY TryAgainEffect
<1>2. \/ pc'[p] = "taken"
      \/ pc'[p] = "done" /\ reply'[p] \in {Status(409), Status(500)}
  BY TryAgainEffect
<1> QED BY Zenon, <1>1, <1>2, AtSilentEffect

LEMMA ErrorSilent ==
  ASSUME IInv, NEW p \in Handler, NEW label, At(p, label), RowsFresh,
         NEW status \in {409, 500}, Answer(p, Status(status))
  PROVE  Effect(p)
<1>1. /\ pc'[p] = "done" /\ reply'[p] \in {Status(409), Status(500)}
      /\ \A q \in Handler \ {p} : pc'[q] = pc[q] /\ lease'[q] = lease[q]
  BY AnswerEffect
<1> QED BY Zenon, <1>1, AtSilentEffect

LEMMA GotoSilent ==
  ASSUME IInv, NEW p \in Handler, NEW label, At(p, label), RowsFresh,
         NEW next \in Label \ {"done", "renew read"}, Goto(p, next),
         \A q \in Handler \ {p} : lease'[q] = lease[q]
  PROVE  Effect(p)
<1>1. pc'[p] = next /\ \A q \in Handler \ {p} : pc'[q] = pc[q]
  BY Zenon, GotoEffect
<1> QED BY Zenon, <1>1, AtSilentEffect

LEMMA DeleteOwnEffect ==
  ASSUME IInv, NEW p \in Handler, DeleteOwn(p)
  PROVE  Effect(p)
<1>1. At(p, "delete own")
  BY Zenon DEF DeleteOwn
<1>2. RowsFresh
  BY Zenon, DeleteRowsFresh, SameRowsFresh DEF DeleteOwn
<1>3. CASE Goto(p, "taken") /\ UNCHANGED <<lease, attempt>>
  BY Zenon, <1>1, <1>2, <1>3, GotoSilent DEF Label
<1>4. CASE Answer(p, Status(500))
  BY Zenon, <1>1, <1>2, <1>4, ErrorSilent
<1> QED BY Zenon, <1>3, <1>4 DEF DeleteOwn

LEMMA SelectTakenEffect ==
  ASSUME IInv, NEW p \in Handler, SelectTaken(p)
  PROVE  Effect(p)
<1>1. At(p, "taken")
  BY DEF SelectTaken
<1>2. RowsFresh
  BY SameRowsFresh DEF SelectTaken
<1>3. CASE Goto(p, "oldest") /\ UNCHANGED <<lease, attempt>>
  BY Zenon, <1>1, <1>2, <1>3, GotoSilent DEF Label
<1>4. ASSUME NEW l, Goto(p, "insert"), lease' = [lease EXCEPT ![p] = l] PROVE Effect(p)
  <2>1. \A q \in Handler \ {p} : lease'[q] = lease[q]
    BY <1>4 DEF IInv, TypeOK, ControlOK
  <2> QED BY Zenon, <1>1, <1>2, <1>4, <2>1, GotoSilent DEF Label
<1>5. CASE TryAgain(p, 500)
  BY <1>1, <1>2, <1>5, TryAgainSilent
<1> QED BY Zenon, <1>3, <1>4, <1>5 DEF SelectTaken

LEMMA SelectOldestExpiredEffect ==
  ASSUME IInv, NEW p \in Handler, SelectOldestExpired(p)
  PROVE  Effect(p)
<1>1. At(p, "oldest")
  BY DEF SelectOldestExpired
<1>2. RowsFresh
  BY SameRowsFresh DEF SelectOldestExpired
<1>3. ASSUME NEW l, Goto(p, "reclaim"), lease' = [lease EXCEPT ![p] = l] PROVE Effect(p)
  <2>1. \A q \in Handler \ {p} : lease'[q] = lease[q]
    BY <1>3 DEF IInv, TypeOK, ControlOK
  <2> QED BY Zenon, <1>1, <1>2, <1>3, <2>1, GotoSilent DEF Label
<1>4. CASE TryAgain(p, 409) \/ TryAgain(p, 500)
  BY <1>1, <1>2, <1>4, TryAgainSilent
<1> QED BY <1>3, <1>4 DEF SelectOldestExpired

LEMMA DeleteExpiredEffect ==
  ASSUME IInv, NEW p \in Handler, DeleteExpired(p)
  PROVE  Effect(p)
<1>1. At(p, "reclaim")
  BY DEF DeleteExpired
<1>2. RowsFresh
  BY DeleteRowsFresh, SameRowsFresh DEF DeleteExpired
<1>3. ASSUME NEW l, Goto(p, "insert"), lease' = [lease EXCEPT ![p] = l] PROVE Effect(p)
  <2>1. \A q \in Handler \ {p} : lease'[q] = lease[q]
    BY <1>3 DEF IInv, TypeOK, ControlOK
  <2> QED BY Zenon, <1>1, <1>2, <1>3, <2>1, GotoSilent DEF Label
<1>4. CASE TryAgain(p, 500)
  BY <1>1, <1>2, <1>4, TryAgainSilent
<1> QED BY <1>3, <1>4 DEF DeleteExpired

(* The one statement whose success grants a new lease. *)
LEMMA InsertLeaseEffect ==
  ASSUME IInv, NEW p \in Handler, InsertLease(p)
  PROVE  Effect(p)
<1>1. At(p, "insert") /\ pc[p] = "insert" /\ req' = req /\ started' = started /\ now' = now
  BY DEF InsertLease, At
<1>2. RowsFresh
  BY AddRowsFresh, SameRowsFresh DEF InsertLease
<1>3. CASE TryAgain(p, 500)
  BY <1>1, <1>2, <1>3, TryAgainSilent
<1>4. CASE AddEntry(lease[p]) /\ Answer(p, OK(lease[p]))
  <2>1. /\ pc'[p] = "done" /\ reply'[p] = OK(lease[p])
        /\ \A q \in Handler \ {p} : pc'[q] = pc[q] /\ lease'[q] = lease[q]
    BY <1>4, AnswerEffect
  <2>2. req'[p].op = "acquire" /\ lease[p].underlay_ip = req'[p].underlay_ip
    BY Zenon, <1>1 DEF IInv, Coupled
  <2>3. \E r \in subnets' : r.lease = lease[p]
    <3>1. [lease |-> lease[p], last_renewed_at |-> now] \in subnets'
      BY <1>4 DEF AddEntry
    <3> QED BY <3>1
  <2>4. reply'[p].lease = lease[p]
    BY <2>1, StatusValue
  <2>5. Granted(p) /\ Acked(p)
    BY <2>2, <2>3, <2>4 DEF Granted, Acked
  <2>6. OthersStay(p)
    BY <1>1, <2>1 DEF OthersStay
  <2> QED BY <1>1, <1>2, <2>1, <2>5, <2>6 DEF Effect
<1> QED BY <1>3, <1>4 DEF InsertLease

LEMMA RenewSubnetLeaseEffect ==
  ASSUME IInv, NEW p \in Handler, NEW u \in Host \cup {Malformed}, NEW s \in PresentedSubnets,
         RenewSubnetLease(p, u, s)
  PROVE  Effect(p)
<1>1. /\ now' = now /\ started'[p] = now
      /\ \A q \in Handler \ {p} : started'[q] = started[q]
  BY Zenon, ReceiveEffect DEF RenewSubnetLease
<1>2. RowsFresh
  BY Zenon, SameRowsFresh DEF RenewSubnetLease
<1>3. ASSUME NEW label \in {"renew insert", "renew update"}, NEW l, Goto(p, label),
             lease' = [lease EXCEPT ![p] = l]
      PROVE  Effect(p)
  <2>1. \A q \in Handler \ {p} : lease'[q] = lease[q]
    BY Zenon, <1>3 DEF IInv, TypeOK, ControlOK
  <2>2. OthersStay(p) /\ pc'[p] = label
    BY Zenon, <1>1, <1>3, <2>1, GotoEffect DEF OthersStay
  <2> QED BY ONLY Zenon, IInv, p \in Handler, <1>1, <1>2, <1>3, <2>2, SilentEffect
<1>4. ASSUME NEW n \in {409, 500}, Answer(p, Status(n)) PROVE Effect(p)
  <2>1. OthersStay(p) /\ pc'[p] = "done" /\ reply'[p] \in {Status(409), Status(500)}
    BY <1>1, <1>4, AnswerEffect DEF OthersStay
  <2> QED BY ONLY Zenon, IInv, p \in Handler, <1>1, <1>2, <2>1, SilentEffect
<1>5. \/ /\ Goto(p, "renew insert") \/ Goto(p, "renew update")
         /\ lease' = [lease EXCEPT ![p] = LeaseFor(u, s)]
      \/ Answer(p, Status(409)) \/ Answer(p, Status(500))
  BY Zenon DEF RenewSubnetLease
<1>6. CASE Answer(p, Status(409)) \/ Answer(p, Status(500))
  BY ONLY <1>4, <1>6
<1>7. CASE /\ Goto(p, "renew insert") \/ Goto(p, "renew update")
           /\ lease' = [lease EXCEPT ![p] = LeaseFor(u, s)]
  BY <1>3, <1>7, Zenon
<1> QED BY <1>5, <1>6, <1>7, Zenon

LEMMA RenewInsertEffect ==
  ASSUME IInv, NEW p \in Handler, RenewInsert(p)
  PROVE  Effect(p)
<1>1. At(p, "renew insert")
  BY Zenon DEF RenewInsert
<1>2. RowsFresh
  BY Zenon, AddRowsFresh, SameRowsFresh DEF RenewInsert
<1>3. CASE Goto(p, "renew update") /\ UNCHANGED <<lease, attempt>>
  BY Zenon, <1>1, <1>2, <1>3, GotoSilent DEF Label
<1>4. CASE Answer(p, Status(409))
  BY Zenon, <1>1, <1>2, <1>4, ErrorSilent
<1> QED BY Zenon, <1>3, <1>4 DEF RenewInsert

(* After the UPDATE every row of the host carries the present time. *)
LEMMA UpdateStamps ==
  ASSUME IInv, NEW u, RenewLeaseForUnderlayIP(u)
  PROVE  /\ RowsFresh
         /\ \A r \in subnets' : r.lease.underlay_ip = u => r.last_renewed_at = now
<1>1. ASSUME NEW x \in subnets'
      PROVE  \/ x \in subnets /\ x.lease.underlay_ip # u
             \/ x.last_renewed_at = now
  <2>1. PICK r \in subnets :
          x = IF r.lease.underlay_ip = u THEN [r EXCEPT !.last_renewed_at = now] ELSE r
    BY DEF RenewLeaseForUnderlayIP
  <2>2. r \in Row
    BY DEF IInv, TypeOK
  <2> QED BY <2>1, <2>2 DEF Row
<1> QED BY <1>1 DEF RowsFresh

LEMMA RenewUpdateEffect ==
  ASSUME IInv, NEW p \in Handler, RenewUpdate(p)
  PROVE  Effect(p)
<1>1. At(p, "renew update") /\ started' = started /\ now' = now
  BY Zenon DEF RenewUpdate, At
<1>2. RowsFresh
  BY Zenon, UpdateStamps, SameRowsFresh DEF RenewUpdate
<1>3. CASE Answer(p, Status(500))
  BY Zenon, <1>1, <1>2, <1>3, ErrorSilent
<1>4. CASE /\ RenewLeaseForUnderlayIP(lease[p].underlay_ip)
           /\ Goto(p, "renew read") /\ UNCHANGED <<lease, attempt>>
  <2>1. pc'[p] = "renew read" /\ OthersStay(p)
    BY Zenon, <1>1, <1>4, GotoEffect DEF OthersStay
  <2>2. \A r \in subnets' : r.lease.underlay_ip = lease'[p].underlay_ip
                              => r.last_renewed_at = now
    BY Zenon, <1>4, UpdateStamps
  <2> QED BY Zenon, <1>1, <1>2, <2>1, <2>2 DEF Effect, Granted, Acked
<1> QED BY Zenon, <1>3, <1>4 DEF RenewUpdate

(* The one statement whose success acknowledges a renewal. *)
LEMMA RenewReadEffect ==
  ASSUME IInv, NEW p \in Handler, RenewRead(p)
  PROVE  Effect(p)
<1>1. /\ At(p, "renew read") /\ pc[p] = "renew read"
      /\ req' = req /\ started' = started /\ now' = now /\ subnets' = subnets
  BY Zenon DEF RenewRead, At
<1>2. RowsFresh
  BY Zenon, <1>1, SameRowsFresh
<1>3. CASE Answer(p, Status(500))
  BY Zenon, <1>1, <1>2, <1>3, ErrorSilent
<1>4. CASE RowsOf(lease[p].underlay_ip) # {} /\ Answer(p, OK(lease[p]))
  <2>1. /\ pc'[p] = "done"
        /\ \A q \in Handler \ {p} : pc'[q] = pc[q] /\ lease'[q] = lease[q]
    BY <1>4, AnswerEffect
  <2>2. req'[p].op = "renew" /\ lease[p].underlay_ip = req'[p].underlay_ip
    BY Zenon, <1>1 DEF IInv, Coupled
  <2>3. PICK r \in subnets : r.lease.underlay_ip = lease[p].underlay_ip
    BY <1>4 DEF RowsOf
  <2>4. Fresh(p) => r.last_renewed_at >= started[p]
    BY Zenon, <1>1, <2>3 DEF Fresh
  <2>5. Granted(p) /\ (Fresh(p) => Acked(p))
    BY Zenon, <1>1, <2>2, <2>3, <2>4 DEF Granted, Acked
  <2>6. OthersStay(p)
    BY Zenon, <1>1, <2>1 DEF OthersStay
  <2> QED BY Zenon, <1>1, <1>2, <2>1, <2>5, <2>6 DEF Effect
<1> QED BY Zenon, <1>3, <1>4 DEF RenewRead

LEMMA ReleaseEffect ==
  ASSUME IInv, NEW p \in Handler, NEW u \in Host \cup {Malformed}, ReleaseSubnetLease(p, u)
  PROVE  Effect(p)
<1> DEFINE r == [op |-> "release", underlay_ip |-> u]
<1>1. /\ now' = now /\ req'[p] = r /\ started'[p] = now
      /\ \A q \in Handler \ {p} : started'[q] = started[q]
  BY ReceiveEffect DEF ReleaseSubnetLease
<1>2. RowsFresh
  BY DeleteRowsFresh, SameRowsFresh DEF ReleaseSubnetLease
<1>3. req'[p].op \notin {"acquire", "renew"}
  <2>1. r.op \notin {"acquire", "renew"}
    OBVIOUS
  <2> QED BY <1>1, <2>1
<1>4. pc'[p] = "done" /\ OthersStay(p)
  BY <1>1, AnswerEffect DEF ReleaseSubnetLease, OthersStay
<1> HIDE DEF r
<1> QED BY <1>1, <1>2, <1>3, <1>4 DEF Effect, Granted, Acked

LEMMA RoutableLeasesEffect ==
  ASSUME IInv, NEW p \in Handler, RoutableLeases(p)
  PROVE  Effect(p)
<1> DEFINE r == [op |-> "index"]
<1>1. /\ now' = now /\ req'[p] = r /\ started'[p] = now
      /\ \A q \in Handler \ {p} : started'[q] = started[q]
  BY ReceiveEffect DEF RoutableLeases
<1>2. RowsFresh
  BY SameRowsFresh DEF RoutableLeases
<1>3. req'[p].op \notin {"acquire", "renew"}
  <2>1. r.op \notin {"acquire", "renew"}
    OBVIOUS
  <2> QED BY <1>1, <2>1
<1>4. pc'[p] = "done" /\ OthersStay(p)
  BY <1>1, AnswerEffect DEF RoutableLeases, OthersStay
<1> HIDE DEF r
<1> QED BY <1>1, <1>2, <1>3, <1>4 DEF Effect, Granted, Acked

LEMMA FinishEffect ==
  ASSUME IInv, NEW p \in Handler, Finish(p)
  PROVE  Effect(p)
<1>1. OthersStay(p) /\ pc'[p] = "idle" /\ started'[p] = 0
  BY DEF IInv, TypeOK, ControlOK, Finish, OthersStay
<1>2. RowsFresh
  BY SameRowsFresh DEF Finish
<1> QED BY Zenon, <1>1, <1>2, SilentEffect

LEMMA NextEffect ==
  ASSUME IInv, Next
  PROVE  Tick \/ \E p \in Handler : Effect(p)
<1>1. ASSUME NEW p \in Handler, Begin(p) PROVE Effect(p)
  BY <1>1, AcquireEffect, RenewSubnetLeaseEffect, ReleaseEffect, RoutableLeasesEffect DEF Begin
<1>2. ASSUME NEW p \in Handler, Step(p) PROVE Effect(p)
  BY <1>2, DeleteOwnEffect, SelectTakenEffect, SelectOldestExpiredEffect, DeleteExpiredEffect,
     InsertLeaseEffect, RenewInsertEffect, RenewUpdateEffect, RenewReadEffect DEF Step
<1>3. ASSUME NEW p \in Handler, Deliver(p) \/ Crash(p) PROVE Effect(p)
  BY <1>3, FinishEffect DEF Deliver, Crash
<1> QED BY <1>1, <1>2, <1>3 DEF Next

-------------------------------------------------------------------------------
LEMMA FreshKept ==
  ASSUME IInv, [Next]_vars, \A p \in Handler : Fresh(p)
  PROVE  \A p \in Handler : Fresh(p)'
<1> SUFFICES ASSUME NEW q \in Handler PROVE Fresh(q)'
  OBVIOUS
<1> now \in Int /\ started[q] \in Int /\ \A r \in subnets : r.last_renewed_at \in Int
  BY DEF IInv, TypeOK, Row
<1>1. CASE Tick
  <2>1. now' = now + 1 /\ UNCHANGED <<subnets, pc, lease, started>>
    BY <1>1 DEF Tick
  <2>2. started[q] <= now
    BY Zenon DEF Fresh
  <2>3. started'[q] <= now'
    BY <2>1, <2>2
  <2> QED BY Zenon, <2>1, <2>3 DEF Fresh
<1>2. CASE UNCHANGED vars
  BY Zenon, <1>2 DEF vars, Fresh
<1>3. ASSUME NEW p \in Handler, Effect(p) PROVE Fresh(q)'
  <2>1. CASE q = p
    <3>1. started'[q] <= now'
      <4>1. started'[q] \in {started[q], now, 0} /\ now' = now /\ started[q] <= now
        BY Zenon, <1>3, <2>1 DEF Effect, OthersStay, Fresh
      <4>2. now \in 0..MaxTime /\ MaxTime \in Nat
        BY ControllerAssumption DEF IInv, TypeOK
      <4> QED BY <4>1, <4>2
    <3> QED BY Zenon, <1>3, <2>1, <3>1 DEF Effect, OthersStay, Fresh
  <2>2. CASE q # p
    BY Zenon, <1>3, <2>2 DEF Effect, OthersStay, RowsFresh, Fresh
  <2> QED BY <2>1, <2>2
<1> QED BY <1>1, <1>2, <1>3, NextEffect

(* A lease that an acquire answers with is in the table, for that host, at  *)
(* the moment of the answer, whatever handlers raced for the subnet.        *)
THEOREM GrantsBacked == Spec => GrantIsBacked
<1>1. IInv /\ [Next]_vars => \A p \in Handler : Granted(p)
  <2> SUFFICES ASSUME IInv, [Next]_vars, NEW q \in Handler PROVE Granted(q)
    OBVIOUS
  <2>1. CASE Tick \/ UNCHANGED vars
    BY <2>1 DEF Tick, vars, Granted
  <2>2. ASSUME NEW p \in Handler, Effect(p) PROVE Granted(q)
    <3>1. CASE q = p
      BY Zenon, <2>2, <3>1 DEF Effect
    <3>2. CASE q # p
      <4>1. pc'[q] = pc[q]
        BY Zenon, <2>2, <3>2 DEF Effect, OthersStay
      <4> QED BY <4>1 DEF Granted
    <3> QED BY <3>1, <3>2
  <2> QED BY <2>1, <2>2, NextEffect
<1> QED BY <1>1, Invariance, PTL DEF Spec, GrantIsBacked

(* A renewal is acknowledged only if the table has a lease of the host      *)
(* stamped no earlier than the request began.                               *)
THEOREM RenewalsBacked == Spec => RenewAckBacked
<1> DEFINE AllFresh == \A p \in Handler : Fresh(p)
<1>1. Init => AllFresh
  BY DEF Init, Fresh
<1>2. IInv /\ AllFresh /\ [Next]_vars => AllFresh'
  BY FreshKept
<1>3. IInv /\ AllFresh /\ [Next]_vars => \A p \in Handler : Acked(p)
  <2> SUFFICES ASSUME IInv, AllFresh, [Next]_vars, NEW q \in Handler PROVE Acked(q)
    OBVIOUS
  <2>1. CASE Tick \/ UNCHANGED vars
    BY <2>1 DEF Tick, vars, Acked
  <2>2. ASSUME NEW p \in Handler, Effect(p) PROVE Acked(q)
    <3>1. CASE q = p
      BY Zenon, <2>2, <3>1 DEF Effect
    <3>2. CASE q # p
      <4>1. pc'[q] = pc[q]
        BY Zenon, <2>2, <3>2 DEF Effect, OthersStay
      <4> QED BY <4>1 DEF Acked
    <3> QED BY <3>1, <3>2
  <2> QED BY <2>1, <2>2, NextEffect
<1> QED BY <1>1, <1>2, <1>3, Invariance, PTL DEF Spec, RenewAckBacked
-------------------------------------------------------------------------------
(* What the controller keeps of its promises when what breaks them is taken *)
(* away: a table left by another network, a second handler.                 *)

LEMMA PoolInNetwork ==
  ASSUME NEW s \in Pool
  PROVE  Contains(Network, s.ip)
<1>1. IsNetwork(Network.ip, Network.len)
  BY NetworkAssumption, NetworkFits, SizePositive DEF Address
<1>2. Network.len \in 0..AddrBits /\ SubnetPrefixLength \in Network.len..AddrBits
  BY NetworkAssumption DEF CIDR
<1>3. s.ip \in Address /\ Contains(s, s.ip)
  BY SubnetIsCIDR DEF CIDR, Contains
<1>4. Contains([ip |-> Network.ip, len |-> Network.len], s.ip)
  BY <1>1, <1>2, <1>3, PoolsCoverNetwork DEF Pool, blockPool, singlePool
<1> QED BY <1>4 DEF Contains

(* With no lease of another network in the table or in a renewal, what an   *)
(* acquire hands out is in the network of the controller, whoever renews or *)
(* races for it.                                                            *)
THEOREM AcquiresInNetwork ==
  ASSUME OldSubnets = {}, PresentedSubnets \subseteq Pool \cup Rebuilt
  PROVE  Spec => AcquiredInNetwork
<1> DEFINE InNetwork(p) ==
      (/\ pc'[p] = "done" /\ pc[p] # "done"
       /\ req'[p].op = "acquire" /\ reply'[p].status = 200)
      => Contains(Network, reply'[p].lease.overlay_subnet.ip)
<1>1. IInv' /\ (\A p \in Handler : Granted(p)) => \A p \in Handler : InNetwork(p)
  <2> SUFFICES ASSUME IInv', NEW p \in Handler, Granted(p),
                      pc'[p] = "done", pc[p] # "done",
                      req'[p].op = "acquire", reply'[p].status = 200
               PROVE  Contains(Network, reply'[p].lease.overlay_subnet.ip)
    OBVIOUS
  <2>1. PICK r \in subnets' : r.lease = reply'[p].lease
    BY Zenon DEF Granted
  <2>2. r.lease.overlay_subnet \in Subnet
    BY DEF IInv, TypeOK, Row, LeaseRecord
  <2>3. PICK s \in Pool : reply'[p].lease.overlay_subnet.ip = s.ip
    BY <2>1, <2>2 DEF Subnet, Rebuilt, Pool
  <2> QED BY <2>3, PoolInNetwork DEF Contains
<1>2. IInv' /\ [\A p \in Handler : Granted(p)]_vars => [\A p \in Handler : InNetwork(p)]_vars
  BY <1>1
<1> QED BY <1>2, Invariance, GrantsBacked, PTL DEF GrantIsBacked, AcquiredInNetwork

-------------------------------------------------------------------------------
(* The lease a handler is about to delete has expired. *)
VictimExpired(p) ==
  pc[p] = "reclaim" =>
    \A r \in subnets : r.lease.underlay_ip = lease[p].underlay_ip => Expired(r)

(* The victim is chosen, or the clock moves, or the handler is elsewhere. *)
Chooses(p) ==
  \/ pc'[p] # "reclaim"
  \/ UNCHANGED <<subnets, now>> /\ \E r \in subnets : Expired(r) /\ lease'[p] = r.lease
  \/ UNCHANGED <<subnets, pc, lease>> /\ now' \in {now, now + 1}

Reclaims(p) ==
  pc[p] = "reclaim" /\ pc'[p] # "reclaim" =>
    \A r \in subnets \ subnets' : r.lease.underlay_ip = lease[p].underlay_ip

LEMMA BeginChooses ==
  ASSUME IInv, NEW p \in Handler, Begin(p)
  PROVE  Chooses(p) /\ Reclaims(p)
<1>1. pc[p] # "reclaim"
  BY Zenon DEF Begin, AcquireSubnetLease, RenewSubnetLease, ReleaseSubnetLease, RoutableLeases,
     Receive
<1>2. pc'[p] \in {"taken", "delete own", "renew insert", "renew update", "done"}
  <2>1. ASSUME NEW r, Answer(p, r) PROVE pc'[p] = "done"
    BY <2>1, AnswerEffect
  <2>2. ASSUME NEW label, Goto(p, label) PROVE pc'[p] = label
    BY <2>2, GotoEffect
  <2> QED BY Zenon, <2>1, <2>2 DEF Begin, AcquireSubnetLease, RenewSubnetLease,
          ReleaseSubnetLease, RoutableLeases
<1> QED BY Zenon, <1>1, <1>2 DEF Chooses, Reclaims

LEMMA StepChooses ==
  ASSUME IInv, NEW p \in Handler, Step(p)
  PROVE  Chooses(p) /\ Reclaims(p)
<1>1. ASSUME NEW r, Answer(p, r) PROVE pc'[p] = "done"
  BY <1>1, AnswerEffect
<1>2. ASSUME NEW label, Goto(p, label) PROVE pc'[p] = label
  BY <1>2, GotoEffect
<1>3. ASSUME NEW status \in {409, 500}, TryAgain(p, status) PROVE pc'[p] \in {"taken", "done"}
  BY <1>3, TryAgainEffect
<1>4. 409 \in {409, 500} /\ 500 \in {409, 500}
  OBVIOUS
<1>5. CASE SelectOldestExpired(p)
  <2>1. pc[p] = "oldest" /\ UNCHANGED <<subnets, now>>
    BY Zenon, <1>5 DEF SelectOldestExpired, At
  <2>2. CASE \E r \in OldestExpired(req[p].single) : lease' = [lease EXCEPT ![p] = r.lease]
    <3>1. PICK r \in OldestExpired(req[p].single) : lease' = [lease EXCEPT ![p] = r.lease]
      BY <2>2
    <3>2. r \in subnets /\ Expired(r) /\ lease'[p] = r.lease
      BY <3>1 DEF OldestExpired, AllOfKind, IInv, TypeOK, ControlOK
    <3> QED BY Zenon, <2>1, <3>2 DEF Chooses, Reclaims
  <2>3. CASE TryAgain(p, 409) \/ TryAgain(p, 500)
    BY Zenon, <1>3, <1>4, <2>1, <2>3 DEF Chooses, Reclaims
  <2> QED BY Zenon, <1>5, <2>2, <2>3 DEF SelectOldestExpired
<1>6. CASE DeleteExpired(p)
  <2>1. pc'[p] \in {"insert", "taken", "done"}
    BY Zenon, <1>2, <1>3, <1>4, <1>6 DEF DeleteExpired
  <2>2. \A r \in subnets \ subnets' : r.lease.underlay_ip = lease[p].underlay_ip
    <3>1. DeleteEntry(lease[p].underlay_ip) \/ UNCHANGED subnets
      BY Zenon, <1>6 DEF DeleteExpired
    <3> QED BY <3>1 DEF DeleteEntry, RowsOf
  <2> QED BY Zenon, <2>1, <2>2 DEF Chooses, Reclaims
<1>7. CASE DeleteOwn(p) \/ SelectTaken(p) \/ InsertLease(p)
  <2>1. pc[p] \in {"delete own", "taken", "insert"}
    BY Zenon, <1>7 DEF DeleteOwn, SelectTaken, InsertLease, At
  <2>2. pc'[p] \in {"taken", "oldest", "insert", "done"}
    BY Zenon, <1>1, <1>2, <1>3, <1>4, <1>7 DEF DeleteOwn, SelectTaken, InsertLease
  <2> QED BY Zenon, <2>1, <2>2 DEF Chooses, Reclaims
<1>8. CASE RenewInsert(p) \/ RenewUpdate(p) \/ RenewRead(p)
  <2>1. pc[p] \in {"renew insert", "renew update", "renew read"}
    BY Zenon, <1>8 DEF RenewInsert, RenewUpdate, RenewRead, At
  <2>2. pc'[p] \in {"renew update", "renew read", "done"}
    BY Zenon, <1>1, <1>2, <1>8 DEF RenewInsert, RenewUpdate, RenewRead
  <2> QED BY Zenon, <2>1, <2>2 DEF Chooses, Reclaims
<1> QED BY Zenon, <1>5, <1>6, <1>7, <1>8 DEF Step

(* With one handler a lease that a reclaim deletes has expired: nothing can *)
(* renew the row between the SELECT that chose it and the DELETE.           *)
THEOREM LoneReclaimExpired ==
  ASSUME NEW h, Handler = {h}
  PROVE  Spec => ReclaimedWasExpired
<1> h \in Handler
  OBVIOUS
<1>1. Init => VictimExpired(h)
  BY DEF Init, VictimExpired
<1>2. ASSUME IInv, [Next]_vars PROVE Chooses(h) /\ Reclaims(h)
  <2>1. ASSUME Deliver(h) \/ Crash(h) PROVE Chooses(h) /\ Reclaims(h)
    <3>1. pc'[h] = "idle" /\ UNCHANGED subnets
      BY <1>2, <2>1 DEF Deliver, Crash, Finish, IInv, TypeOK, ControlOK
    <3> QED BY <3>1 DEF Chooses, Reclaims
  <2>2. CASE Tick \/ UNCHANGED vars
    BY <2>2 DEF Tick, vars, Chooses, Reclaims
  <2> QED BY Zenon, <1>2, <2>1, <2>2, BeginChooses, StepChooses DEF Next
<1>3. ASSUME IInv, VictimExpired(h), [Next]_vars PROVE VictimExpired(h)'
  <2> SUFFICES ASSUME pc'[h] = "reclaim", NEW r \in subnets',
                      r.lease.underlay_ip = lease'[h].underlay_ip
               PROVE  r.last_renewed_at + LeaseExpirationSeconds <= now'
    BY DEF VictimExpired, Expired
  <2>1. CASE UNCHANGED <<subnets, now>> /\ \E v \in subnets : Expired(v) /\ lease'[h] = v.lease
    <3>1. Expired(r)
      BY Zenon, <1>3, <2>1 DEF IInv, UniqueKeys
    <3> QED BY <2>1, <3>1 DEF Expired
  <2>2. CASE UNCHANGED <<subnets, pc, lease>> /\ now' \in {now, now + 1}
    <3>1. Expired(r) /\ r \in subnets
      BY Zenon, <1>3, <2>2 DEF VictimExpired
    <3>2. r.last_renewed_at \in Int /\ now \in Int /\ LeaseExpirationSeconds \in Int
      BY <1>3, <3>1, ControllerAssumption DEF IInv, TypeOK, Row
    <3> QED BY <2>2, <3>1, <3>2 DEF Expired
  <2> QED BY Zenon, <1>2, <1>3, <2>1, <2>2 DEF Chooses
<1>4. ASSUME IInv, VictimExpired(h), [Next]_vars
      PROVE  \A p \in Handler : pc[p] = "reclaim" /\ pc'[p] # "reclaim"
               => \A r \in subnets \ subnets' : Expired(r)
  BY Zenon, <1>2, <1>4 DEF VictimExpired, Reclaims
<1> QED BY <1>1, <1>3, <1>4, Invariance, PTL DEF Spec, ReclaimedWasExpired
=================================================================================
