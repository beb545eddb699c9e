----------------------------- MODULE LeaseRegistry -----------------------------
(***************************************************************************)
(* What the controller promises the container hosts, whatever its handlers *)
(* and the SQL table go through: a registry in which a subnet is granted,  *)
(* in one step, only to a host that has none and only when it overlaps no  *)
(* granted subnet, and in which leases end one at a time.  A subnet that a *)
(* host brings itself is only known to differ from those granted.          *)
(***************************************************************************)
EXTENDS CIDRPool

CONSTANTS
  Host,
  Subnet,
  Foreign             \* the subnets that hosts bring themselves

VARIABLE held         \* the leases: pairs of a host and its subnet

Apart(s, t) ==
  s # t /\ (s \notin Foreign /\ t \notin Foreign => ~ Overlap(s, t))

Free(u, s) == \A l \in held : l.host # u /\ Apart(l.subnet, s)

Grant(u, s) ==
  /\ Free(u, s)
  /\ held' = held \cup {[host |-> u, subnet |-> s]}

End(l) == held' = held \ {l}

Init ==
  /\ held \subseteq [host : Host, subnet : Subnet]
  /\ \A l, m \in held : l # m => l.host # m.host /\ Apart(l.subnet, m.subnet)

Next ==
  \/ \E u \in Host, s \in Subnet : Grant(u, s)
  \/ \E l \in held : End(l)

Spec == Init /\ [][Next]_held
================================================================================
