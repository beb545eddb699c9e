-------------------------- MODULE MCLeaseController --------------------------
(***************************************************************************)
(* Small instances of LeaseController: an address space of 8 addresses,    *)
(* an overlay network of 4 of them cut into one single address and one     *)
(* block, and one block of an older network.  What the hosts present to    *)
(* renew includes an address leased under a longer prefix, or the subnet   *)
(* that leaseFromVTEPState makes of a single address.                      *)
(***************************************************************************)
EXTENDS LeaseController, TLC

CONSTANTS h1, h2, h3, p1, p2

MCNetwork == [ip |-> 0, len |-> 1]
MCOldSubnets == {[ip |-> 4, len |-> 2]}
MCPresented == Pool \cup MCOldSubnets \cup {[ip |-> 3, len |-> 3]}
MCRebuilt == blockPool \cup Rebuilt

Symmetry == Permutations(Host) \cup Permutations(Handler)
===============================================================================
