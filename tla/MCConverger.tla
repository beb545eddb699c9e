------------------------------ MODULE MCConverger ------------------------------
(***************************************************************************)
(* A host of an overlay network of 8 addresses in blocks of two, with the  *)
(* blocks at 2 (its own), 4 and 6, and a lease of another network at 8.    *)
(***************************************************************************)
EXTENDS Converger, TLC

CONSTANTS h1, h2

MCOverlayNetwork == [ip |-> 0, len |-> 1]
MCLocalSubnet == [ip |-> 2, len |-> 3]
MCLeasedSubnets == {[ip |-> i, len |-> 3] : i \in {2, 4, 6, 8}}

Symmetry == Permutations(Host)
================================================================================
