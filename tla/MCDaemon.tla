-------------------------------- MODULE MCDaemon --------------------------------
(***************************************************************************)
(* One host in an overlay network of four addresses (one single address,   *)
(* one block), with a subnet of an earlier network at 4 and the subnet     *)
(* that leaseFromVTEPState makes of the single address.                    *)
(***************************************************************************)
EXTENDS Daemon

CONSTANTS c1, c2

MCNetwork == [ip |-> 0, len |-> 1]
MCOldSubnets == {[ip |-> 4, len |-> 2], [ip |-> 1, len |-> 2]}
=================================================================================
