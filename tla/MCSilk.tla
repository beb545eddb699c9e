---------------------------------- MODULE MCSilk ----------------------------------
(***************************************************************************)
(* Two hosts and one block: an overlay network of four addresses.           *)
(***************************************************************************)
EXTENDS Silk

MCNetwork == [ip |-> 0, len |-> 1]
===================================================================================
