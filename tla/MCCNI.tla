---------------------------------- MODULE MCCNI ----------------------------------
(* Two containers, and as many addresses, in a subnet. *)
EXTENDS CNI, TLC
CONSTANTS c1, c2
MCContainer == {c1, c2}
MCProc == MCContainer \cup {Daemon}
MCAddress == {1, 2}
MCMaxCalls == (c1 :> 3) @@ (c2 :> 1)
==================================================================================
