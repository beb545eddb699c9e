--------------------------------- MODULE Lease ---------------------------------
(***************************************************************************)
(* A lease as the controller and the daemons exchange it (type Lease of    *)
(* controller/client.go) and the hardware address derived from it.         *)
(***************************************************************************)
EXTENDS CIDRPool

(* ee:ee followed by the four bytes of the VTEP's overlay address. *)
GenerateForVTEP(ip) == <<238, 238, ip>>

HardwareAddr == {GenerateForVTEP(ip) : ip \in Address}

(* The lease of a subnet: its hardware address follows from its address. *)
LeaseFor(u, s) ==
  [underlay_ip |-> u, overlay_subnet |-> s, overlay_hwaddr |-> GenerateForVTEP(s.ip)]
================================================================================
