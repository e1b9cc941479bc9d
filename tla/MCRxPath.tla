------------------------------ MODULE MCRxPath ------------------------------
(* The receive path with traffic that it can cope with. *)
EXTENDS RxPathSpec

ASSUME TrafficAssumption == TrafficFits
=============================================================================
