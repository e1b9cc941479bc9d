----------------------------- MODULE MCMemFifo -----------------------------
(* MemFifo with three slots and two words. *)
EXTENDS MemFifo
=============================================================================
