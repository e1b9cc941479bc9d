------------------------------ MODULE Channel ------------------------------
(* What the ends of a channel of the message passing library share: chan_info, and the
   DMA entries of their network interfaces (libnoc).  The entry of a core for the other
   core carries one transfer at a time. *)
EXTENDS Integers

VARIABLES registered,     \* the ends whose core id is in chan_info
          dma

Ends == {"src", "sink"}
Remote(e) == IF e = "src" THEN "sink" ELSE "src"

Idle == [kind |-> "idle"]

(* The end of mp_create_qport and mp_create_sport, and what mp_init_ports waits for. *)
Register(e) == registered' = registered \cup {e}
OtherIsRegistered(e) == Remote(e) \in registered

k_noc_dma_done(e) == dma[e] = Idle

(* noc_write repeats it until it succeeds. *)
k_noc_dma_write(e, entry) ==
  /\ k_noc_dma_done(e)
  /\ dma' = [dma EXCEPT ![e] = entry]
=============================================================================
