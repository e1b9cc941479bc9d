------------------------------ MODULE NocSync ------------------------------
(* The start of an application that uses the network (libnoc, noc_init, a constructor):
   every core configures its interface, core 0 waits for all and releases them.  The
   barrier uses the status fields of the boot loader. *)
EXTENDS Boot

VARIABLES app,      \* the place of core 0 in the application
          at        \* the place of each slave in it, "out" if in the boot loader

SlaveAt(s, from, to) == at[s] = from /\ at' = [at EXCEPT ![s] = to]

(* A slave shows that it is configured, and waits. *)
SlaveConfigured(s) ==
  /\ SlaveAt(s, "configure", "await_network")
  /\ SetStatus(s, "INITDONE")
  /\ UNCHANGED <<app, master>>

Configured(s) == status[s] \in {"NULL", "INITDONE"}

(* Mutant: core 0 waits for one slave only. *)
NetworkStartsEarly ==
  /\ app = "configure" /\ \E s \in Slaves : Configured(s)
  /\ master' = "INITDONE" /\ app' = "main"
  /\ UNCHANGED <<at, slave>>

NetworkStarts ==
  /\ app = "configure" /\ \A s \in Slaves : Configured(s)
  /\ master' = "INITDONE" /\ app' = "main"
  /\ UNCHANGED <<at, slave>>

SlaveReleased(s) ==
  /\ SlaveAt(s, "await_network", "enter") /\ master = "INITDONE"
  /\ UNCHANGED <<app, master, slave>>

(* No core uses the network before all interfaces are configured, although the barrier
   takes STATUS_NULL, which the boot loader also writes, for a core that is not there. *)
NobodyAheadOfNetwork ==
  app # "configure" => \A s \in Slaves : pc[s] # "call" /\ at[s] # "configure"
=============================================================================
