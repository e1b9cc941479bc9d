-------------------------------- MODULE Boot --------------------------------
(* The boot loader of a multicore Patmos (bootloader.c, main): core 0 downloads a
   program, all cores start it, return from it, and start over.  The cores share
   boot_info.  Places in main are named after what comes next; a core in the
   application is at "run". *)
EXTENDS Naturals

CONSTANTS Cores,            \* get_cpucnt()
          NULL, Minus1      \* values of the fields of boot_info

ASSUME BootAssumption == Cores \in Nat \ {0} /\ NULL = 0 /\ Minus1 \in Nat \ {NULL}

VARIABLES pc, i,                                \* places; the slave a loop of core 0 is at
          master, entrypoint,                   \* boot_info->master
          status, return_val, param, funcpoint, \* boot_info->slave
          ran                                   \* history: what each core ran last

slave == <<status, return_val, param, funcpoint>>
bootVars == <<pc, i, master, entrypoint, slave, ran>>

Master == 0
Slaves == 1 .. Cores - 1
Core == 0 .. Cores - 1
Status == {"NULL", "BOOT", "INIT", "INITDONE", "RETURN"}

(* Memory keeps what an earlier run left in it. *)
BootInit(leftover) ==
  /\ pc = [c \in Core |-> "delay"] /\ i = 1
  /\ master \in Status /\ entrypoint = leftover
  /\ status \in [Slaves -> {"NULL", "INIT", "RETURN"}]
  /\ return_val = [c \in Slaves |-> leftover] /\ param = return_val /\ funcpoint = return_val
  /\ ran = [c \in Core |-> NULL]

Goto(c, place) == pc' = [pc EXCEPT ![c] = place]
SetStatus(c, s) == status' = [status EXCEPT ![c] = s] /\ UNCHANGED <<return_val, param, funcpoint>>
Keep == UNCHANGED <<entrypoint, ran>>

ClearFields(c) ==
  /\ status' = [status EXCEPT ![c] = "NULL"]
  /\ return_val' = [return_val EXCEPT ![c] = Minus1]
  /\ param' = [param EXCEPT ![c] = NULL]
  /\ funcpoint' = [funcpoint EXCEPT ![c] = NULL]

(* The timing the code relies on: the delay at the start outlasts the end of the
   round before on every core, the sixteen writes of STATUS_BOOT outlast the start of
   every slave, and the start-up code of an application lasts until core 0 has seen
   all cores start it. *)
AllHaveLeft == \A c \in Core : pc[c] \notin {"return", "finish", "exit", "leave", "run"}
SlavesAreUp == \A c \in Slaves : pc[c] = "await_init"
AllAreSeen == pc[Master] \notin {"start", "await_started"}

(* Leftovers are overwritten: by every core. *)
Reset(c) ==
  /\ pc[c] = "delay" /\ AllHaveLeft
  /\ Goto(c, "clear")
  /\ master' = "NULL" /\ entrypoint' = NULL
  /\ i' = IF c = Master THEN 1 ELSE i
  /\ UNCHANGED <<slave, ran>>

-----------------------------------------------------------------------------
(* Core 0 *)

ClearSlaves ==
  /\ pc[Master] = "clear"
  /\ IF i < Cores
     THEN ClearFields(i) /\ i' = i + 1 /\ UNCHANGED pc
     ELSE Goto(Master, "announce") /\ UNCHANGED <<slave, i>>
  /\ Keep /\ UNCHANGED master

Announce ==
  /\ pc[Master] = "announce" /\ ~(master = "BOOT" /\ SlavesAreUp)
  /\ master' = "BOOT"
  /\ Keep /\ UNCHANGED <<pc, i, slave>>

BeginDownload ==
  /\ pc[Master] = "announce" /\ master = "BOOT" /\ SlavesAreUp
  /\ Goto(Master, "download")
  /\ Keep /\ UNCHANGED <<i, master, slave>>

EndDownload(result) ==
  /\ pc[Master] = "download"
  /\ entrypoint' = result
  /\ Goto(Master, "start")
  /\ UNCHANGED <<i, master, slave, ran>>

Start ==
  /\ pc[Master] = "start"
  /\ master' = "INIT" /\ i' = 1
  /\ Goto(Master, "await_started")
  /\ Keep /\ UNCHANGED slave

Started(c) == status[c] = "INIT"
Returned(c) == status[c] \in {"NULL", "RETURN"}
Left(c) == status[c] # "RETURN"

(* Core 0 goes through the slaves in order, waiting for each: until it has started,
   until it has returned, until it has left. *)
Visit(place, passed, next, then) ==
  /\ pc[Master] = place
  /\ \/ i < Cores /\ passed /\ i' = i + 1 /\ UNCHANGED <<pc, master>>
     \/ i = Cores /\ i' = 1 /\ Goto(Master, next) /\ master' = then
  /\ Keep /\ UNCHANGED slave

AwaitStarted == Visit("await_started", Started(i), "call", master)
Finish == Visit("finish", Returned(i), "leave", "RETURN")
Leave == Visit("leave", Left(i), "delay", master)

-----------------------------------------------------------------------------
(* Slaves *)

ClearOwn(c) ==
  /\ pc[c] = "clear" /\ ClearFields(c) /\ Goto(c, "boot")
  /\ Keep /\ UNCHANGED <<i, master>>

SlaveBoots(c) ==
  /\ pc[c] = "boot" /\ SetStatus(c, "BOOT")
  /\ IF master = "BOOT" THEN Goto(c, "await_init") ELSE UNCHANGED pc
  /\ Keep /\ UNCHANGED <<i, master>>

AwaitInit(c) ==
  /\ pc[c] = "await_init" /\ master = "INIT"
  /\ SetStatus(c, "INIT") /\ Goto(c, "call")
  /\ Keep /\ UNCHANGED <<i, master>>

SlaveReturns(c) ==
  /\ pc[c] = "return"
  /\ SetStatus(c, "RETURN")
  /\ IF master = "RETURN" THEN Goto(c, "exit") ELSE UNCHANGED pc
  /\ Keep /\ UNCHANGED <<i, master>>


SlaveLeaves(c) ==
  /\ pc[c] = "exit" /\ SetStatus(c, "NULL") /\ Goto(c, "delay")
  /\ Keep /\ UNCHANGED <<i, master>>

-----------------------------------------------------------------------------
(* The call of the application, if there is one, and its return. *)
(* Mutant: the entry point is not tested. *)
AnyEntry == entrypoint \in Nat

HasEntry == entrypoint # NULL

AfterCall(c) == IF c = Master THEN "finish" ELSE "return"

Call(c) ==
  /\ pc[c] = "call"
  /\ Goto(c, IF HasEntry THEN "run" ELSE AfterCall(c))
  /\ ran' = IF HasEntry THEN [ran EXCEPT ![c] = entrypoint] ELSE ran
  /\ UNCHANGED <<i, master, entrypoint, slave>>

(* A slave's application ends with exit(0). *)
ApplicationReturns(c) ==
  /\ pc[c] = "run" /\ Goto(c, AfterCall(c))
  /\ return_val' = IF c = Master THEN return_val ELSE [return_val EXCEPT ![c] = 0]
  /\ Keep /\ UNCHANGED <<i, master, status, param, funcpoint>>

MasterStep == ClearSlaves \/ Announce \/ Start \/ AwaitStarted \/ Finish \/ Leave
SlaveStep(c) == ClearOwn(c) \/ SlaveBoots(c) \/ AwaitInit(c) \/ SlaveReturns(c) \/ SlaveLeaves(c)
=============================================================================
