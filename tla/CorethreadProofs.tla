----------------------------- MODULE CorethreadProofs --------------------------
(* Facts about the cores of the multicore system, for every number of cores and every
   program: where core 0, a slave and the threads on it can be at the same time, and what
   boot_info holds then.  The boot loader, the barrier of noc_init and libcorethread use
   the same fields, so their invariants are one. *)
EXTENDS Corethread, TLAPS

(* No leaf is given up too soon on a busy machine. *)
USE SMTT(60), ZenonT(60)

MasterPlace ==
  {"delay", "clear", "announce", "download", "start", "await_started", "call", "run", "finish", "leave"}
SlavePlace == {"delay", "clear", "boot", "await_init", "call", "run", "return", "exit"}
AtPlace ==
  {"out", "configure", "await_network", "enter", "poll", "show", "call", "body", "exit",
   "end", "await_join"}
InCallOfThread == {"publish", "created", "join", "joined"}

(* The places from the download to the start of the application. *)
Starting == {"clear", "announce", "download", "start", "await_started", "call"}

FieldsOK ==
  /\ pc \in [Core -> MasterPlace \cup SlavePlace] /\ at \in [Slaves -> AtPlace]
  /\ status \in [Slaves -> Status] /\ return_val \in [Slaves -> Nat]
  /\ param \in [Slaves -> Nat] /\ funcpoint \in [Slaves -> Nat]
  /\ thread \in [Slaves -> Nat] /\ arg \in [Slaves -> Nat] /\ left \in [Slaves -> Nat]

(* Core 0: boot_info->master and the entry point follow its place. *)
MasterInv ==
  /\ pc[Master] \in MasterPlace /\ i \in 1 .. Cores /\ threads \in Nat
  /\ app \in {"configure", "main"} \cup InCallOfThread
  /\ app \in InCallOfThread => target \in Slaves /\ pc[Master] = "run"
  /\ pc[Master] = "clear" => master = "NULL"
  /\ pc[Master] = "announce" => master \in {"NULL", "BOOT"}
  /\ pc[Master] \in {"download", "start"} => master = "BOOT"
  /\ pc[Master] \in {"await_started", "call"} => master = "INIT"
  /\ pc[Master] \in {"run", "finish"} => master \in {"INIT", "INITDONE"}
  /\ pc[Master] = "leave" => master = "RETURN"
  /\ pc[Master] \in {"call", "run"} => i = 1
  /\ pc[Master] \in Starting => app = "configure"
  /\ pc[Master] = "run" => HasEntry /\ (app = "configure" <=> master = "INIT")
  /\ pc[Master] = "finish" /\ HasEntry => app # "configure"

(* Where a slave can be in the boot loader, given the place of core 0. *)
PlaceInv(s) ==
  /\ pc[s] \in SlavePlace
  /\ pc[Master] = "delay" => pc[s] \notin {"await_init", "call"}
  /\ pc[Master] = "delay" /\ pc[s] \in {"clear", "boot"} => master = "NULL"
  /\ pc[Master] = "clear" => pc[s] \in {"delay", "clear", "boot"}
  /\ pc[Master] = "announce" => pc[s] \in {"delay", "clear", "boot", "await_init"}
  /\ pc[Master] \in {"download", "start"} => pc[s] = "await_init"
  /\ pc[Master] = "await_started" =>
       pc[s] \in {"await_init", "call", "run", "return"} /\ (s < i => pc[s] # "await_init")
  /\ pc[Master] \in {"call", "run", "finish"} => pc[s] \in {"call", "run", "return"}
  /\ pc[Master] = "run" => pc[s] # "return" /\ (pc[s] = "run" => at[s] # "out")
  /\ pc[Master] = "finish" /\ s < i => pc[s] # "call"
  /\ pc[Master] = "leave" => pc[s] \in {"run", "return", "exit", "delay"}
  /\ pc[Master] \in {"await_started", "call", "run", "finish"} /\ pc[s] = "run" => HasEntry
  /\ pc[Master] \in {"await_started", "call"} /\ pc[s] = "return" => ~HasEntry

(* What a slave's status says of its place, and when it has no thread to start. *)
StatusInv(s) ==
  /\ pc[s] # "run" => at[s] = "out"
  /\ pc[s] = "await_init" => status[s] = "BOOT"
  /\ pc[s] = "call" => status[s] = "INIT" /\ app = "configure"
  /\ at[s] = "configure" => status[s] = "INIT" /\ app = "configure"
  /\ at[s] \in {"await_network", "enter", "call", "body", "exit"} => status[s] = "INITDONE"
  /\ at[s] \in {"poll", "show", "await_join"} => status[s] = "RETURN"
  /\ pc[s] \in {"boot", "await_init", "call"} => funcpoint[s] = NULL
  /\ pc[s] = "run" /\ app = "configure" =>
       at[s] \in {"configure", "await_network"} /\ pc[Master] \in {"await_started", "call", "run"}
  /\ pc[s] = "run" /\ (pc[Master] # "run" \/ app = "configure") => funcpoint[s] = NULL

(* Core 0 is in corethread_create or corethread_join for this slave. *)
In(call, s) == app = call /\ target = s

(* A thread from its creation to its join. *)
ThreadInv(s) ==
  /\ at[s] \in {"show", "call", "body", "exit"} => funcpoint[s] = thread[s] /\ funcpoint[s] # NULL
  /\ at[s] = "show" => In("created", s)
  /\ at[s] \in {"body", "exit"} => arg[s] = thread[s]
  /\ at[s] \in {"show", "call", "body"} => return_val[s] = Minus1
  /\ at[s] \in {"exit", "end", "await_join"} => return_val[s] = left[s]
  /\ pc[s] = "run" /\ funcpoint[s] # NULL =>
       /\ param[s] = funcpoint[s]
       /\ In("created", s) \/ at[s] \in {"call", "body", "exit", "end", "await_join"}
  /\ In("publish", s) => at[s] = "poll" /\ funcpoint[s] = NULL /\ param[s] = threads /\ threads # NULL
  /\ In("created", s) => funcpoint[s] # NULL /\ at[s] \in {"poll", "show", "call", "body"}
  /\ In("join", s) \/ In("joined", s) => funcpoint[s] # NULL
  /\ In("joined", s) => at[s] \in {"end", "await_join"}

SlaveInv(s) == PlaceInv(s) /\ StatusInv(s) /\ ThreadInv(s)

CoreInv == FieldsOK /\ MasterInv /\ joined[1] = joined[2] /\ \A s \in Slaves : SlaveInv(s)

-----------------------------------------------------------------------------
(* Core 0 is a core and no slave; a slave is a core below get_cpucnt(). *)
LEMMA CoreFacts ==
  /\ Master \in Core /\ Master \notin Slaves /\ Cores \in Nat /\ NULL = 0
  /\ \A s \in Slaves : s \in Core /\ s \in Nat /\ s # Master /\ s < Cores /\ ~(s < 1)
  /\ \A n \in 1 .. Cores : n < Cores => n \in Slaves /\ n + 1 \in 1 .. Cores
  /\ 1 \in 1 .. Cores
BY BootAssumption DEF Master, Core, Slaves

(* What the steps of a thread and those of noc_init leave alone. *)
OutsideThread == UNCHANGED <<pc, i, master, entrypoint, ran>>
OutsideNocInit == UNCHANGED <<pc, i, entrypoint, ran, target, threads, joined, thread, arg, left>>

(* What a step of one slave leaves alone for another: its fields, its places and what it
   looks at of core 0. *)
Untouched(t) ==
  /\ pc'[Master] = pc[Master] /\ pc'[t] = pc[t] /\ at'[t] = at[t]
  /\ status'[t] = status[t] /\ return_val'[t] = return_val[t]
  /\ param'[t] = param[t] /\ funcpoint'[t] = funcpoint[t]
  /\ thread'[t] = thread[t] /\ arg'[t] = arg[t] /\ left'[t] = left[t]
  /\ UNCHANGED <<i, app, target, threads>>

(* A slave that is not touched keeps its invariant, when boot_info->master stays too. *)
LEMMA UntouchedKeeps ==
  ASSUME NEW t \in Slaves, SlaveInv(t), Untouched(t), UNCHANGED <<master, entrypoint>>
  PROVE  SlaveInv(t)'
<1>1. PlaceInv(t)' BY DEF SlaveInv, PlaceInv, Untouched, HasEntry
<1>2. StatusInv(t)' BY DEF SlaveInv, StatusInv, Untouched
<1>3. ThreadInv(t)' BY DEF SlaveInv, ThreadInv, Untouched, In
<1>. QED BY <1>1, <1>2, <1>3 DEF SlaveInv

(* Steps that neither the boot loader nor a thread takes keep the invariant. *)
LEMMA ElsewhereKeeps ==
  ASSUME CoreInv, UNCHANGED <<bootVars, threadVars>>
  PROVE  CoreInv'
<1>1. FieldsOK' BY DEF CoreInv, FieldsOK, bootVars, slave, threadVars
<1>2. MasterInv' /\ (joined[1] = joined[2])'
  BY DEF CoreInv, MasterInv, HasEntry, bootVars, slave, threadVars, core0
<1>3. \A t \in Slaves : Untouched(t) BY DEF Untouched, bootVars, slave, threadVars, core0
<1>4. UNCHANGED <<master, entrypoint>> BY DEF bootVars
<1>5. \A t \in Slaves : SlaveInv(t)' BY <1>3, <1>4, UntouchedKeeps DEF CoreInv
<1>. QED BY <1>1, <1>2, <1>5 DEF CoreInv

(* A step of slave s: core 0 and the other slaves are not touched. *)
StepOf(s) ==
  /\ UNCHANGED <<core0, master, entrypoint, i>> /\ pc'[Master] = pc[Master]
  /\ \A t \in Slaves : t # s => Untouched(t)

(* A step of a slave keeps the invariant if it keeps what belongs to that slave. *)
LEMMA SlaveKeeps ==
  ASSUME CoreInv, NEW s \in Slaves, StepOf(s), FieldsOK', PlaceInv(s)', StatusInv(s)', ThreadInv(s)'
  PROVE  CoreInv'
<1>1. MasterInv' /\ (joined[1] = joined[2])'
  BY DEF CoreInv, StepOf, MasterInv, HasEntry, core0
<1>2. \A t \in Slaves : t # s => SlaveInv(t)'
  BY UntouchedKeeps DEF CoreInv, StepOf
<1>. QED BY <1>1, <1>2 DEF CoreInv, SlaveInv

(* A slave that is not in the application has no thread under way. *)
LEMMA OutsideHasNoThread ==
  ASSUME NEW s \in Slaves, StepOf(s), StatusInv(s), ThreadInv(s), pc[s] # "run", pc'[s] # "run",
         UNCHANGED <<at, funcpoint>>
  PROVE  ThreadInv(s)'
BY DEF StepOf, StatusInv, ThreadInv, In, core0

(* A step in the application stays within its place of the boot loader. *)
LEMMA ApplicationKeepsPlace ==
  ASSUME NEW s \in Slaves, StepOf(s), PlaceInv(s), pc' = pc,
         at'[s] # "out" \/ pc[Master] # "run"
  PROVE  PlaceInv(s)'
BY DEF StepOf, PlaceInv, HasEntry

-----------------------------------------------------------------------------
(* A slave in the boot loader *)

(* A slave clears its fields. *)
LEMMA ClearOwnKeeps ==
  ASSUME CoreInv, NEW s \in Slaves, ClearOwn(s), UNCHANGED threadVars
  PROVE  CoreInv'
<1>1. FieldsOK'
  BY CoreFacts, BootAssumption
     DEF CoreInv, FieldsOK, SlavePlace, Status, ClearOwn, ClearFields, Goto, Keep, core0,
         threadVars
<1>2. StepOf(s)
  BY CoreFacts
     DEF CoreInv, FieldsOK, StepOf, Untouched, ClearOwn, ClearFields, Goto, Keep, core0,
         threadVars
<1>3. /\ pc[s] = "clear" /\ pc'[s] = "boot" /\ funcpoint'[s] = NULL /\ at' = at
  BY CoreFacts DEF CoreInv, FieldsOK, ClearOwn, ClearFields, Goto, Keep, threadVars
<1>4. MasterInv /\ PlaceInv(s) /\ StatusInv(s) /\ ThreadInv(s)
  BY DEF CoreInv, SlaveInv
<1>5. pc[Master] # "run" /\ app \notin InCallOfThread
  BY <1>3, <1>4 DEF MasterInv, PlaceInv
<1>6. PlaceInv(s)'
  BY <1>2, <1>3, <1>4, <1>5
     DEF StepOf, MasterInv, MasterPlace, PlaceInv, SlavePlace, StatusInv, HasEntry
<1>7. StatusInv(s)'
  BY <1>2, <1>3, <1>4, <1>5 DEF StepOf, StatusInv, core0
<1>8. ThreadInv(s)'
  BY <1>2, <1>3, <1>4, <1>5 DEF StepOf, StatusInv, ThreadInv, In, core0, InCallOfThread
<1>. QED BY <1>1, <1>2, <1>6, <1>7, <1>8, SlaveKeeps

(* A slave shows STATUS_BOOT until core 0 does. *)
LEMMA SlaveBootsKeeps ==
  ASSUME CoreInv, NEW s \in Slaves, SlaveBoots(s), UNCHANGED threadVars
  PROVE  CoreInv'
<1>1. FieldsOK'
  BY CoreFacts, BootAssumption
     DEF CoreInv, FieldsOK, SlavePlace, Status, SlaveBoots, SetStatus, Goto, Keep, core0,
         threadVars
<1>2. StepOf(s)
  BY CoreFacts
     DEF CoreInv, FieldsOK, StepOf, Untouched, SlaveBoots, SetStatus, Goto, Keep, core0,
         threadVars
<1>3. /\ pc[s] = "boot" /\ status'[s] = "BOOT" /\ UNCHANGED <<funcpoint, at>>
      /\ pc'[s] = "boot" \/ (pc'[s] = "await_init" /\ master = "BOOT")
  BY CoreFacts DEF CoreInv, FieldsOK, SlaveBoots, SetStatus, Goto, Keep, threadVars
<1>4. MasterInv /\ PlaceInv(s) /\ StatusInv(s) /\ ThreadInv(s)
  BY DEF CoreInv, SlaveInv
<1>5. PlaceInv(s)'
  BY <1>2, <1>3, <1>4
     DEF StepOf, MasterInv, MasterPlace, PlaceInv, SlavePlace, StatusInv, HasEntry
<1>6. StatusInv(s)'
  BY <1>2, <1>3, <1>4 DEF StepOf, MasterInv, MasterPlace, PlaceInv, StatusInv, core0
<1>7. ThreadInv(s)'
  BY <1>2, <1>3, <1>4, OutsideHasNoThread
<1>. QED BY <1>1, <1>2, <1>5, <1>6, <1>7, SlaveKeeps

(* A slave leaves the boot loader when core 0 shows STATUS_INIT. *)
LEMMA AwaitInitKeeps ==
  ASSUME CoreInv, NEW s \in Slaves, AwaitInit(s), UNCHANGED threadVars
  PROVE  CoreInv'
<1>1. FieldsOK'
  BY CoreFacts, BootAssumption
     DEF CoreInv, FieldsOK, SlavePlace, Status, AwaitInit, SetStatus, Goto, Keep, core0,
         threadVars
<1>2. StepOf(s)
  BY CoreFacts
     DEF CoreInv, FieldsOK, StepOf, Untouched, AwaitInit, SetStatus, Goto, Keep, core0,
         threadVars
<1>3. /\ pc[s] = "await_init" /\ master = "INIT" /\ pc'[s] = "call" /\ status'[s] = "INIT"
      /\ UNCHANGED <<funcpoint, at>>
  BY CoreFacts DEF CoreInv, FieldsOK, AwaitInit, SetStatus, Goto, Keep, threadVars
<1>4. MasterInv /\ PlaceInv(s) /\ StatusInv(s) /\ ThreadInv(s)
  BY DEF CoreInv, SlaveInv
<1>5. pc[Master] = "await_started" /\ app = "configure"
  BY <1>3, <1>4 DEF MasterInv, MasterPlace, PlaceInv, Starting
<1>6. PlaceInv(s)'
  BY <1>2, <1>3, <1>4, <1>5
     DEF StepOf, MasterInv, MasterPlace, PlaceInv, SlavePlace, StatusInv, HasEntry
<1>7. StatusInv(s)'
  BY <1>2, <1>3, <1>4, <1>5 DEF StepOf, StatusInv, core0
<1>8. ThreadInv(s)'
  BY <1>2, <1>3, <1>4, <1>5, OutsideHasNoThread
<1>. QED BY <1>1, <1>2, <1>6, <1>7, <1>8, SlaveKeeps

(* A slave shows STATUS_RETURN until core 0 does. *)
LEMMA SlaveReturnsKeeps ==
  ASSUME CoreInv, NEW s \in Slaves, SlaveReturns(s), UNCHANGED threadVars
  PROVE  CoreInv'
<1>1. FieldsOK'
  BY CoreFacts, BootAssumption
     DEF CoreInv, FieldsOK, SlavePlace, Status, SlaveReturns, SetStatus, Goto, Keep, core0,
         threadVars
<1>2. StepOf(s)
  BY CoreFacts
     DEF CoreInv, FieldsOK, StepOf, Untouched, SlaveReturns, SetStatus, Goto, Keep, core0,
         threadVars
<1>3. /\ pc[s] = "return" /\ UNCHANGED <<funcpoint, at>>
      /\ pc'[s] = "return" \/ (pc'[s] = "exit" /\ master = "RETURN")
  BY CoreFacts DEF CoreInv, FieldsOK, SlaveReturns, SetStatus, Goto, Keep, threadVars
<1>4. MasterInv /\ PlaceInv(s) /\ StatusInv(s) /\ ThreadInv(s)
  BY DEF CoreInv, SlaveInv
<1>5. PlaceInv(s)'
  BY <1>2, <1>3, <1>4
     DEF StepOf, MasterInv, MasterPlace, PlaceInv, SlavePlace, StatusInv, HasEntry
<1>6. StatusInv(s)'
  BY <1>2, <1>3, <1>4 DEF StepOf, MasterInv, MasterPlace, PlaceInv, StatusInv, core0
<1>7. ThreadInv(s)'
  BY <1>2, <1>3, <1>4, OutsideHasNoThread
<1>. QED BY <1>1, <1>2, <1>5, <1>6, <1>7, SlaveKeeps

(* A slave clears its status and goes back to the start. *)
LEMMA SlaveLeavesKeeps ==
  ASSUME CoreInv, NEW s \in Slaves, SlaveLeaves(s), UNCHANGED threadVars
  PROVE  CoreInv'
<1>1. FieldsOK'
  BY CoreFacts, BootAssumption
     DEF CoreInv, FieldsOK, SlavePlace, Status, SlaveLeaves, SetStatus, Goto, Keep, core0,
         threadVars
<1>2. StepOf(s)
  BY CoreFacts
     DEF CoreInv, FieldsOK, StepOf, Untouched, SlaveLeaves, SetStatus, Goto, Keep, core0,
         threadVars
<1>3. /\ pc[s] = "exit" /\ pc'[s] = "delay" /\ UNCHANGED <<funcpoint, at>>
  BY CoreFacts DEF CoreInv, FieldsOK, SlaveLeaves, SetStatus, Goto, Keep, threadVars
<1>4. MasterInv /\ PlaceInv(s) /\ StatusInv(s) /\ ThreadInv(s)
  BY DEF CoreInv, SlaveInv
<1>5. PlaceInv(s)'
  BY <1>2, <1>3, <1>4
     DEF StepOf, MasterInv, MasterPlace, PlaceInv, SlavePlace, StatusInv, HasEntry
<1>6. StatusInv(s)'
  BY <1>2, <1>3, <1>4 DEF StepOf, MasterInv, MasterPlace, PlaceInv, StatusInv, core0
<1>7. ThreadInv(s)'
  BY <1>2, <1>3, <1>4, OutsideHasNoThread
<1>. QED BY <1>1, <1>2, <1>5, <1>6, <1>7, SlaveKeeps

-----------------------------------------------------------------------------
(* A slave in the application *)

(* The two steps of corethread_exit. *)
ExitPasses(s) ==
  /\ SlaveAt(s, "body", "exit") /\ MayEnd(s)
  /\ SetReturn(s, arg[s]) /\ left' = [left EXCEPT ![s] = arg[s]]
  /\ UNCHANGED <<core0, thread, arg>>
ExitShows(s) ==
  /\ SlaveAt(s, "exit", "end") /\ SetStatus(s, "RETURN")
  /\ UNCHANGED <<core0, thread, arg, left>>

(* A slave shows that its interface is configured. *)
LEMMA SlaveConfiguredKeeps ==
  ASSUME CoreInv, NEW s \in Slaves, SlaveConfigured(s), OutsideNocInit
  PROVE  CoreInv'
<1>1. FieldsOK'
  BY CoreFacts, BootAssumption
     DEF CoreInv, FieldsOK, AtPlace, Status, SlaveConfigured, SlaveAt, SetStatus, core0,
         OutsideNocInit
<1>2. StepOf(s)
  BY CoreFacts
     DEF CoreInv, FieldsOK, StepOf, Untouched, SlaveConfigured, SlaveAt, SetStatus, core0,
         OutsideNocInit
<1>3. /\ at[s] = "configure" /\ at'[s] = "await_network" /\ status'[s] = "INITDONE"
      /\ UNCHANGED <<pc, return_val, param, funcpoint, thread, arg, left>>
  BY CoreFacts DEF CoreInv, FieldsOK, SlaveConfigured, SlaveAt, SetStatus, OutsideNocInit
<1>4. MasterInv /\ PlaceInv(s) /\ StatusInv(s) /\ ThreadInv(s)
  BY DEF CoreInv, SlaveInv
<1>5. PlaceInv(s)'
  BY <1>2, <1>3, <1>4, ApplicationKeepsPlace
<1>6. StatusInv(s)'
  BY <1>2, <1>3, <1>4 DEF StepOf, StatusInv, core0
<1>7. ThreadInv(s)'
  BY <1>2, <1>3, <1>4 DEF StepOf, StatusInv, ThreadInv, In, core0
<1>. QED BY <1>1, <1>2, <1>5, <1>6, <1>7, SlaveKeeps

(* A slave leaves noc_init. *)
LEMMA SlaveReleasedKeeps ==
  ASSUME CoreInv, NEW s \in Slaves, SlaveReleased(s), OutsideNocInit
  PROVE  CoreInv'
<1>1. FieldsOK'
  BY CoreFacts, BootAssumption
     DEF CoreInv, FieldsOK, AtPlace, Status, SlaveReleased, SlaveAt, slave, core0,
         OutsideNocInit
<1>2. StepOf(s)
  BY CoreFacts
     DEF CoreInv, FieldsOK, StepOf, Untouched, SlaveReleased, SlaveAt, slave, core0,
         OutsideNocInit
<1>3. /\ at[s] = "await_network" /\ at'[s] = "enter" /\ master = "INITDONE"
      /\ UNCHANGED <<pc, status, return_val, param, funcpoint, thread, arg, left>>
  BY CoreFacts DEF CoreInv, FieldsOK, SlaveReleased, SlaveAt, slave, OutsideNocInit
<1>4. MasterInv /\ PlaceInv(s) /\ StatusInv(s) /\ ThreadInv(s)
  BY DEF CoreInv, SlaveInv
<1>5. app # "configure"
  BY <1>3, <1>4 DEF MasterInv, StatusInv
<1>6. PlaceInv(s)'
  BY <1>2, <1>3, <1>4, <1>5, ApplicationKeepsPlace
<1>7. StatusInv(s)'
  BY <1>2, <1>3, <1>4, <1>5 DEF StepOf, StatusInv, core0
<1>8. ThreadInv(s)'
  BY <1>2, <1>3, <1>4, <1>5 DEF StepOf, StatusInv, ThreadInv, In, core0, InCallOfThread
<1>. QED BY <1>1, <1>2, <1>6, <1>7, <1>8, SlaveKeeps

(* A slave enters the loop of the worker. *)
LEMMA EnterKeeps ==
  ASSUME CoreInv, NEW s \in Slaves, Enter(s), OutsideThread
  PROVE  CoreInv'
<1>1. FieldsOK'
  BY CoreFacts, BootAssumption
     DEF CoreInv, FieldsOK, AtPlace, Status, Enter, SlaveAt, SetStatus, core0, OutsideThread
<1>2. StepOf(s)
  BY CoreFacts
     DEF CoreInv, FieldsOK, StepOf, Untouched, Enter, SlaveAt, SetStatus, core0, OutsideThread
<1>3. /\ at[s] = "enter" /\ at'[s] = "poll" /\ status'[s] = "RETURN"
      /\ UNCHANGED <<pc, return_val, param, funcpoint, thread, arg, left>>
  BY CoreFacts DEF CoreInv, FieldsOK, Enter, SlaveAt, SetStatus, OutsideThread
<1>4. MasterInv /\ PlaceInv(s) /\ StatusInv(s) /\ ThreadInv(s)
  BY DEF CoreInv, SlaveInv
<1>5. PlaceInv(s)'
  BY <1>2, <1>3, <1>4, ApplicationKeepsPlace
<1>6. StatusInv(s)'
  BY <1>2, <1>3, <1>4 DEF StepOf, StatusInv, core0
<1>7. ThreadInv(s)'
  BY <1>2, <1>3, <1>4 DEF StepOf, StatusInv, ThreadInv, In, core0
<1>. QED BY <1>1, <1>2, <1>5, <1>6, <1>7, SlaveKeeps

(* A slave finds a thread to run. *)
LEMMA PollKeeps ==
  ASSUME CoreInv, NEW s \in Slaves, Poll(s), OutsideThread
  PROVE  CoreInv'
<1>1. FieldsOK'
  BY CoreFacts, BootAssumption
     DEF CoreInv, FieldsOK, AtPlace, Status, Poll, SlaveAt, SetReturn, core0, OutsideThread
<1>2. StepOf(s)
  BY CoreFacts
     DEF CoreInv, FieldsOK, StepOf, Untouched, Poll, SlaveAt, SetReturn, core0, OutsideThread
<1>3. /\ at[s] = "poll" /\ at'[s] = "show" /\ thread'[s] = funcpoint[s]
      /\ return_val'[s] = Minus1 /\ funcpoint[s] # NULL
      /\ UNCHANGED <<pc, status, param, funcpoint, arg, left>>
  BY CoreFacts DEF CoreInv, FieldsOK, Poll, SlaveAt, SetReturn, OutsideThread
<1>4. MasterInv /\ PlaceInv(s) /\ StatusInv(s) /\ ThreadInv(s)
  BY DEF CoreInv, SlaveInv
<1>5. PlaceInv(s)'
  BY <1>2, <1>3, <1>4, ApplicationKeepsPlace
<1>6. StatusInv(s)'
  BY <1>2, <1>3, <1>4 DEF StepOf, StatusInv, core0
<1>7. ThreadInv(s)'
  BY <1>2, <1>3, <1>4 DEF StepOf, StatusInv, ThreadInv, In, core0
<1>. QED BY <1>1, <1>2, <1>5, <1>6, <1>7, SlaveKeeps

(* A slave shows that it runs a thread. *)
LEMMA ShowKeeps ==
  ASSUME CoreInv, NEW s \in Slaves, Show(s), OutsideThread
  PROVE  CoreInv'
<1>1. FieldsOK'
  BY CoreFacts, BootAssumption
     DEF CoreInv, FieldsOK, AtPlace, Status, Show, SlaveAt, SetStatus, core0, OutsideThread
<1>2. StepOf(s)
  BY CoreFacts
     DEF CoreInv, FieldsOK, StepOf, Untouched, Show, SlaveAt, SetStatus, core0, OutsideThread
<1>3. /\ at[s] = "show" /\ at'[s] = "call" /\ status'[s] = "INITDONE"
      /\ UNCHANGED <<pc, return_val, param, funcpoint, thread, arg, left>>
  BY CoreFacts DEF CoreInv, FieldsOK, Show, SlaveAt, SetStatus, OutsideThread
<1>4. MasterInv /\ PlaceInv(s) /\ StatusInv(s) /\ ThreadInv(s)
  BY DEF CoreInv, SlaveInv
<1>5. PlaceInv(s)'
  BY <1>2, <1>3, <1>4, ApplicationKeepsPlace
<1>6. StatusInv(s)'
  BY <1>2, <1>3, <1>4 DEF StepOf, StatusInv, core0
<1>7. ThreadInv(s)'
  BY <1>2, <1>3, <1>4 DEF StepOf, StatusInv, ThreadInv, In, core0
<1>. QED BY <1>1, <1>2, <1>5, <1>6, <1>7, SlaveKeeps

(* A slave calls the start routine with its argument. *)
LEMMA CallThreadKeeps ==
  ASSUME CoreInv, NEW s \in Slaves, CallThread(s), OutsideThread
  PROVE  CoreInv'
<1>1. FieldsOK'
  BY CoreFacts, BootAssumption
     DEF CoreInv, FieldsOK, AtPlace, Status, CallThread, SlaveAt, slave, core0, OutsideThread
<1>2. StepOf(s)
  BY CoreFacts
     DEF CoreInv, FieldsOK, StepOf, Untouched, CallThread, SlaveAt, slave, core0, OutsideThread
<1>3. /\ at[s] = "call" /\ at'[s] = "body" /\ arg'[s] = param[s]
      /\ UNCHANGED <<pc, status, return_val, param, funcpoint, thread, left>>
  BY CoreFacts DEF CoreInv, FieldsOK, CallThread, SlaveAt, slave, OutsideThread
<1>4. MasterInv /\ PlaceInv(s) /\ StatusInv(s) /\ ThreadInv(s)
  BY DEF CoreInv, SlaveInv
<1>5. PlaceInv(s)'
  BY <1>2, <1>3, <1>4, ApplicationKeepsPlace
<1>6. StatusInv(s)'
  BY <1>2, <1>3, <1>4 DEF StepOf, StatusInv, core0
<1>7. ThreadInv(s)'
  BY <1>2, <1>3, <1>4 DEF StepOf, StatusInv, ThreadInv, In, core0
<1>. QED BY <1>1, <1>2, <1>5, <1>6, <1>7, SlaveKeeps

(* A thread returns without corethread_exit. *)
LEMMA ReturnPlainlyKeeps ==
  ASSUME CoreInv, NEW s \in Slaves, ReturnPlainly(s), OutsideThread
  PROVE  CoreInv'
<1>1. FieldsOK'
  BY CoreFacts, BootAssumption
     DEF CoreInv, FieldsOK, AtPlace, Status, ReturnPlainly, SlaveAt, MayEnd, slave, core0,
         OutsideThread
<1>2. StepOf(s)
  BY CoreFacts
     DEF CoreInv, FieldsOK, StepOf, Untouched, ReturnPlainly, SlaveAt, MayEnd, slave, core0,
         OutsideThread
<1>3. /\ at[s] = "body" /\ at'[s] = "end" /\ left'[s] = Minus1 /\ ~In("created", s)
      /\ UNCHANGED <<pc, status, return_val, param, funcpoint, thread, arg>>
  BY CoreFacts DEF CoreInv, FieldsOK, In, ReturnPlainly, SlaveAt, MayEnd, slave, OutsideThread
<1>4. MasterInv /\ PlaceInv(s) /\ StatusInv(s) /\ ThreadInv(s)
  BY DEF CoreInv, SlaveInv
<1>5. PlaceInv(s)'
  BY <1>2, <1>3, <1>4, ApplicationKeepsPlace
<1>6. StatusInv(s)'
  BY <1>2, <1>3, <1>4 DEF StepOf, StatusInv, core0
<1>7. ThreadInv(s)'
  BY <1>2, <1>3, <1>4 DEF StepOf, StatusInv, ThreadInv, In, core0
<1>. QED BY <1>1, <1>2, <1>5, <1>6, <1>7, SlaveKeeps

(* A thread passes its result to corethread_exit. *)
LEMMA ExitPassesKeeps ==
  ASSUME CoreInv, NEW s \in Slaves, ExitPasses(s), OutsideThread
  PROVE  CoreInv'
<1>1. FieldsOK'
  BY CoreFacts, BootAssumption
     DEF CoreInv, FieldsOK, AtPlace, Status, ExitPasses, SlaveAt, MayEnd, SetReturn, core0,
         OutsideThread
<1>2. StepOf(s)
  BY CoreFacts
     DEF CoreInv, FieldsOK, StepOf, Untouched, ExitPasses, SlaveAt, MayEnd, SetReturn, core0,
         OutsideThread
<1>3. /\ at[s] = "body" /\ at'[s] = "exit" /\ return_val'[s] = arg[s]
      /\ left'[s] = arg[s] /\ ~In("created", s)
      /\ UNCHANGED <<pc, status, param, funcpoint, thread, arg>>
  BY CoreFacts DEF CoreInv, FieldsOK, In, ExitPasses, SlaveAt, MayEnd, SetReturn, OutsideThread
<1>4. MasterInv /\ PlaceInv(s) /\ StatusInv(s) /\ ThreadInv(s)
  BY DEF CoreInv, SlaveInv
<1>5. PlaceInv(s)'
  BY <1>2, <1>3, <1>4, ApplicationKeepsPlace
<1>6. StatusInv(s)'
  BY <1>2, <1>3, <1>4, Zenon DEF StepOf, StatusInv, core0
<1>7. ThreadInv(s)'
  BY <1>2, <1>3, <1>4, Zenon DEF StepOf, StatusInv, ThreadInv, In, core0
<1>. QED BY <1>1, <1>2, <1>5, <1>6, <1>7, SlaveKeeps

(* corethread_exit shows STATUS_RETURN after it has stored the result. *)
LEMMA ExitShowsKeeps ==
  ASSUME CoreInv, NEW s \in Slaves, ExitShows(s), OutsideThread
  PROVE  CoreInv'
<1>1. FieldsOK'
  BY CoreFacts, BootAssumption
     DEF CoreInv, FieldsOK, AtPlace, Status, ExitShows, SlaveAt, SetStatus, core0, OutsideThread
<1>2. StepOf(s)
  BY CoreFacts
     DEF CoreInv, FieldsOK, StepOf, Untouched, ExitShows, SlaveAt, SetStatus, core0,
         OutsideThread
<1>3. /\ at[s] = "exit" /\ at'[s] = "end" /\ status'[s] = "RETURN"
      /\ UNCHANGED <<pc, return_val, param, funcpoint, thread, arg, left>>
  BY CoreFacts DEF CoreInv, FieldsOK, ExitShows, SlaveAt, SetStatus, OutsideThread
<1>4. MasterInv /\ PlaceInv(s) /\ StatusInv(s) /\ ThreadInv(s)
  BY DEF CoreInv, SlaveInv
<1>5. PlaceInv(s)'
  BY <1>2, <1>3, <1>4, ApplicationKeepsPlace
<1>6. StatusInv(s)'
  BY <1>2, <1>3, <1>4 DEF StepOf, StatusInv, core0
<1>7. ThreadInv(s)'
  BY <1>2, <1>3, <1>4, Zenon DEF StepOf, StatusInv, ThreadInv, In, core0
<1>. QED BY <1>1, <1>2, <1>5, <1>6, <1>7, SlaveKeeps

(* The worker shows STATUS_RETURN after the start routine. *)
LEMMA EndKeeps ==
  ASSUME CoreInv, NEW s \in Slaves, End(s), OutsideThread
  PROVE  CoreInv'
<1>1. FieldsOK'
  BY CoreFacts, BootAssumption
     DEF CoreInv, FieldsOK, AtPlace, Status, End, SlaveAt, SetStatus, core0, OutsideThread
<1>2. StepOf(s)
  BY CoreFacts
     DEF CoreInv, FieldsOK, StepOf, Untouched, End, SlaveAt, SetStatus, core0, OutsideThread
<1>3. /\ at[s] = "end" /\ at'[s] = "await_join" /\ status'[s] = "RETURN"
      /\ UNCHANGED <<pc, return_val, param, funcpoint, thread, arg, left>>
  BY CoreFacts DEF CoreInv, FieldsOK, End, SlaveAt, SetStatus, OutsideThread
<1>4. MasterInv /\ PlaceInv(s) /\ StatusInv(s) /\ ThreadInv(s)
  BY DEF CoreInv, SlaveInv
<1>5. PlaceInv(s)'
  BY <1>2, <1>3, <1>4, ApplicationKeepsPlace
<1>6. StatusInv(s)'
  BY <1>2, <1>3, <1>4 DEF StepOf, StatusInv, core0
<1>7. ThreadInv(s)'
  BY <1>2, <1>3, <1>4 DEF StepOf, StatusInv, ThreadInv, In, core0
<1>. QED BY <1>1, <1>2, <1>5, <1>6, <1>7, SlaveKeeps

(* A slave sees that its thread was joined. *)
LEMMA AwaitJoinKeeps ==
  ASSUME CoreInv, NEW s \in Slaves, AwaitJoin(s), OutsideThread
  PROVE  CoreInv'
<1>1. FieldsOK'
  BY CoreFacts, BootAssumption
     DEF CoreInv, FieldsOK, AtPlace, Status, AwaitJoin, SlaveAt, slave, core0, OutsideThread
<1>2. StepOf(s)
  BY CoreFacts
     DEF CoreInv, FieldsOK, StepOf, Untouched, AwaitJoin, SlaveAt, slave, core0, OutsideThread
<1>3. /\ at[s] = "await_join" /\ at'[s] = "poll" /\ funcpoint[s] = NULL
      /\ UNCHANGED <<pc, status, return_val, param, funcpoint, thread, arg, left>>
  BY CoreFacts DEF CoreInv, FieldsOK, AwaitJoin, SlaveAt, slave, OutsideThread
<1>4. MasterInv /\ PlaceInv(s) /\ StatusInv(s) /\ ThreadInv(s)
  BY DEF CoreInv, SlaveInv
<1>5. PlaceInv(s)'
  BY <1>2, <1>3, <1>4, ApplicationKeepsPlace
<1>6. StatusInv(s)'
  BY <1>2, <1>3, <1>4 DEF StepOf, StatusInv, core0
<1>7. ThreadInv(s)'
  BY <1>2, <1>3, <1>4 DEF StepOf, StatusInv, ThreadInv, In, core0
<1>. QED BY <1>1, <1>2, <1>5, <1>6, <1>7, SlaveKeeps

(* A slave leaves the loop when core 0 has returned. *)
LEMMA LeaveLoopKeeps ==
  ASSUME CoreInv, NEW s \in Slaves, LeaveLoop(s), OutsideThread
  PROVE  CoreInv'
<1>1. FieldsOK'
  BY CoreFacts, BootAssumption
     DEF CoreInv, FieldsOK, AtPlace, Status, LeaveLoop, SlaveAt, SetStatus, core0, OutsideThread
<1>2. StepOf(s)
  BY CoreFacts
     DEF CoreInv, FieldsOK, StepOf, Untouched, LeaveLoop, SlaveAt, SetStatus, core0,
         OutsideThread
<1>3. /\ at[s] = "poll" /\ at'[s] = "out" /\ status'[s] = "RETURN" /\ master = "RETURN"
      /\ UNCHANGED <<pc, return_val, param, funcpoint, thread, arg, left>>
  BY CoreFacts DEF CoreInv, FieldsOK, LeaveLoop, SlaveAt, SetStatus, OutsideThread
<1>4. MasterInv /\ PlaceInv(s) /\ StatusInv(s) /\ ThreadInv(s)
  BY DEF CoreInv, SlaveInv
<1>5. pc[Master] # "run" /\ app \notin InCallOfThread
  BY <1>3, <1>4 DEF MasterInv
<1>6. PlaceInv(s)'
  BY <1>2, <1>3, <1>4, <1>5, ApplicationKeepsPlace
<1>7. StatusInv(s)'
  BY <1>2, <1>3, <1>4, <1>5 DEF StepOf, StatusInv, core0
<1>8. ThreadInv(s)'
  BY <1>2, <1>3, <1>4, <1>5, Zenon DEF StepOf, StatusInv, ThreadInv, In, core0, InCallOfThread
<1>. QED BY <1>1, <1>2, <1>6, <1>7, <1>8, SlaveKeeps

(* A slave starts over: it overwrites boot_info->master. *)
LEMMA ResetKeeps ==
  ASSUME CoreInv, NEW s \in Slaves, Reset(s), UNCHANGED threadVars
  PROVE  CoreInv'
<1>1. FieldsOK'
  BY CoreFacts DEF CoreInv, FieldsOK, SlavePlace, Reset, Goto, slave, threadVars
<1>2. /\ pc[s] = "delay" /\ pc'[Master] = pc[Master] /\ pc'[s] = "clear"
      /\ \A t \in Slaves : pc[t] \notin {"return", "exit", "run"} /\ (t # s => pc'[t] = pc[t])
      /\ master' = "NULL" /\ pc[Master] \notin {"finish", "leave", "run"}
      /\ UNCHANGED <<i, status, funcpoint, app, target, threads, joined, at>>
  BY CoreFacts
     DEF CoreInv, FieldsOK, Reset, Goto, AllHaveLeft, slave, threadVars, core0
<1>3. MasterInv /\ pc[Master] \in {"delay", "clear", "announce"} /\ app \notin InCallOfThread
  BY <1>2 DEF CoreInv, SlaveInv, PlaceInv, MasterInv, MasterPlace
<1>4. MasterInv' /\ (joined[1] = joined[2])'
  <2>1. MasterInv' BY <1>2, <1>3 DEF MasterInv
  <2>2. joined[1] = joined[2] BY Zenon DEF CoreInv
  <2>. QED BY <1>2, <2>1, <2>2
<1>5. ASSUME NEW t \in Slaves PROVE SlaveInv(t)'
  <2>1. PlaceInv(t) /\ StatusInv(t) /\ ThreadInv(t) BY DEF CoreInv, SlaveInv
  <2>2. pc'[t] \in {"delay", "clear", "boot", "await_init"} /\ pc[t] # "run"
    BY <1>2, <1>3, <2>1 DEF PlaceInv, SlavePlace
  <2>3. PlaceInv(t)' BY <1>2, <1>3, <2>1, <2>2 DEF PlaceInv, SlavePlace
  <2>4. StatusInv(t)' BY <1>2, <2>1, <2>2, Zenon DEF StatusInv
  <2>5. ThreadInv(t)'
    BY <1>2, <1>3, <2>1, <2>2, Zenon DEF StatusInv, ThreadInv, In, InCallOfThread
  <2>. QED BY <2>3, <2>4, <2>5 DEF SlaveInv
<1>. QED BY <1>1, <1>4, <1>5 DEF CoreInv

(* A slave calls the application, if there is one. *)
LEMMA SlaveCallKeeps ==
  ASSUME CoreInv, NEW s \in Slaves, Call(s),
         at' = [t \in Slaves |-> IF t = s /\ HasEntry THEN "configure" ELSE at[t]],
         UNCHANGED <<core0, thread, arg, left>>
  PROVE  CoreInv'
<1>1. FieldsOK'
  <2>1. at' \in [Slaves -> AtPlace] BY DEF CoreInv, FieldsOK, AtPlace
  <2>. QED BY CoreFacts, <2>1 DEF CoreInv, FieldsOK, SlavePlace, Call, Goto, AfterCall, slave
<1>2. StepOf(s)
  BY CoreFacts DEF CoreInv, FieldsOK, StepOf, Untouched, Call, Goto, slave, core0
<1>3. /\ pc[s] = "call" /\ UNCHANGED <<status, funcpoint>>
      /\ \/ HasEntry /\ pc'[s] = "run" /\ at'[s] = "configure"
         \/ ~HasEntry /\ pc'[s] = "return" /\ at'[s] = at[s]
  BY CoreFacts DEF CoreInv, FieldsOK, Call, Goto, AfterCall, slave
<1>4. MasterInv /\ PlaceInv(s) /\ StatusInv(s) /\ ThreadInv(s)
  BY DEF CoreInv, SlaveInv
<1>5. app = "configure" /\ pc[Master] \in {"await_started", "call", "run", "finish"}
  BY <1>3, <1>4 DEF MasterInv, MasterPlace, PlaceInv, StatusInv
<1>6. PlaceInv(s)'
  BY <1>2, <1>3, <1>4, <1>5 DEF StepOf, MasterInv, PlaceInv, SlavePlace, HasEntry
<1>7. StatusInv(s)'
  BY <1>2, <1>3, <1>4, <1>5, Zenon DEF StepOf, StatusInv, MasterInv, core0
<1>8. ThreadInv(s)'
  BY <1>2, <1>3, <1>4, <1>5, Zenon DEF StepOf, StatusInv, ThreadInv, In, core0
<1>. QED BY <1>1, <1>2, <1>6, <1>7, <1>8, SlaveKeeps

(* The application of a slave returns. *)
LEMMA SlaveReturnKeeps ==
  ASSUME CoreInv, NEW s \in Slaves, ApplicationReturns(s), at[s] = "out", UNCHANGED threadVars
  PROVE  CoreInv'
<1>1. FieldsOK'
  BY CoreFacts
     DEF CoreInv, FieldsOK, SlavePlace, ApplicationReturns, Goto, AfterCall, Keep, threadVars
<1>2. StepOf(s)
  BY CoreFacts
     DEF CoreInv, FieldsOK, StepOf, Untouched, ApplicationReturns, Goto, Keep, threadVars, core0
<1>3. pc[s] = "run" /\ pc'[s] = "return" /\ UNCHANGED <<status, funcpoint, at>>
  BY CoreFacts DEF CoreInv, FieldsOK, ApplicationReturns, Goto, AfterCall, threadVars
<1>4. MasterInv /\ PlaceInv(s) /\ StatusInv(s) /\ ThreadInv(s)
  BY DEF CoreInv, SlaveInv
<1>5. pc[Master] \notin {"run", "await_started", "call"} /\ app \notin InCallOfThread
  BY <1>3, <1>4 DEF MasterInv, PlaceInv, StatusInv, Starting
<1>6. PlaceInv(s)'
  BY <1>2, <1>3, <1>4, <1>5 DEF StepOf, PlaceInv, SlavePlace
<1>7. StatusInv(s)'
  BY <1>2, <1>3, <1>4, Zenon DEF StepOf, StatusInv, core0
<1>8. ThreadInv(s)'
  BY <1>2, <1>3, <1>4, <1>5, Zenon DEF StepOf, StatusInv, ThreadInv, In, InCallOfThread, core0
<1>. QED BY <1>1, <1>2, <1>6, <1>7, <1>8, SlaveKeeps

-----------------------------------------------------------------------------
(* Core 0 in the boot loader *)

(* Core 0 moves on in the boot loader, and no field of a slave changes. *)
MasterMoves(place) ==
  /\ UNCHANGED <<slave, threadVars>> /\ pc' = [pc EXCEPT ![Master] = place] /\ place \in MasterPlace

(* A move of core 0 keeps the invariant if the new place fits boot_info->master, the
   slaves and their threads. *)
LEMMA MasterMovesKeeps ==
  ASSUME CoreInv, NEW place, MasterMoves(place), MasterInv', \A t \in Slaves : PlaceInv(t)',
         \A t \in Slaves : pc[t] = "run" =>
           /\ app = "configure" => place \in {"await_started", "call", "run"}
           /\ place # "run" => funcpoint[t] = NULL
  PROVE  CoreInv'
<1>1. FieldsOK'
  BY CoreFacts DEF CoreInv, FieldsOK, MasterMoves, slave, threadVars
<1>2. pc'[Master] = place /\ (\A t \in Slaves : pc'[t] = pc[t])
  BY CoreFacts DEF CoreInv, FieldsOK, MasterMoves
<1>3. ASSUME NEW t \in Slaves PROVE StatusInv(t)' /\ ThreadInv(t)'
  <2>1. StatusInv(t)'
    BY <1>2 DEF CoreInv, SlaveInv, StatusInv, MasterMoves, slave, threadVars, core0
  <2>2. ThreadInv(t)'
    BY <1>2, Zenon DEF CoreInv, SlaveInv, ThreadInv, In, MasterMoves, slave, threadVars, core0
  <2>. QED BY <2>1, <2>2
<1>4. (joined[1] = joined[2])' BY DEF CoreInv, MasterMoves, threadVars, core0
<1>. QED BY <1>1, <1>3, <1>4, Zenon DEF CoreInv, SlaveInv

(* A place of core 0 at which no slave runs an application, or each of them is done with
   its threads. *)
NoneRuns(place) ==
  \A t \in Slaves : pc[t] = "run" =>
    /\ app = "configure" => place \in {"await_started", "call", "run"}
    /\ place # "run" => funcpoint[t] = NULL

(* Core 0 shows STATUS_BOOT. *)
LEMMA AnnounceKeeps ==
  ASSUME CoreInv, Announce, UNCHANGED threadVars
  PROVE  CoreInv'
<1>1. MasterMoves("announce") /\ pc[Master] = "announce"
  BY CoreFacts
     DEF CoreInv, FieldsOK, MasterMoves, MasterPlace, Announce, Keep, slave, threadVars, core0
<1>2. /\ pc'[Master] = "announce" /\ master' = "BOOT" /\ UNCHANGED <<i, entrypoint>>
      /\ UNCHANGED <<app, target, threads, at>> /\ \A t \in Slaves : pc'[t] = pc[t]
  BY CoreFacts DEF CoreInv, FieldsOK, Announce, Keep, threadVars, core0
<1>3. MasterInv'
  <2>1. MasterInv BY Zenon DEF CoreInv
  <2>. QED BY <1>1, <1>2, <2>1, CoreFacts DEF MasterInv, MasterPlace, Starting, HasEntry
<1>4. ASSUME NEW t \in Slaves PROVE PlaceInv(t)'
  <2>1. PlaceInv(t) BY Zenon DEF CoreInv, SlaveInv
  <2>. QED BY <1>1, <1>2, <2>1, CoreFacts DEF PlaceInv, HasEntry
<1>5. NoneRuns("announce")
  BY <1>1, <1>2 DEF CoreInv, SlaveInv, PlaceInv, StatusInv, NoneRuns
<1>. QED BY <1>1, <1>3, <1>4, <1>5, MasterMovesKeeps DEF NoneRuns

(* Core 0 has seen all slaves and downloads a program. *)
LEMMA BeginDownloadKeeps ==
  ASSUME CoreInv, BeginDownload, UNCHANGED threadVars
  PROVE  CoreInv'
<1>1. MasterMoves("download") /\ pc[Master] = "announce"
  BY CoreFacts
     DEF CoreInv, FieldsOK, MasterMoves, MasterPlace, BeginDownload, SlavesAreUp, Goto, Keep,
         slave, threadVars, core0
<1>2. /\ pc'[Master] = "download" /\ master = "BOOT" /\ UNCHANGED <<i, master, entrypoint>>
      /\ \A t \in Slaves : pc[t] = "await_init"
      /\ UNCHANGED <<app, target, threads, at>> /\ \A t \in Slaves : pc'[t] = pc[t]
  BY CoreFacts DEF CoreInv, FieldsOK, BeginDownload, SlavesAreUp, Goto, Keep, threadVars, core0
<1>3. MasterInv'
  <2>1. MasterInv BY Zenon DEF CoreInv
  <2>. QED BY <1>1, <1>2, <2>1, CoreFacts DEF MasterInv, MasterPlace, Starting, HasEntry
<1>4. ASSUME NEW t \in Slaves PROVE PlaceInv(t)'
  <2>1. PlaceInv(t) BY Zenon DEF CoreInv, SlaveInv
  <2>. QED BY <1>1, <1>2, <2>1, CoreFacts DEF PlaceInv, HasEntry
<1>5. NoneRuns("download")
  BY <1>1, <1>2 DEF CoreInv, SlaveInv, PlaceInv, StatusInv, NoneRuns
<1>. QED BY <1>1, <1>3, <1>4, <1>5, MasterMovesKeeps DEF NoneRuns

(* Core 0 sets the entry point to what the download gave. *)
LEMMA EndDownloadKeeps ==
  ASSUME CoreInv, NEW result, EndDownload(result), UNCHANGED threadVars
  PROVE  CoreInv'
<1>1. MasterMoves("start") /\ pc[Master] = "download"
  BY CoreFacts
     DEF CoreInv, FieldsOK, MasterMoves, MasterPlace, EndDownload, Goto, slave, threadVars,
         core0
<1>2. /\ pc'[Master] = "start" /\ UNCHANGED <<i, master>>
      /\ UNCHANGED <<app, target, threads, at>> /\ \A t \in Slaves : pc'[t] = pc[t]
  BY CoreFacts DEF CoreInv, FieldsOK, EndDownload, Goto, threadVars, core0
<1>3. MasterInv'
  <2>1. MasterInv BY Zenon DEF CoreInv
  <2>. QED BY <1>1, <1>2, <2>1, CoreFacts DEF MasterInv, MasterPlace, Starting, HasEntry
<1>4. ASSUME NEW t \in Slaves PROVE PlaceInv(t)'
  <2>1. PlaceInv(t) BY Zenon DEF CoreInv, SlaveInv
  <2>. QED BY <1>1, <1>2, <2>1, CoreFacts DEF PlaceInv, HasEntry
<1>5. NoneRuns("start")
  BY <1>1, <1>2 DEF CoreInv, SlaveInv, PlaceInv, StatusInv, NoneRuns
<1>. QED BY <1>1, <1>3, <1>4, <1>5, MasterMovesKeeps DEF NoneRuns

(* Core 0 shows STATUS_INIT. *)
LEMMA StartKeeps ==
  ASSUME CoreInv, Start, UNCHANGED threadVars
  PROVE  CoreInv'
<1>1. MasterMoves("await_started") /\ pc[Master] = "start"
  BY CoreFacts
     DEF CoreInv, FieldsOK, MasterMoves, MasterPlace, Start, Goto, Keep, slave, threadVars,
         core0
<1>2. /\ pc'[Master] = "await_started" /\ master' = "INIT" /\ i' = 1 /\ UNCHANGED entrypoint
      /\ UNCHANGED <<app, target, threads, at>> /\ \A t \in Slaves : pc'[t] = pc[t]
  BY CoreFacts DEF CoreInv, FieldsOK, Start, Goto, Keep, threadVars, core0
<1>3. MasterInv'
  <2>1. MasterInv BY Zenon DEF CoreInv
  <2>. QED BY <1>1, <1>2, <2>1, CoreFacts DEF MasterInv, MasterPlace, Starting, HasEntry
<1>4. ASSUME NEW t \in Slaves PROVE PlaceInv(t)'
  <2>1. PlaceInv(t) BY Zenon DEF CoreInv, SlaveInv
  <2>. QED BY <1>1, <1>2, <2>1, CoreFacts DEF PlaceInv, HasEntry
<1>5. NoneRuns("await_started")
  BY <1>1, <1>2 DEF CoreInv, SlaveInv, PlaceInv, StatusInv, NoneRuns
<1>. QED BY <1>1, <1>3, <1>4, <1>5, MasterMovesKeeps DEF NoneRuns

(* Core 0 waits until each slave has started. *)
LEMMA AwaitStartedKeeps ==
  ASSUME CoreInv, AwaitStarted, UNCHANGED threadVars
  PROVE  CoreInv'
<1>1. /\ pc[Master] = "await_started" /\ UNCHANGED <<entrypoint, app, target, threads, at>>
      /\ \A t \in Slaves : pc'[t] = pc[t]
  BY CoreFacts DEF CoreInv, FieldsOK, AwaitStarted, Visit, Goto, Keep, threadVars, core0
<1>2. CASE i < Cores /\ Started(i) /\ i' = i + 1 /\ UNCHANGED <<pc, master>>
  <2>1. i \in Slaves /\ (\A t \in Slaves : t < i + 1 => t < i \/ t = i)
    BY <1>2, CoreFacts DEF CoreInv, MasterInv
  <2>2. MasterMoves("await_started")
    BY <1>1, <1>2, CoreFacts, Zenon
       DEF CoreInv, FieldsOK, AwaitStarted, Visit, MasterMoves, MasterPlace
  <2>3. MasterInv'
    <3>1. MasterInv BY Zenon DEF CoreInv
    <3>. QED BY <1>1, <1>2, <3>1, CoreFacts DEF MasterInv, HasEntry
  <2>4. SlaveInv(i) BY <2>1 DEF CoreInv
  <2>5. ASSUME NEW t \in Slaves PROVE PlaceInv(t)'
    <3>1. PlaceInv(t) /\ StatusInv(t) BY Zenon DEF CoreInv, SlaveInv
    <3>. QED
      BY <1>1, <1>2, <2>1, <2>4, <3>1 DEF SlaveInv, PlaceInv, StatusInv, Started, HasEntry
  <2>6. NoneRuns("await_started")
    BY <1>1, Zenon DEF CoreInv, SlaveInv, StatusInv, NoneRuns
  <2>. QED BY <2>2, <2>3, <2>5, <2>6, MasterMovesKeeps DEF NoneRuns
<1>3. CASE i = Cores /\ i' = 1 /\ Goto(Master, "call") /\ master' = master
  <2>1. MasterMoves("call") /\ pc'[Master] = "call"
    BY <1>1, <1>3, CoreFacts
       DEF CoreInv, FieldsOK, AwaitStarted, Visit, MasterMoves, MasterPlace, Goto
  <2>2. MasterInv'
    <3>1. MasterInv BY Zenon DEF CoreInv
    <3>. QED BY <1>1, <1>3, <2>1, <3>1, CoreFacts DEF MasterInv, MasterPlace, Starting, HasEntry
  <2>3. ASSUME NEW t \in Slaves PROVE PlaceInv(t)'
    <3>1. PlaceInv(t) BY Zenon DEF CoreInv, SlaveInv
    <3>. QED BY <1>1, <1>3, <2>1, <3>1, CoreFacts DEF PlaceInv, HasEntry
  <2>4. NoneRuns("call")
    BY <1>1 DEF CoreInv, SlaveInv, StatusInv, NoneRuns
  <2>. QED BY <2>1, <2>2, <2>3, <2>4, MasterMovesKeeps DEF NoneRuns
<1>. QED BY <1>2, <1>3 DEF AwaitStarted, Visit

(* Core 0 waits until each slave has returned, and shows STATUS_RETURN. *)
LEMMA FinishKeeps ==
  ASSUME CoreInv, Finish, UNCHANGED threadVars
  PROVE  CoreInv'
<1>1. /\ pc[Master] = "finish" /\ UNCHANGED <<entrypoint, app, target, threads, at>>
      /\ \A t \in Slaves : pc'[t] = pc[t]
  BY CoreFacts DEF CoreInv, FieldsOK, Finish, Visit, Goto, Keep, threadVars, core0
<1>2. CASE i < Cores /\ Returned(i) /\ i' = i + 1 /\ UNCHANGED <<pc, master>>
  <2>1. i \in Slaves /\ (\A t \in Slaves : t < i + 1 => t < i \/ t = i)
    BY <1>2, CoreFacts DEF CoreInv, MasterInv
  <2>2. MasterMoves("finish")
    BY <1>1, <1>2, CoreFacts DEF CoreInv, FieldsOK, Finish, Visit, MasterMoves, MasterPlace
  <2>3. MasterInv'
    <3>1. MasterInv BY Zenon DEF CoreInv
    <3>. QED BY <1>1, <1>2, <3>1, CoreFacts DEF MasterInv, HasEntry
  <2>4. SlaveInv(i) BY <2>1 DEF CoreInv
  <2>5. ASSUME NEW t \in Slaves PROVE PlaceInv(t)'
    <3>1. PlaceInv(t) /\ StatusInv(t) BY Zenon DEF CoreInv, SlaveInv
    <3>. QED
      BY <1>1, <1>2, <2>1, <2>4, <3>1 DEF SlaveInv, PlaceInv, StatusInv, Returned, HasEntry
  <2>6. NoneRuns("finish")
    BY <1>1, Zenon DEF CoreInv, SlaveInv, StatusInv, NoneRuns
  <2>. QED BY <2>2, <2>3, <2>5, <2>6, MasterMovesKeeps DEF NoneRuns
<1>3. CASE i = Cores /\ i' = 1 /\ Goto(Master, "leave") /\ master' = "RETURN"
  <2>1. MasterMoves("leave") /\ pc'[Master] = "leave"
    BY <1>1, <1>3, CoreFacts
       DEF CoreInv, FieldsOK, Finish, Visit, MasterMoves, MasterPlace, Goto
  <2>2. MasterInv'
    <3>1. MasterInv BY Zenon DEF CoreInv
    <3>. QED BY <1>1, <1>3, <2>1, <3>1, CoreFacts DEF MasterInv, MasterPlace, Starting, HasEntry
  <2>3. ASSUME NEW t \in Slaves PROVE PlaceInv(t)'
    <3>1. PlaceInv(t) BY Zenon DEF CoreInv, SlaveInv
    <3>. QED BY <1>1, <1>3, <2>1, <3>1, CoreFacts DEF PlaceInv, HasEntry
  <2>4. NoneRuns("leave")
    BY <1>1 DEF CoreInv, SlaveInv, StatusInv, NoneRuns
  <2>. QED BY <2>1, <2>2, <2>3, <2>4, MasterMovesKeeps DEF NoneRuns
<1>. QED BY <1>2, <1>3 DEF Finish, Visit

(* Core 0 waits until each slave has left, and goes back to the start. *)
LEMMA LeaveKeeps ==
  ASSUME CoreInv, Leave, UNCHANGED threadVars
  PROVE  CoreInv'
<1>1. /\ pc[Master] = "leave" /\ UNCHANGED <<entrypoint, app, target, threads, at>>
      /\ \A t \in Slaves : pc'[t] = pc[t]
  BY CoreFacts DEF CoreInv, FieldsOK, Leave, Visit, Goto, Keep, threadVars, core0
<1>2. CASE i < Cores /\ Left(i) /\ i' = i + 1 /\ UNCHANGED <<pc, master>>
  <2>1. i \in Slaves /\ (\A t \in Slaves : t < i + 1 => t < i \/ t = i)
    BY <1>2, CoreFacts DEF CoreInv, MasterInv
  <2>2. MasterMoves("leave")
    BY <1>1, <1>2, CoreFacts DEF CoreInv, FieldsOK, Leave, Visit, MasterMoves, MasterPlace
  <2>3. MasterInv'
    <3>1. MasterInv BY Zenon DEF CoreInv
    <3>. QED BY <1>1, <1>2, <3>1, CoreFacts DEF MasterInv, HasEntry
  <2>4. SlaveInv(i) BY <2>1 DEF CoreInv
  <2>5. ASSUME NEW t \in Slaves PROVE PlaceInv(t)'
    <3>1. PlaceInv(t) /\ StatusInv(t) BY Zenon DEF CoreInv, SlaveInv
    <3>. QED BY <1>1, <1>2, <2>1, <2>4, <3>1 DEF SlaveInv, PlaceInv, StatusInv, HasEntry
  <2>6. NoneRuns("leave")
    BY <1>1, Zenon DEF CoreInv, SlaveInv, StatusInv, NoneRuns
  <2>. QED BY <2>2, <2>3, <2>5, <2>6, MasterMovesKeeps DEF NoneRuns
<1>3. CASE i = Cores /\ i' = 1 /\ Goto(Master, "delay") /\ master' = master
  <2>1. MasterMoves("delay") /\ pc'[Master] = "delay"
    BY <1>1, <1>3, CoreFacts DEF CoreInv, FieldsOK, Leave, Visit, MasterMoves, MasterPlace, Goto
  <2>2. MasterInv'
    <3>1. MasterInv BY Zenon DEF CoreInv
    <3>. QED BY <1>1, <1>3, <2>1, <3>1, CoreFacts DEF MasterInv, MasterPlace, Starting, HasEntry
  <2>3. ASSUME NEW t \in Slaves PROVE PlaceInv(t)'
    <3>1. PlaceInv(t) BY Zenon DEF CoreInv, SlaveInv
    <3>. QED BY <1>1, <1>3, <2>1, <3>1, CoreFacts DEF PlaceInv, HasEntry
  <2>4. NoneRuns("delay")
    BY <1>1 DEF CoreInv, SlaveInv, StatusInv, NoneRuns
  <2>. QED BY <2>1, <2>2, <2>3, <2>4, MasterMovesKeeps DEF NoneRuns
<1>. QED BY <1>2, <1>3 DEF Leave, Visit

(* Core 0 calls the application, if there is one. *)
LEMMA MasterCallKeeps ==
  ASSUME CoreInv, Call(Master), UNCHANGED threadVars
  PROVE  CoreInv'
<1>1. /\ pc[Master] = "call" /\ UNCHANGED <<i, master, entrypoint, app, target, threads, at>>
      /\ \A t \in Slaves : pc'[t] = pc[t]
  BY CoreFacts DEF CoreInv, FieldsOK, Call, Goto, threadVars, core0
<1>2. CASE HasEntry
  <2>1. MasterMoves("run") /\ pc'[Master] = "run"
    BY <1>2, CoreFacts DEF CoreInv, FieldsOK, Call, Goto, MasterMoves, MasterPlace
  <2>2. MasterInv'
    <3>1. MasterInv BY Zenon DEF CoreInv
    <3>. QED BY <1>1, <1>2, <2>1, <3>1 DEF MasterInv, MasterPlace, Starting, HasEntry
  <2>3. ASSUME NEW t \in Slaves PROVE PlaceInv(t)'
    <3>1. PlaceInv(t) /\ StatusInv(t) /\ MasterInv BY Zenon DEF CoreInv, SlaveInv
    <3>. QED BY <1>1, <1>2, <2>1, <3>1 DEF MasterInv, Starting, PlaceInv, StatusInv, HasEntry
  <2>. QED BY <2>1, <2>2, <2>3, MasterMovesKeeps
<1>3. CASE ~HasEntry
  <2>1. MasterMoves("finish") /\ pc'[Master] = "finish"
    BY <1>3, CoreFacts DEF CoreInv, FieldsOK, Call, Goto, AfterCall, MasterMoves, MasterPlace
  <2>2. MasterInv'
    <3>1. MasterInv BY Zenon DEF CoreInv
    <3>. QED BY <1>1, <1>3, <2>1, <3>1, Zenon DEF MasterInv, MasterPlace, Starting, HasEntry
  <2>3. i = 1 /\ \A t \in Slaves : ~(t < 1)
    BY <1>1 DEF CoreInv, MasterInv, Slaves
  <2>4. ASSUME NEW t \in Slaves PROVE PlaceInv(t)' /\ pc[t] # "run"
    BY <1>1, <1>3, <2>1, <2>3 DEF CoreInv, SlaveInv, PlaceInv, HasEntry
  <2>. QED BY <2>1, <2>2, <2>4, MasterMovesKeeps
<1>. QED BY <1>2, <1>3

(* The application of core 0 returns, all threads joined. *)
LEMMA MasterReturnKeeps ==
  ASSUME CoreInv, ApplicationReturns(Master), AllJoined, UNCHANGED threadVars
  PROVE  CoreInv'
<1>1. /\ pc[Master] = "run" /\ UNCHANGED <<i, master, entrypoint, app, target, threads, at>>
      /\ app = "main" /\ \A t \in Slaves : pc'[t] = pc[t] /\ funcpoint[t] = NULL
  BY CoreFacts, Zenon
     DEF CoreInv, FieldsOK, ApplicationReturns, AllJoined, Keep, Goto, threadVars, core0
<1>2. MasterMoves("finish") /\ pc'[Master] = "finish"
  BY CoreFacts
     DEF CoreInv, FieldsOK, ApplicationReturns, AfterCall, Goto, MasterMoves, MasterPlace, slave
<1>3. MasterInv'
  <2>1. MasterInv BY Zenon DEF CoreInv
  <2>. QED BY <1>1, <1>2, <2>1 DEF MasterInv, MasterPlace, Starting, InCallOfThread
<1>4. i = 1 /\ \A t \in Slaves : ~(t < 1)
  BY <1>1 DEF CoreInv, MasterInv, Slaves
<1>5. ASSUME NEW t \in Slaves PROVE PlaceInv(t)'
  <2>1. PlaceInv(t) BY Zenon DEF CoreInv, SlaveInv
  <2>. QED BY <1>1, <1>2, <1>4, <2>1 DEF PlaceInv, HasEntry
<1>. QED BY <1>1, <1>2, <1>3, <1>5, MasterMovesKeeps, Zenon

(* Core 0 clears the fields of the slaves, one after the other. *)
LEMMA ClearSlavesKeeps ==
  ASSUME CoreInv, ClearSlaves, UNCHANGED threadVars
  PROVE  CoreInv'
<1>1. pc[Master] = "clear" /\ UNCHANGED <<entrypoint, app, target, threads, joined, at, master>>
  BY DEF ClearSlaves, Keep, threadVars, core0
<1>2. MasterInv /\ app = "configure" /\ \A t \in Slaves : pc[t] \in {"delay", "clear", "boot"}
  BY <1>1 DEF CoreInv, MasterInv, Starting, SlaveInv, PlaceInv
<1>3. CASE i < Cores
  <2>1. i \in Slaves /\ i' = i + 1 /\ UNCHANGED pc /\ ClearFields(i)
    BY <1>3, CoreFacts DEF CoreInv, MasterInv, ClearSlaves
  <2>2. FieldsOK'
    BY <2>1, BootAssumption DEF CoreInv, FieldsOK, Status, ClearFields, threadVars
  <2>3. MasterInv' /\ (joined[1] = joined[2])'
    BY <1>1, <1>2, <1>3, <2>1, CoreFacts DEF CoreInv, MasterInv, HasEntry
  <2>4. ASSUME NEW t \in Slaves PROVE SlaveInv(t)'
    <3>1. funcpoint'[t] \in {NULL, funcpoint[t]}
      BY <2>1 DEF CoreInv, FieldsOK, ClearFields
    <3>2. PlaceInv(t)'
      <4>1. PlaceInv(t) BY Zenon DEF CoreInv, SlaveInv
      <4>. QED BY <1>1, <1>2, <2>1, <4>1 DEF PlaceInv, HasEntry
    <3>3. StatusInv(t)'
      BY <1>1, <1>2, <2>1, <3>1, Zenon DEF CoreInv, SlaveInv, StatusInv
    <3>4. ThreadInv(t)'
      BY <1>1, <1>2, <2>1, Zenon DEF CoreInv, SlaveInv, StatusInv, ThreadInv, In
    <3>. QED BY <3>2, <3>3, <3>4 DEF SlaveInv
  <2>. QED BY <2>2, <2>3, <2>4 DEF CoreInv
<1>4. CASE ~(i < Cores)
  <2>1. MasterMoves("announce") /\ pc'[Master] = "announce" /\ UNCHANGED i
    BY <1>4, CoreFacts DEF CoreInv, FieldsOK, ClearSlaves, Goto, MasterMoves, MasterPlace
  <2>2. \A t \in Slaves : pc'[t] = pc[t]
    BY <1>4, CoreFacts DEF CoreInv, FieldsOK, ClearSlaves, Goto
  <2>3. MasterInv'
    BY <1>1, <1>2, <2>1 DEF MasterInv, MasterPlace, HasEntry
  <2>4. ASSUME NEW t \in Slaves PROVE PlaceInv(t)'
    <3>1. PlaceInv(t) BY Zenon DEF CoreInv, SlaveInv
    <3>. QED BY <1>1, <1>2, <2>1, <2>2, <3>1 DEF PlaceInv, HasEntry
  <2>. QED BY <1>2, <2>1, <2>3, <2>4, MasterMovesKeeps, Zenon
<1>. QED BY <1>3, <1>4

(* Core 0 starts over, with a program that has no threads yet. *)
LEMMA MasterResetKeeps ==
  ASSUME CoreInv, Reset(Master), NewThreads
  PROVE  CoreInv'
<1>1. None \in [Slaves -> Nat] BY CoreFacts DEF None
<1>2. FieldsOK'
  BY <1>1, CoreFacts DEF CoreInv, FieldsOK, MasterPlace, Reset, Goto, slave, NewThreads
<1>3. /\ pc[Master] = "delay" /\ pc'[Master] = "clear" /\ master' = "NULL" /\ i' = 1
      /\ app' = "configure" /\ threads' = 0 /\ UNCHANGED <<at, status, funcpoint>>
      /\ \A t \in Slaves : pc[t] \notin {"return", "exit", "run"} /\ pc'[t] = pc[t]
  BY CoreFacts DEF CoreInv, FieldsOK, Reset, Goto, AllHaveLeft, slave, NewThreads
<1>4. MasterInv' /\ (joined[1] = joined[2])'
  BY <1>3, CoreFacts DEF MasterInv, MasterPlace, InCallOfThread, NewThreads
<1>5. ASSUME NEW t \in Slaves PROVE SlaveInv(t)'
  <2>1. pc'[t] \in {"delay", "clear", "boot"} /\ at'[t] = "out"
    BY <1>3 DEF CoreInv, SlaveInv, PlaceInv, SlavePlace, StatusInv
  <2>2. PlaceInv(t)' BY <1>3, <2>1 DEF PlaceInv, SlavePlace
  <2>3. StatusInv(t)' BY <1>3, <2>1 DEF CoreInv, SlaveInv, StatusInv
  <2>4. ThreadInv(t)' BY <1>3, <2>1, Zenon DEF ThreadInv, In
  <2>. QED BY <2>2, <2>3, <2>4 DEF SlaveInv
<1>. QED BY <1>2, <1>4, <1>5 DEF CoreInv

-----------------------------------------------------------------------------
(* Core 0 in the application *)

(* Once core 0 has left noc_init, every slave is in the application. *)
LEMMA AllRun ==
  ASSUME CoreInv, pc[Master] = "run", app # "configure", NEW s \in Slaves
  PROVE  pc[s] = "run" /\ at[s] # "out"
BY DEF CoreInv, SlaveInv, PlaceInv, StatusInv

(* Core 0 leaves the barrier when every slave has shown that it is configured. *)
LEMMA NetworkStartsKeeps ==
  ASSUME CoreInv, pc[Master] = "run", NetworkStarts, OutsideNocInit
  PROVE  CoreInv'
<1>1. FieldsOK' BY DEF CoreInv, FieldsOK, NetworkStarts, slave, OutsideNocInit
<1>2. /\ app = "configure" /\ app' = "main" /\ master' = "INITDONE"
      /\ \A s \in Slaves : status[s] \in {"NULL", "INITDONE"}
      /\ UNCHANGED <<pc, i, entrypoint, threads, target, joined, at, slave, thread, arg, left>>
  BY DEF NetworkStarts, Configured, OutsideNocInit
<1>3. MasterInv' /\ (joined[1] = joined[2])'
  BY <1>2 DEF CoreInv, MasterInv, MasterPlace, Starting, InCallOfThread, HasEntry
<1>4. ASSUME NEW s \in Slaves PROVE SlaveInv(s)'
  <2>1. pc[s] = "run" /\ at[s] = "await_network" /\ funcpoint[s] = NULL /\ status[s] = "INITDONE"
    BY <1>2 DEF CoreInv, SlaveInv, PlaceInv, StatusInv
  <2>2. PlaceInv(s)' BY <1>2, <2>1 DEF CoreInv, SlaveInv, PlaceInv, HasEntry
  <2>3. StatusInv(s)' BY <1>2, <2>1, Zenon DEF CoreInv, SlaveInv, StatusInv, slave
  <2>4. ThreadInv(s)' BY <1>2, <2>1, Zenon DEF ThreadInv, In, slave
  <2>. QED BY <2>2, <2>3, <2>4 DEF SlaveInv
<1>. QED BY <1>1, <1>3, <1>4 DEF CoreInv

(* A step of core 0 in corethread_create or corethread_join for slave s. *)
CallFor(s) ==
  /\ pc[Master] = "run" /\ app # "configure" /\ app' \in {"main"} \cup InCallOfThread
  /\ app \in InCallOfThread => target = s
  /\ app' \in InCallOfThread => target' = s
  /\ UNCHANGED <<pc, i, master, entrypoint, at, thread, arg, status, return_val>>
  /\ \A t \in Slaves : t # s =>
       param'[t] = param[t] /\ funcpoint'[t] = funcpoint[t] /\ left'[t] = left[t]

(* Such a step keeps the invariant if it keeps what is known of that thread. *)
LEMMA CallForKeeps ==
  ASSUME CoreInv, NEW s \in Slaves, CallFor(s), FieldsOK', threads' \in Nat, ThreadInv(s)',
         (joined[1] = joined[2])'
  PROVE  CoreInv'
<1>1. MasterInv' BY Zenon DEF CoreInv, MasterInv, CallFor, InCallOfThread, Starting, HasEntry
<1>2. ASSUME NEW t \in Slaves PROVE SlaveInv(t)'
  <2>1. pc[t] = "run" /\ at[t] # "out" BY AllRun DEF CallFor
  <2>2. PlaceInv(t) /\ StatusInv(t) /\ ThreadInv(t) BY DEF CoreInv, SlaveInv
  <2>3. PlaceInv(t)' BY <2>2 DEF PlaceInv, CallFor, HasEntry
  <2>4. StatusInv(t)' BY <2>1, <2>2, Zenon DEF StatusInv, CallFor, InCallOfThread
  <2>5. ASSUME t # s PROVE ThreadInv(t)'
    <3>1. \A call \in InCallOfThread : ~In(call, t) /\ ~In(call, t)'
      BY <2>5 DEF In, CallFor
    <3>2. /\ ~In("publish", t) /\ ~In("created", t) /\ ~In("publish", t)' /\ ~In("created", t)'
          /\ ~In("join", t)' /\ ~In("joined", t)'
      BY <3>1 DEF InCallOfThread
    <3>. QED BY <2>2, <2>5, <3>2, Zenon DEF ThreadInv, CallFor
  <2>. QED BY <2>3, <2>4, <2>5 DEF SlaveInv
<1>. QED BY <1>1, <1>2 DEF CoreInv

(* corethread_create tests whether the core is free, and stores the argument. *)
LEMMA CreateKeeps ==
  ASSUME CoreInv, pc[Master] = "run", NEW s \in Slaves, corethread_create(s), OutsideThread
  PROVE  CoreInv'
<1>1. FieldsOK' /\ threads' \in Nat /\ (joined[1] = joined[2])'
  BY DEF CoreInv, FieldsOK, MasterInv, corethread_create, OutsideThread
<1>2. CallFor(s)
  BY DEF CoreInv, FieldsOK, CallFor, InCallOfThread, corethread_create, MayCreate, OutsideThread
<1>3. at[s] = "poll"
  <2>1. pc[s] = "run" /\ at[s] # "out" BY AllRun DEF corethread_create, MayCreate
  <2>2. at[s] # "enter" BY DEF CoreInv, SlaveInv, StatusInv, corethread_create
  <2>. QED BY <2>1, <2>2 DEF corethread_create, MayCreate, SeenJoin
<1>4. app' = "publish" /\ param'[s] = threads' /\ threads' # NULL /\ funcpoint'[s] = NULL /\ at' = at
  BY BootAssumption DEF CoreInv, FieldsOK, MasterInv, corethread_create
<1>5. ThreadInv(s)' BY <1>3, <1>4 DEF ThreadInv, In
<1>. QED BY <1>1, <1>2, <1>5, CallForKeeps

(* corethread_create publishes the thread. *)
LEMMA PublishKeeps ==
  ASSUME CoreInv, pc[Master] = "run", Publish, OutsideThread
  PROVE  CoreInv'
<1>1. PICK s \in Slaves : target = s /\ In("publish", s)
  BY DEF CoreInv, MasterInv, InCallOfThread, Publish, In
<1>2. FieldsOK' /\ threads' \in Nat /\ (joined[1] = joined[2])'
  BY <1>1, CoreFacts DEF CoreInv, FieldsOK, MasterInv, Publish, OutsideThread
<1>3. CallFor(s)
  BY <1>1 DEF CoreInv, FieldsOK, CallFor, InCallOfThread, Publish, OutsideThread
<1>4. /\ at[s] = "poll" /\ param[s] = threads /\ threads # NULL
  BY <1>1, Zenon DEF CoreInv, SlaveInv, ThreadInv
<1>5. app' = "created" /\ funcpoint'[s] = threads /\ UNCHANGED <<at, param, target, threads>>
  BY <1>1 DEF CoreInv, FieldsOK, Publish
<1>6. ThreadInv(s)' BY <1>1, <1>4, <1>5, CoreFacts, Zenon DEF ThreadInv, In
<1>. QED BY <1>1, <1>2, <1>3, <1>6, CallForKeeps

(* corethread_create returns when the slave has shown that it runs the thread. *)
LEMMA CreateReturnsKeeps ==
  ASSUME CoreInv, pc[Master] = "run", CreateReturns, OutsideThread
  PROVE  CoreInv'
<1>1. PICK s \in Slaves : target = s /\ In("created", s)
  BY DEF CoreInv, MasterInv, InCallOfThread, CreateReturns, In
<1>2. FieldsOK' /\ threads' \in Nat /\ (joined[1] = joined[2])'
  BY DEF CoreInv, FieldsOK, MasterInv, CreateReturns, slave, OutsideThread
<1>3. CallFor(s)
  BY <1>1, Zenon DEF CallFor, InCallOfThread, CreateReturns, slave, OutsideThread
<1>4. ThreadInv(s) /\ at[s] \in {"call", "body"}
  BY <1>1, Zenon DEF CoreInv, SlaveInv, StatusInv, ThreadInv, CreateReturns
<1>5. app' = "main" /\ UNCHANGED <<pc, target, at, slave, thread, arg, left>>
  BY DEF CreateReturns, OutsideThread
<1>6. ThreadInv(s)' BY <1>4, <1>5 DEF ThreadInv, In, slave
<1>. QED BY <1>1, <1>2, <1>3, <1>6, CallForKeeps

(* corethread_join is called for a thread that was created. *)
LEMMA BeginJoinKeeps ==
  ASSUME CoreInv, pc[Master] = "run", NEW s \in Slaves, BeginJoin(s), OutsideThread
  PROVE  CoreInv'
<1>1. FieldsOK' /\ threads' \in Nat /\ (joined[1] = joined[2])'
  BY DEF CoreInv, FieldsOK, MasterInv, BeginJoin, slave, OutsideThread
<1>2. CallFor(s)
  BY DEF CallFor, InCallOfThread, BeginJoin, slave, OutsideThread
<1>3. ThreadInv(s) BY DEF CoreInv, SlaveInv
<1>4. /\ app = "main" /\ funcpoint[s] # NULL /\ app' = "join"
      /\ UNCHANGED <<pc, at, slave, thread, arg, left>>
  BY DEF BeginJoin, OutsideThread
<1>5. ThreadInv(s)' BY <1>3, <1>4 DEF ThreadInv, In, slave
<1>. QED BY <1>1, <1>2, <1>5, CallForKeeps

(* corethread_join reads the result when the slave shows STATUS_RETURN. *)
LEMMA JoinReadsKeeps ==
  ASSUME CoreInv, pc[Master] = "run", JoinReads, OutsideThread
  PROVE  CoreInv'
<1>1. PICK s \in Slaves : target = s /\ In("join", s)
  BY DEF CoreInv, MasterInv, InCallOfThread, JoinReads, In
<1>2. pc[s] = "run" BY <1>1, AllRun DEF In
<1>3. StatusInv(s) /\ ThreadInv(s) /\ status[s] = "RETURN"
  BY <1>1, Zenon DEF CoreInv, SlaveInv, JoinReads
<1>4. at[s] \in {"end", "await_join"}
  BY <1>1, <1>2, <1>3, Zenon DEF StatusInv, ThreadInv, In
<1>5. FieldsOK' /\ threads' \in Nat
  BY DEF CoreInv, FieldsOK, MasterInv, JoinReads, slave, OutsideThread
<1>6. (joined[1] = joined[2])' BY <1>1, <1>3, <1>4 DEF ThreadInv, JoinReads
<1>7. CallFor(s)
  BY <1>1 DEF CallFor, InCallOfThread, JoinReads, slave, OutsideThread
<1>8. app' = "joined" /\ UNCHANGED <<pc, target, at, slave, thread, arg, left>>
  BY DEF JoinReads, OutsideThread
<1>9. ThreadInv(s)' BY <1>1, <1>3, <1>4, <1>8 DEF ThreadInv, In, slave
<1>. QED BY <1>1, <1>5, <1>6, <1>7, <1>9, CallForKeeps

(* corethread_join frees the core. *)
LEMMA JoinFreesKeeps ==
  ASSUME CoreInv, pc[Master] = "run", JoinFrees, OutsideThread
  PROVE  CoreInv'
<1>1. PICK s \in Slaves : target = s /\ In("joined", s)
  BY DEF CoreInv, MasterInv, InCallOfThread, JoinFrees, In
<1>2. FieldsOK' /\ threads' \in Nat /\ (joined[1] = joined[2])'
  BY <1>1, CoreFacts DEF CoreInv, FieldsOK, MasterInv, JoinFrees, OutsideThread
<1>3. CallFor(s)
  BY <1>1 DEF CoreInv, FieldsOK, CallFor, InCallOfThread, JoinFrees, OutsideThread
<1>4. ThreadInv(s) /\ at[s] \in {"end", "await_join"}
  BY <1>1, Zenon DEF CoreInv, SlaveInv, ThreadInv
<1>5. app' = "main" /\ funcpoint'[s] = NULL /\ UNCHANGED <<at, target, return_val, left>>
  BY <1>1 DEF CoreInv, FieldsOK, JoinFrees
<1>6. ThreadInv(s)' BY <1>4, <1>5, Zenon DEF ThreadInv, In
<1>. QED BY <1>1, <1>2, <1>3, <1>6, CallForKeeps

-----------------------------------------------------------------------------
(* The invariant holds when the board is switched on, whatever memory holds. *)
LEMMA CoreStarts ==
  ASSUME NEW leftover \in Nat, BootInit(leftover), ThreadInit
  PROVE  CoreInv
<1>1. FieldsOK
  BY CoreFacts DEF FieldsOK, MasterPlace, AtPlace, Status, BootInit, ThreadInit, None
<1>2. pc[Master] = "delay" /\ app = "configure" /\ \A s \in Slaves : pc[s] = "delay" /\ at[s] = "out"
  BY CoreFacts DEF BootInit, ThreadInit
<1>3. MasterInv /\ joined[1] = joined[2]
  BY <1>2, CoreFacts DEF MasterInv, MasterPlace, InCallOfThread, Starting, BootInit, ThreadInit
<1>4. ASSUME NEW s \in Slaves PROVE SlaveInv(s)
  <2>1. PlaceInv(s) BY <1>2 DEF PlaceInv, SlavePlace
  <2>2. StatusInv(s) BY <1>2 DEF StatusInv
  <2>3. ThreadInv(s) BY <1>2 DEF ThreadInv, In
  <2>. QED BY <2>1, <2>2, <2>3 DEF SlaveInv
<1>. QED BY <1>1, <1>3, <1>4 DEF CoreInv

(* Every step of core 0 in the boot loader keeps the invariant. *)
LEMMA MasterStepKeeps ==
  ASSUME CoreInv, MasterStep, UNCHANGED threadVars
  PROVE  CoreInv'
BY ClearSlavesKeeps, AnnounceKeeps, StartKeeps, AwaitStartedKeeps, FinishKeeps, LeaveKeeps
   DEF MasterStep

(* Every step of a slave in the boot loader keeps the invariant. *)
LEMMA SlaveStepKeeps ==
  ASSUME CoreInv, NEW s \in Slaves, Reset(s) \/ SlaveStep(s), UNCHANGED threadVars
  PROVE  CoreInv'
BY ResetKeeps, ClearOwnKeeps, SlaveBootsKeeps, AwaitInitKeeps, SlaveReturnsKeeps,
   SlaveLeavesKeeps
   DEF SlaveStep

(* Every step of core 0 in libcorethread keeps the invariant. *)
LEMMA ThreadCallKeeps ==
  ASSUME CoreInv, pc[Master] = "run", OutsideThread,
         InCall \/ (\E s \in Slaves : corethread_create(s)) \/ (\E s \in Slaves : BeginJoin(s))
  PROVE  CoreInv'
<1>1. CASE InCall
  BY <1>1, PublishKeeps, CreateReturnsKeeps, JoinReadsKeeps, JoinFreesKeeps DEF InCall
<1>2. CASE \E s \in Slaves : corethread_create(s) BY <1>2, CreateKeeps
<1>3. CASE \E s \in Slaves : BeginJoin(s) BY <1>3, BeginJoinKeeps
<1>. QED BY <1>1, <1>2, <1>3

(* Every step of a slave's worker and of its thread keeps the invariant. *)
LEMMA WorkerKeeps ==
  ASSUME CoreInv, NEW s \in Slaves, OutsideThread,
         InWorker(s) \/ Enter(s) \/ ReturnPlainly(s) \/ corethread_exit(s)
  PROVE  CoreInv'
<1>1. CASE InWorker(s)
  BY <1>1, PollKeeps, ShowKeeps, CallThreadKeeps, EndKeeps, AwaitJoinKeeps, LeaveLoopKeeps
     DEF InWorker
<1>2. CASE corethread_exit(s)
  <2>1. ExitPasses(s) \/ ExitShows(s) BY <1>2 DEF corethread_exit, ExitPasses, ExitShows
  <2>. QED BY <2>1, ExitPassesKeeps, ExitShowsKeeps
<1>. QED BY <1>1, <1>2, EnterKeeps, ReturnPlainlyKeeps

-----------------------------------------------------------------------------
(* Which program the cores run *)

(* From the download to the return, the entry point is v, and no core runs anything else. *)
RunsOnly(v) ==
  /\ pc[Master] \in {"start", "await_started", "call", "run", "finish"} => entrypoint = v
  /\ \A c \in Core : pc[c] = "run" => v # NULL /\ ran[c] = v
  /\ ran = [c \in Core |-> ran[c]]

(* A step that starts no application keeps it. *)
LEMMA NoStartKeepsProgram ==
  ASSUME NEW v, RunsOnly(v), UNCHANGED ran,
         UNCHANGED entrypoint \/ pc'[Master] \in {"delay", "clear", "announce"},
         \A c \in Core : pc'[c] = "run" => pc[c] = "run",
         pc'[Master] \in {"start", "await_started", "call", "run", "finish"} =>
           pc[Master] \in {"start", "await_started", "call", "run", "finish"}
  PROVE  RunsOnly(v)'
BY DEF RunsOnly

(* A download ends while every slave waits for it, so nothing else runs then. *)
LEMMA EndDownloadSetsProgram ==
  ASSUME CoreInv, NEW u, RunsOnly(u), NEW v, EndDownload(v)
  PROVE  RunsOnly(v)'
<1>1. \A c \in Core : c = Master \/ c \in Slaves
  BY BootAssumption DEF Core, Master, Slaves
<1>2. pc'[Master] = "start" /\ entrypoint' = v /\ \A s \in Slaves : pc'[s] = "await_init"
  <2>1. /\ pc[Master] = "download" /\ entrypoint' = v /\ Goto(Master, "start")
        /\ pc \in [Core -> MasterPlace \cup SlavePlace]
    BY CoreFacts DEF CoreInv, FieldsOK, EndDownload
  <2>2. pc'[Master] = "start" /\ \A s \in Slaves : pc'[s] = pc[s]
    BY <2>1, CoreFacts DEF Goto
  <2>3. \A s \in Slaves : PlaceInv(s) BY Zenon DEF CoreInv, SlaveInv
  <2>. QED BY <2>1, <2>2, <2>3 DEF PlaceInv
<1>3. ran' = [c \in Core |-> ran'[c]] BY DEF EndDownload, RunsOnly
<1>. QED BY <1>1, <1>2, <1>3 DEF RunsOnly

(* A core that calls the application calls the one that was downloaded. *)
LEMMA CallKeepsProgram ==
  ASSUME CoreInv, NEW v, RunsOnly(v), NEW c \in Core, Call(c)
  PROVE  RunsOnly(v)'
<1>1. \A d \in Core : d = Master \/ d \in Slaves
  BY BootAssumption DEF Core, Master, Slaves
<1>2. pc[c] = "call" BY DEF Call
<1>3. pc[Master] \in {"await_started", "call", "run", "finish"}
  BY <1>1, <1>2 DEF CoreInv, MasterInv, MasterPlace, SlaveInv, PlaceInv
<1>4. entrypoint = v BY <1>3 DEF RunsOnly
<1>5. ASSUME NEW d \in Core, pc'[d] = "run" PROVE v # NULL /\ ran'[d] = v
  BY <1>4, <1>5 DEF CoreInv, FieldsOK, RunsOnly, Call, Goto, HasEntry, AfterCall
<1>6. entrypoint' = v BY <1>4 DEF Call
<1>7. ran' = [d \in Core |-> ran'[d]] BY DEF Call, RunsOnly
<1>. QED BY <1>5, <1>6, <1>7 DEF RunsOnly

(* No step of core 0 in the boot loader changes which program runs. *)
LEMMA MasterStepKeepsProgram ==
  ASSUME CoreInv, NEW v, RunsOnly(v), MasterStep
  PROVE  RunsOnly(v)'
<1>1. UNCHANGED <<entrypoint, ran>>
  BY DEF MasterStep, ClearSlaves, Announce, Start, AwaitStarted, Finish, Leave, Visit, Keep
<1>2. \A c \in Core : pc'[c] = "run" => pc[c] = "run"
  BY CoreFacts
     DEF CoreInv, FieldsOK, MasterStep, ClearSlaves, Announce, Start, AwaitStarted, Finish,
         Leave, Visit, Goto
<1>3. pc'[Master] \in {"start", "await_started", "call", "run", "finish"} =>
        pc[Master] \in {"start", "await_started", "call", "run", "finish"}
  BY CoreFacts
     DEF CoreInv, FieldsOK, MasterStep, ClearSlaves, Announce, Start, AwaitStarted, Finish,
         Leave, Visit, Goto
<1>. QED BY <1>1, <1>2, <1>3, NoStartKeepsProgram, Zenon

(* No step of a slave in the boot loader changes which program runs. *)
LEMMA SlaveStepKeepsProgram ==
  ASSUME CoreInv, NEW v, RunsOnly(v), NEW s \in Slaves, Reset(s) \/ SlaveStep(s)
  PROVE  RunsOnly(v)'
<1>1. pc'[Master] = pc[Master] /\ \A c \in Core : pc'[c] = "run" => pc[c] = "run"
  BY CoreFacts
     DEF CoreInv, FieldsOK, Reset, SlaveStep, ClearOwn, SlaveBoots, AwaitInit, SlaveReturns,
         SlaveLeaves, Goto
<1>2. UNCHANGED ran
  BY
     DEF Reset, SlaveStep, ClearOwn, SlaveBoots, AwaitInit, SlaveReturns, SlaveLeaves, Keep
<1>3. UNCHANGED entrypoint \/ pc[Master] \in {"delay", "clear", "announce"}
  <2>1. CASE Reset(s)
    BY <2>1, CoreFacts
       DEF CoreInv, MasterInv, MasterPlace, SlaveInv, PlaceInv, Reset, AllHaveLeft
  <2>2. CASE SlaveStep(s)
    BY <2>2 DEF SlaveStep, ClearOwn, SlaveBoots, AwaitInit, SlaveReturns, SlaveLeaves, Keep
  <2>. QED BY <2>1, <2>2
<1>. QED BY <1>1, <1>2, <1>3, NoStartKeepsProgram, Zenon

(* Nor do the beginning of a download, the restart of core 0 and a return of the application. *)
LEMMA ReturnKeepsProgram ==
  ASSUME CoreInv, NEW v, RunsOnly(v),
         BeginDownload \/ Reset(Master) \/ \E c \in Core : ApplicationReturns(c)
  PROVE  RunsOnly(v)'
<1>1. UNCHANGED ran BY DEF BeginDownload, Reset, ApplicationReturns, Keep
<1>2. \A c \in Core : pc'[c] = "run" => pc[c] = "run"
  BY DEF CoreInv, FieldsOK, BeginDownload, Reset, ApplicationReturns, Goto, AfterCall
<1>3. CASE BeginDownload \/ Reset(Master)
  <2>1. pc'[Master] \in {"download", "clear"}
    BY <1>3, CoreFacts DEF CoreInv, FieldsOK, BeginDownload, Reset, Goto
  <2>. QED BY <1>1, <1>2, <2>1 DEF RunsOnly
<1>4. CASE \E c \in Core : ApplicationReturns(c)
  <2>1. UNCHANGED entrypoint BY <1>4 DEF ApplicationReturns, Keep
  <2>2. pc'[Master] = pc[Master] \/ pc[Master] = "run"
    BY <1>4, CoreFacts DEF CoreInv, FieldsOK, ApplicationReturns, Goto
  <2>. QED BY <1>1, <1>2, <2>1, <2>2 DEF RunsOnly
<1>. QED BY <1>3, <1>4

-----------------------------------------------------------------------------
(* What the channels of an application see of the cores *)

(* From the download of a program to the end of noc_init. *)
Fresh == pc[Master] \in Starting \/ (pc[Master] = "run" /\ app = "configure")

(* The places of a thread that has ended and is not joined. *)
Ended == {"exit", "end", "await_join"}

(* A step in which the threads on the cores in ending may end, and in which core 0 begins
   a join if joining: it makes nothing fresh, it ends no other thread, only a join
   takes a thread away, and core 0 returns only when all are joined. *)
Effect(ending, joining) ==
  /\ Fresh' => Fresh
  /\ \A s \in Slaves :
       /\ at[s] = "body" /\ at'[s] # "body" => s \in ending
       /\ at'[s] \in Ended => at[s] \in Ended \/ s \in ending
       /\ pc'[Master] = "run" /\ funcpoint'[s] = NULL => funcpoint[s] = NULL \/ In("joined", s) \/ Fresh
  /\ app' \in {"join", "joined"} => (joining \/ app \in {"join", "joined"}) /\ funcpoint' = funcpoint
  /\ pc'[Master] = "run" => pc[Master] = "run" \/ Fresh
  /\ pc'[Master] # "run" => pc[Master] # "run" \/ AllJoined

(* A thread runs only while core 0 runs the application, and until it is joined. *)
LEMMA BodyRuns ==
  ASSUME CoreInv, NEW s \in Slaves, at[s] = "body"
  PROVE  pc[Master] = "run" /\ app # "configure" /\ funcpoint[s] # NULL
<1>1. pc[s] = "run" /\ funcpoint[s] # NULL /\ SlaveInv(s)
  BY Zenon DEF CoreInv, SlaveInv, StatusInv, ThreadInv
<1>. QED BY <1>1, Zenon DEF SlaveInv, StatusInv

(* A step of a slave that neither ends a thread nor clears its fields under core 0. *)
LEMMA SlaveEffect ==
  ASSUME CoreInv, NEW s \in Slaves, NEW ending, UNCHANGED core0, pc'[Master] = pc[Master],
         \A t \in Slaves : t # s => at'[t] = at[t],
         at[s] = "body" /\ at'[s] # "body" => s \in ending,
         at'[s] \in Ended => at[s] \in Ended \/ s \in ending,
         UNCHANGED funcpoint \/ pc[Master] # "run"
  PROVE  Effect(ending, FALSE)
<1>1. pc[Master] # "run" => app \notin {"join", "joined"}
  BY Zenon DEF CoreInv, MasterInv, InCallOfThread
<1>. QED BY <1>1, Zenon DEF Effect, Fresh, core0

(* A slave in the boot loader. *)
LEMMA SlaveStepEffect ==
  ASSUME CoreInv, NEW s \in Slaves, Reset(s) \/ SlaveStep(s), UNCHANGED threadVars
  PROVE  Effect({}, FALSE)
<1>1. pc'[Master] = pc[Master]
  BY CoreFacts DEF CoreInv, FieldsOK, Reset, SlaveStep, ClearOwn, SlaveBoots, AwaitInit,
     SlaveReturns, SlaveLeaves, Goto
<1>2. CASE ClearOwn(s)
  <2>1. pc[Master] # "run" BY <1>2 DEF CoreInv, SlaveInv, PlaceInv, ClearOwn
  <2>. QED BY <1>1, <2>1, SlaveEffect, Zenon DEF threadVars
<1>3. CASE ~ClearOwn(s)
  <2>1. UNCHANGED funcpoint
    BY <1>3
       DEF Reset, SlaveStep, SlaveBoots, AwaitInit, SlaveReturns, SlaveLeaves, SetStatus, slave
  <2>. QED BY <1>1, <2>1, SlaveEffect, Zenon DEF threadVars
<1>. QED BY <1>2, <1>3, Zenon

(* A slave calls the application, passes the barrier, returns. *)
LEMMA SlaveCallEffect ==
  ASSUME CoreInv, NEW s \in Slaves,
         \/ /\ Call(s) /\ at' = [t \in Slaves |-> IF t = s /\ HasEntry THEN "configure" ELSE at[t]]
            /\ UNCHANGED <<core0, thread, arg, left>>
         \/ (SlaveConfigured(s) \/ SlaveReleased(s)) /\ OutsideNocInit
         \/ ApplicationReturns(s) /\ UNCHANGED threadVars
  PROVE  Effect({}, FALSE)
<1>1. pc'[Master] = pc[Master] /\ UNCHANGED <<core0, funcpoint>>
  BY CoreFacts DEF CoreInv, FieldsOK, Call, SlaveConfigured, SlaveReleased, ApplicationReturns,
     Goto, SetStatus, OutsideNocInit, threadVars, core0, slave
<1>2. /\ \A t \in Slaves : t # s => at'[t] = at[t]
      /\ at'[s] = at[s] \/ (at'[s] \notin Ended /\ at[s] # "body")
  <2>1. CASE Call(s) /\ at' = [t \in Slaves |-> IF t = s /\ HasEntry THEN "configure" ELSE at[t]]
    <3>1. at[s] # "body" BY <2>1, CoreFacts DEF CoreInv, SlaveInv, StatusInv, Call
    <3>. QED BY <2>1, <3>1 DEF Ended
  <2>2. CASE SlaveConfigured(s) \/ SlaveReleased(s)
    BY <2>2 DEF CoreInv, FieldsOK, SlaveConfigured, SlaveReleased, SlaveAt, Ended
  <2>3. CASE UNCHANGED threadVars BY <2>3 DEF threadVars
  <2>. QED BY <2>1, <2>2, <2>3
<1>. QED BY <1>1, <1>2, SlaveEffect, Zenon

(* The worker of a slave; the thread ends where it returns or calls corethread_exit. *)
LEMMA WorkerEffect ==
  ASSUME CoreInv, NEW s \in Slaves, OutsideThread, NEW ending, at[s] = "body" => s \in ending,
         InWorker(s) \/ Enter(s) \/ ReturnPlainly(s) \/ corethread_exit(s)
  PROVE  Effect(ending, FALSE)
<1>1. pc'[Master] = pc[Master] /\ UNCHANGED <<core0, funcpoint>>
  BY Zenon
     DEF InWorker, Poll, Show, CallThread, End, AwaitJoin, LeaveLoop, Enter, ReturnPlainly,
         corethread_exit, SetStatus, SetReturn, OutsideThread, core0, slave
<1>2. /\ \A t \in Slaves : t # s => at'[t] = at[t]
      /\ at'[s] \in Ended => at[s] \in Ended \/ at[s] = "body"
  BY
     DEF CoreInv, FieldsOK, InWorker, Poll, Show, CallThread, End, AwaitJoin, LeaveLoop, Enter,
         ReturnPlainly, corethread_exit, SlaveAt, Ended
<1>. QED BY <1>1, <1>2, SlaveEffect, Zenon

(* The threads and their fields stay as they are while core 0 is in the boot loader. *)
LEMMA MasterEffect ==
  ASSUME CoreInv, UNCHANGED threadVars, Fresh' => Fresh,
         pc'[Master] = "run" => Fresh /\ UNCHANGED funcpoint,
         pc[Master] = "run" => AllJoined
  PROVE  Effect({}, FALSE)
<1>1. app \in {"join", "joined"} => pc[Master] = "run"
  BY ZenonT(30) DEF CoreInv, MasterInv, InCallOfThread
<1>. QED BY <1>1, Zenon DEF Effect, AllJoined, threadVars, core0

(* Core 0 in the boot loader, and where the download begins and ends. *)
LEMMA MasterStepEffect ==
  ASSUME CoreInv, UNCHANGED threadVars,
         MasterStep \/ BeginDownload \/ (\E result : EndDownload(result))
  PROVE  Effect({}, FALSE)
<1>1. pc[Master] # "run" /\ pc'[Master] # "run" /\ (pc'[Master] \in Starting => pc[Master] \in Starting)
  BY CoreFacts
     DEF CoreInv, FieldsOK, MasterStep, ClearSlaves, Announce, Start, AwaitStarted, Finish,
         Leave, Visit, BeginDownload, EndDownload, Goto, Starting
<1>2. Fresh' => Fresh BY <1>1, Zenon DEF Fresh
<1>. QED BY <1>1, <1>2, MasterEffect, Zenon

(* Core 0 calls the application. *)
LEMMA MasterCallEffect ==
  ASSUME CoreInv, UNCHANGED threadVars, Call(Master)
  PROVE  Effect({}, FALSE)
<1>1. pc[Master] = "call" /\ UNCHANGED funcpoint BY DEF Call, slave
<1>2. Fresh BY <1>1 DEF Fresh, Starting
<1>. QED BY <1>1, <1>2, MasterEffect, Zenon

(* Core 0 returns from it. *)
LEMMA MasterReturnEffect ==
  ASSUME CoreInv, UNCHANGED threadVars, ApplicationReturns(Master), AllJoined
  PROVE  Effect({}, FALSE)
<1>1. pc'[Master] = "finish"
  BY CoreFacts DEF CoreInv, FieldsOK, ApplicationReturns, Goto, AfterCall
<1>2. ~Fresh' BY <1>1 DEF Fresh, Starting
<1>. QED BY <1>1, <1>2, MasterEffect, Zenon

(* The barrier ends what is fresh. *)
LEMMA NetworkStartsEffect ==
  ASSUME CoreInv, pc[Master] = "run", NetworkStarts, OutsideNocInit
  PROVE  Effect({}, FALSE)
<1>1. app' = "main" /\ Fresh /\ UNCHANGED <<pc, at, funcpoint>>
  BY DEF NetworkStarts, OutsideNocInit, Fresh, slave
<1>2. ~Fresh' BY <1>1 DEF Fresh, Starting
<1>. QED BY <1>1, <1>2, Zenon DEF Effect

(* Core 0 in libcorethread. *)
LEMMA ThreadCallEffect ==
  ASSUME CoreInv, pc[Master] = "run", OutsideThread, NEW joining,
         \/ InCall \/ (\E s \in Slaves : corethread_create(s))
         \/ joining /\ \E s \in Slaves : BeginJoin(s)
  PROVE  Effect({}, joining)
<1>1. UNCHANGED <<pc, at>> /\ app' # "configure"
  BY DEF InCall, Publish, CreateReturns, JoinReads, JoinFrees, corethread_create, BeginJoin,
         OutsideThread
<1>2. Fresh' => Fresh BY <1>1 DEF Fresh, Starting
<1>3. app' \in {"join", "joined"} => (joining \/ app \in {"join", "joined"}) /\ funcpoint' = funcpoint
  BY
     DEF InCall, Publish, CreateReturns, JoinReads, JoinFrees, corethread_create, BeginJoin,
         slave
<1>4. ASSUME NEW s \in Slaves, funcpoint'[s] = NULL, funcpoint[s] # NULL
      PROVE  In("joined", s)
  <2>1. CASE Publish
    BY <1>4, <2>1
       DEF CoreInv, FieldsOK, MasterInv, SlaveInv, ThreadInv, InCallOfThread, In, Publish
  <2>2. CASE JoinFrees BY <1>4, <2>2 DEF CoreInv, FieldsOK, JoinFrees, In
  <2>. QED
    BY <1>4, <2>1, <2>2, Zenon
       DEF InCall, CreateReturns, JoinReads, corethread_create, BeginJoin, slave
<1>. QED BY <1>1, <1>2, <1>3, <1>4 DEF Effect

-----------------------------------------------------------------------------
(* What the invariant says of the properties *)

(* corethread_join and corethread_exit use one field each way. *)
LEMMA CoreInvJoins == CoreInv => JoinGetsItsResult
  BY DEF CoreInv, JoinGetsItsResult

(* The slave reads param while its creator cannot create another thread on it. *)
LEMMA CoreInvPasses == CoreInv => ArgumentIsItsOwn
  BY Zenon DEF CoreInv, SlaveInv, ThreadInv, ArgumentIsItsOwn

(* The barrier lets core 0 pass only when every slave has shown INITDONE. *)
LEMMA CoreInvWaits == CoreInv => NobodyAheadOfNetwork
  BY Zenon DEF CoreInv, SlaveInv, StatusInv, NobodyAheadOfNetwork
=============================================================================
