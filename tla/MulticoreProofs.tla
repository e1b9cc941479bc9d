-------------------------- MODULE MulticoreProofs --------------------------
(* What holds of the multicore system from reset to reset, whatever programs the host
   sends: the properties of boot loader, threads and channels, for every number of cores,
   threads, messages, samples, buffers and words. *)
EXTENDS Multicore, ApplicationProofs

(* No leaf is given up too soon on a busy machine. *)
USE SMTT(60), ZenonT(60)

(* Every step is one of the cores and the network, or the end of a download. *)
LEMMA NextIsSystemStep ==
  ASSUME [Next]_vars
  PROVE  (SystemStep /\ UNCHANGED loaded) \/ LeaveDownload
<1>1. CASE UNCHANGED vars BY <1>1 DEF vars, histories, SystemStep
<1>2. CASE MasterCore
  <2>1. Master \in Core BY CoreFacts
  <2>. QED
    BY <1>2, <2>1, Zenon DEF MasterCore, MasterStartsOver, BootStep, EnterDownload, InDownload,
       OutsideSystem, OutsideDownload, histories, SystemStep
<1>3. ASSUME NEW s \in Slaves, SlaveCore(s) PROVE SystemStep /\ UNCHANGED loaded
  <2>1. s \in Core /\ s # Master BY CoreFacts
  <2>. QED BY <1>3, <2>1, Zenon DEF SlaveCore, BootStep, OutsideSystem, histories, SystemStep
<1>4. CASE Host \/ Line
  BY <1>4 DEF Host, Line, OutsideDownload, histories, SystemStep
<1>5. CASE OtherTransfer /\ OutsideSystem
  BY <1>5 DEF OutsideSystem, histories, SystemStep
<1>6. ASSUME NEW e \in Ends, NetworkInterface(e) PROVE SystemStep /\ UNCHANGED loaded
  BY <1>6 DEF NetworkInterface, OutsideSystem, histories, SystemStep
<1>. QED BY <1>1, <1>2, <1>3, <1>4, <1>5, <1>6, Zenon DEF Next

(* The invariant holds after power-up. *)
LEMMA SystemStarts == Init => SystemInv /\ Fifo!Init /\ RunsOnly(loaded)
<1> SUFFICES ASSUME Init PROVE SystemInv /\ Fifo!Init /\ RunsOnly(loaded)
  OBVIOUS
<1>1. CoreInv BY CoreStarts DEF Init, Leftover
<1>2. PortInv BY PortStarts DEF Init
<1>3. QueueInv BY QueueStarts DEF Init
<1>4. Fifo!Init BY <1>3, QueueStartsEmpty DEF Init
<1>5. /\ pc = [c \in Core |-> "delay"] /\ at = [s \in Slaves |-> "out"]
      /\ app = "configure" /\ ran = [c \in Core |-> NULL]
  BY DEF Init, BootInit, ThreadInit
<1>6. /\ registered = {} /\ writer = "create" /\ reader = "create" /\ pcSrc = "create" /\ pcSink = "create"
      /\ sent = 0 /\ received = 0 /\ ~Queuing
  BY DEF Init, PortInit, QueueInit, Queuing, NoApplication
<1>7. NothingYet /\ EndsAreQuiet BY <1>6 DEF NothingYet, EndsAreQuiet
<1>8. OneChannel BY <1>6 DEF OneChannel, PortsRegistered
<1>9. AllReceived BY <1>6 DEF AllReceived
<1>10. RunsOnly(loaded) BY <1>5, CoreFacts DEF RunsOnly
<1>. QED BY <1>1, <1>2, <1>3, <1>4, <1>7, <1>8, <1>9, <1>10 DEF SystemInv, LinkInv

(* The end of a download. *)
LEMMA LeaveDownloadKeeps ==
  ASSUME SystemInv, LeaveDownload
  PROVE  SystemInv' /\ UNCHANGED UnderWay
<1>1. SystemInv' BY EndDownloadKeepsAll DEF LeaveDownload
<1>2. UNCHANGED <<sent, received>> BY DEF LeaveDownload, queueVars, srcVars, sinkVars
<1>. QED BY <1>1, <1>2, QuietStepStutters DEF SystemInv

(* The inductive invariant of the whole system. *)
THEOREM SystemInvariant == Spec => []SystemInv
<1>1. Init => SystemInv BY SystemStarts
<1>2. SystemInv /\ [Next]_vars => SystemInv'
  BY NextIsSystemStep, SystemStepKeeps, LeaveDownloadKeeps
<1>. QED BY <1>1, <1>2, PTL DEF Spec

-----------------------------------------------------------------------------
(* The lock of libmp excludes: the two cores of a sampling channel are never both between
   acquire_lock and release_lock, although each judges by copies on their way. *)
THEOREM LockExcludes == Spec => []MutualExclusion
<1>1. SystemInv => MutualExclusion BY LockInvExcludes DEF SystemInv, PortInv
<1>. QED BY <1>1, SystemInvariant, PTL

(* mp_read returns one whole sample, no older than those whose mp_write had returned
   before it, for samples of any size and any number of them. *)
THEOREM ReadsAreFresh == Spec => []ReadsOneFreshSample
<1>1. SystemInv => ReadsOneFreshSample BY PortInvIsFresh DEF SystemInv
<1>. QED BY <1>1, SystemInvariant, PTL

(* Messages received and not acknowledged are not overwritten (mp_recv, mp_ack), for every
   number and size of buffers and counters that wrap anywhere above the number of buffers. *)
THEOREM HeldMessagesStay == Spec => []HeldMessagesIntact
<1>1. SystemInv => HeldMessagesIntact BY QueueInvHolds DEF SystemInv
<1>. QED BY <1>1, SystemInvariant, PTL

(* No core passes the barrier of noc_init before all are configured, for every number of cores. *)
THEOREM BarrierHolds == Spec => []NobodyAheadOfNetwork
<1>1. SystemInv => NobodyAheadOfNetwork BY CoreInvWaits DEF SystemInv
<1>. QED BY <1>1, SystemInvariant, PTL

(* corethread_join gets what the joined thread passed to corethread_exit. *)
THEOREM JoinsGetResults == Spec => []JoinGetsItsResult
<1>1. SystemInv => JoinGetsItsResult BY CoreInvJoins DEF SystemInv
<1>. QED BY <1>1, SystemInvariant, PTL

(* A thread gets the argument its creator gave to corethread_create for it. *)
THEOREM ThreadsGetArguments == Spec => []ArgumentIsItsOwn
<1>1. SystemInv => ArgumentIsItsOwn BY CoreInvPasses DEF SystemInv
<1>. QED BY <1>1, SystemInvariant, PTL

(* From mp_nbsend to mp_nbrecv a queuing channel is a bounded first-in first-out queue of
   whole messages, in every program and from one program to the next. *)
THEOREM ChannelIsFifo == Spec => IsBoundedFifo
<1>1. Init => Fifo!Init BY SystemStarts
<1>2. SystemInv /\ [Next]_vars => [Fifo!Next]_UnderWay
  BY NextIsSystemStep, SystemStepIsFifo, LeaveDownloadKeeps
<1>. QED BY <1>1, <1>2, SystemInvariant, PTL DEF Spec, IsBoundedFifo, Fifo!Spec

(* The end of a download determines which program runs: the one that was sent, if
   download() is right, and none after a refusal. *)
LEMMA DownloadSetsProgram ==
  ASSUME SystemInv, RunsOnly(loaded), LoadedIsSent, LeaveDownload
  PROVE  RunsOnly(loaded)'
<1>1. PICK v : v = IF result = "entrypoint" THEN section.entry ELSE NULL OBVIOUS
<1>2. EndDownload(v) BY <1>1 DEF LeaveDownload
<1>3. loaded' = v BY <1>1 DEF LeaveDownload, LoadedIsSent
<1>4. PICK u : u = loaded OBVIOUS
<1>5. RunsOnly(u) BY <1>4
<1>6. CoreInv BY DEF SystemInv
<1>7. RunsOnly(v)' BY <1>2, <1>5, <1>6, EndDownloadSetsProgram
<1>. QED BY <1>3, <1>7 DEF RunsOnly

(* If download() loads what the host sent, then every core runs the program sent last, and
   nothing after a refused download, however the rounds of the boot loader, the starts and
   the returns of the cores interleave. *)
THEOREM CoresRunWhatWasLoaded == Spec /\ []LoadedIsSent => []RunsWhatWasLoaded
<1>1. Init => RunsOnly(loaded) BY SystemStarts
<1>2. ASSUME SystemInv, RunsOnly(loaded), LoadedIsSent, [Next]_vars
      PROVE  RunsOnly(loaded)'
  <2>1. CASE SystemStep /\ UNCHANGED loaded
    <3>1. PICK u : u = loaded OBVIOUS
    <3>2. RunsOnly(u) BY <1>2, <3>1
    <3>3. RunsOnly(u)' BY <1>2, <2>1, <3>2, SystemStepKeepsProgram
    <3>. QED BY <2>1, <3>1, <3>3 DEF RunsOnly
  <2>. QED BY <1>2, <2>1, NextIsSystemStep, DownloadSetsProgram
<1>3. RunsOnly(loaded) => RunsWhatWasLoaded BY DEF RunsOnly, RunsWhatWasLoaded
<1>. QED BY <1>1, <1>2, <1>3, SystemInvariant, PTL DEF Spec
=============================================================================
