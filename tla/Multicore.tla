----------------------------- MODULE Multicore -----------------------------
(* A multicore Patmos from reset to reset: the cores boot, core 0 downloads a program
   from the host, all cores start it, the program runs threads on other cores, two of
   which are the ends of a channel, joins them and returns, and the boot loader starts
   over.  Boot loader and threads share boot_info; the application runs between two
   places of the boot loader. *)
EXTENDS Application, Download

CONSTANT Programs      \* for each round, the programs the host may send

VARIABLES round,      \* history: programs downloaded
          loaded      \* history: the entry point of the program the host sent last;
                      \* NULL if it was refused

(* Bound: how often the boot loader starts over. *)
MaxRounds == Len(Programs)

ASSUME MulticoreAssumption ==
  /\ WordBytes \in Nat \ {0} /\ FrameSize \in Nat \ {0} /\ Base > FrameSize
  /\ \A r \in DOMAIN Programs : \A p \in Programs[r] : p.entry # NULL

histories == <<round, loaded>>
vars == <<systemVars, downloadVars, histories>>

(* What a step of the cores, and what one of the download leaves alone. *)
OutsideSystem == UNCHANGED <<downloadVars, histories>>
OutsideDownload == UNCHANGED <<systemVars, histories>>

Init ==
  /\ BootInit(Leftover) /\ ThreadInit /\ Quiet
  /\ QueueInit /\ PortInit /\ application = NoApplication /\ registered = {} /\ dma = [e \in Ends |-> Idle]
  /\ round = 0 /\ loaded = Leftover

-----------------------------------------------------------------------------
(* The boot loader.  After a refused download the model does not start over: what is
   left on the line then, and when the host tries again, is up to its user. *)
StartsOver == round < MaxRounds /\ loaded # NULL

MasterStartsOver == NextProgram /\ StartsOver

BootStep(c) ==
  /\ \/ c # Master /\ Reset(c) /\ StartsOver
     \/ c = Master /\ MasterStep
     \/ c # Master /\ SlaveStep(c)
  /\ OutsideBoot

EnterDownload ==
  /\ BeginDownload /\ \E p \in Programs[round + 1] : Begin(p)
  /\ OutsideBoot /\ UNCHANGED histories

InDownload ==
  /\ pc[Master] = "download" /\ download
  /\ OutsideDownload

(* download() returns.  What the host still has to read does not depend on the board any
   more; its steps are taken first. *)
LeaveDownload ==
  /\ result # "none" /\ HostIsDone
  /\ EndDownload(IF result = "entrypoint" THEN section.entry ELSE NULL)
  /\ loaded' = IF result = "entrypoint" THEN program.entry ELSE NULL
  /\ round' = round + 1
  /\ EndOfTransfer
  /\ application' = [channel |-> program.channel, threads |-> program.threads]
  /\ UNCHANGED <<threadVars, registered, dma, queueVars, portVars>>

Host == (Transmit \/ ack) /\ OutsideDownload
Line == Spoil /\ OutsideDownload

MasterCore ==
  \/ (MasterStartsOver \/ BootStep(Master)) /\ OutsideSystem
  \/ EnterDownload \/ InDownload \/ LeaveDownload
  \/ (CallApplication(Master) \/ NocInit \/ ThreadCall \/ LeaveApplication(Master)) /\ OutsideSystem

SlaveCore(s) ==
  /\ \/ BootStep(s) \/ CallApplication(s) \/ SlaveNocInit(s) \/ Worker(s) \/ InThread(s)
     \/ LeaveApplication(s)
  /\ OutsideSystem

NetworkInterface(e) == Interface(e) /\ OutsideSystem

Next ==
  \/ MasterCore \/ (\E s \in Slaves : SlaveCore(s))
  \/ (\E e \in Ends : NetworkInterface(e)) \/ (OtherTransfer /\ OutsideSystem)
  \/ Host \/ Line

(* Every core runs, an application calls and returns, the network moves what it was given,
   the host sends and reads.  Other channels do not take a DMA entry each time it is
   free, hence the strong fairness of the two operations that wait for one. *)
Fairness ==
  /\ WF_vars(MasterCore) /\ \A s \in Slaves : WF_vars(SlaveCore(s))
  /\ \A e \in Ends : WF_vars(NetworkInterface(e))
  /\ WF_vars(Host)
  /\ SF_vars(/\ at[SourceCore] = "body" /\ mp_nbsend /\ UNCHANGED <<application, portVars>>
             /\ OutsideChannel /\ OutsideSystem)
  /\ SF_vars(/\ at[SinkCore] = "body" /\ Acknowledge /\ UNCHANGED <<application, portVars>>
             /\ OutsideChannel /\ OutsideSystem)

Spec == Init /\ [][Next]_vars /\ Fairness

-----------------------------------------------------------------------------
(* No core enters an application before core 0 has downloaded it, none runs one that an
   earlier round left in memory, and none runs anything after a refused download: what
   runs is what the host sent last. *)
RunsWhatWasLoaded == \A c \in Core : pc[c] = "run" => loaded # NULL /\ ran[c] = loaded

=============================================================================
