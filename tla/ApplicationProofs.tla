------------------------- MODULE ApplicationProofs -------------------------
(* Facts about the application on the cores, for every number of cores and threads and every
   size of the channels: the cores and the two kinds of channel have invariants of their
   own, and what links them is that the ends of a channel are threads. *)
EXTENDS Application, CorethreadProofs, SamplingPortProofs, QueuingPortProofs

(* No leaf is given up too soon on a busy machine. *)
USE SMTT(60), ZenonT(60)

(* Until the threads start, no port of the program exists. *)
NothingYet ==
  Fresh => /\ registered = {} /\ writer = "create" /\ reader = "create"
           /\ pcSrc = "create" /\ pcSink = "create"

(* The ports that exist are those of the application's kind of channel. *)
OneChannel ==
  /\ Queuing => writer = "create" /\ reader = "create" /\ QueueRegistered
  /\ ~Queuing => pcSrc = "create" /\ pcSink = "create" /\ PortsRegistered

(* A core is in mp_write or mp_read only in its thread. *)
EndsAreQuiet ==
  /\ at[SourceCore] # "body" => writer \in {"create", "ports", "idle"}
  /\ at[SinkCore] # "body" => reader \in {"create", "ports", "idle"}

(* A message is under way only until the sink's thread has ended and both are joined. *)
AllReceived ==
  /\ Queuing /\ at[SinkCore] \in Ended => received = MaxMsgs
  /\ Queuing /\ app \in {"join", "joined"} => received = MaxMsgs \/ funcpoint[SinkCore] # NULL
  /\ Queuing /\ pc[Master] = "run" /\ sent > 0 /\ received < MaxMsgs =>
       funcpoint[SourceCore] # NULL \/ funcpoint[SinkCore] # NULL
  /\ pc[Master] # "run" => sent = received

LinkInv == NothingYet /\ OneChannel /\ EndsAreQuiet /\ AllReceived

SystemInv == CoreInv /\ PortInv /\ QueueInv /\ LinkInv

-----------------------------------------------------------------------------
(* The cores of the two ends are slaves; the counters of the queue are in order. *)
LEMMA LinkFacts ==
  /\ SourceCore \in Slaves /\ SinkCore \in Slaves /\ SourceCore # SinkCore
  /\ QueueInv => /\ sent \in Nat /\ received \in Nat /\ received <= sent /\ sent <= MaxMsgs
                 /\ MaxMsgs \in Nat /\ (pcSrc = "create" => sent = 0)
<1>1. SourceCore \in Slaves /\ SinkCore \in Slaves /\ SourceCore # SinkCore
  BY ApplicationAssumption, BootAssumption DEF SourceCore, SinkCore, Slaves
<1>2. ASSUME QueueInv
      PROVE  /\ sent \in Nat /\ received \in Nat /\ received <= sent /\ sent <= MaxMsgs
             /\ MaxMsgs \in Nat /\ (pcSrc = "create" => sent = 0)
  BY <1>2, QueueAssumption DEF QueueInv, QueueTypeOK, CountersAgree, QueueIsSetUp
<1>. QED BY <1>1, <1>2

(* What the link looks at of the channels. *)
linkVars == <<application, registered, writer, reader, pcSrc, pcSink, sent, received>>

(* A step of the cores keeps the link: threads end only when their end of the channel is
   done, and core 0 joins only when both ends are created or done. *)
LEMMA CoresKeepLink ==
  ASSUME SystemInv, UNCHANGED linkVars, NEW ending, Effect(ending, BothEnds),
         \A s \in Slaves : s \in ending => ChannelDone(s)
  PROVE  LinkInv'
<1>1. CoreInv /\ PortInv /\ QueueInv /\ NothingYet /\ OneChannel /\ EndsAreQuiet /\ AllReceived
  BY DEF SystemInv, LinkInv
<1>2. UNCHANGED <<application, registered, writer, reader, pcSrc, pcSink, sent, received>>
  BY DEF linkVars
<1>3. NothingYet' BY <1>1, <1>2 DEF NothingYet, Effect
<1>4. Queuing' = Queuing BY <1>2 DEF Queuing
<1>5. OneChannel' BY <1>1, <1>2, <1>4 DEF OneChannel, QueueRegistered, PortsRegistered
<1>6. EndsAreQuiet'
  <2>1. SourceDone => writer \in {"create", "ports", "idle"}
    BY <1>1, AllWrittenIsQuiet DEF SourceDone, OneChannel
  <2>2. SinkDone => reader \in {"create", "ports", "idle"}
    BY <1>1 DEF SinkDone, OneChannel
  <2>3. at[SourceCore] = "body" /\ at'[SourceCore] # "body" => SourceDone
    BY LinkFacts DEF Effect, ChannelDone
  <2>4. at[SinkCore] = "body" /\ at'[SinkCore] # "body" => SinkDone
    BY LinkFacts DEF Effect, ChannelDone
  <2>. QED BY <1>1, <1>2, <2>1, <2>2, <2>3, <2>4 DEF EndsAreQuiet
<1>7. Queuing /\ at'[SinkCore] \in Ended => received = MaxMsgs
  BY <1>1, LinkFacts DEF AllReceived, Effect, ChannelDone, SinkDone
<1>8. Queuing /\ app' \in {"join", "joined"} => received = MaxMsgs \/ funcpoint'[SinkCore] # NULL
  BY <1>1, LinkFacts DEF AllReceived, Effect, BothEnds, ChannelDone, SinkDone
<1>9. ASSUME Queuing, pc'[Master] = "run", sent > 0, received < MaxMsgs,
             funcpoint'[SourceCore] = NULL, funcpoint'[SinkCore] = NULL
      PROVE  FALSE
  <2>1. ~Fresh BY <1>1, <1>9, LinkFacts DEF NothingYet
  <2>2. pc[Master] = "run" BY <1>9, <2>1 DEF Effect
  <2>3. \A s \in {SourceCore, SinkCore} : funcpoint[s] = NULL \/ In("joined", s)
    BY <1>9, <2>1, LinkFacts DEF Effect
  <2>4. received # MaxMsgs BY <1>1, <1>9, LinkFacts
  <2>5. ~In("joined", SinkCore)
    BY <1>1, <1>9, <2>4, LinkFacts DEF CoreInv, SlaveInv, ThreadInv, AllReceived, Ended
  <2>6. funcpoint[SinkCore] = NULL BY <2>3, <2>5
  <2>7. ~In("joined", SourceCore) BY <1>1, <1>9, <2>4, <2>6 DEF AllReceived, In
  <2>. QED BY <1>1, <1>9, <2>2, <2>3, <2>6, <2>7 DEF AllReceived
<1>10. ASSUME pc'[Master] # "run" PROVE sent = received
  <2>1. CASE pc[Master] # "run" BY <1>1, <2>1 DEF AllReceived
  <2>2. CASE pc[Master] = "run"
    <3>1. AllJoined BY <1>10, <2>2 DEF Effect
    <3>2. ~(Queuing /\ sent > 0 /\ received < MaxMsgs)
      BY <1>1, <2>2, <3>1, LinkFacts DEF AllReceived, AllJoined
    <3>3. ~Queuing => sent = 0 BY <1>1, LinkFacts DEF OneChannel
    <3>. QED BY <1>1, <3>2, <3>3, LinkFacts
  <2>. QED BY <2>1, <2>2
<1>11. AllReceived' BY <1>2, <1>4, <1>7, <1>8, <1>9, <1>10 DEF AllReceived
<1>. QED BY <1>3, <1>5, <1>6, <1>11 DEF LinkInv

(* A step of the cores keeps everything. *)
LEMMA CoresKeep ==
  ASSUME SystemInv, CoreInv', UNCHANGED channels, NEW ending, Effect(ending, BothEnds),
         \A s \in Slaves : s \in ending => ChannelDone(s)
  PROVE  SystemInv'
<1>1. UNCHANGED <<application, registered, dma, queueVars, portVars>>
  BY DEF channels
<1>2. UNCHANGED linkVars
  BY <1>1 DEF linkVars, queueVars, srcVars, sinkVars, portVars, writeVars, readVars
<1>3. LinkInv' BY <1>2, CoresKeepLink
<1>4. dma' = [e \in Ends |-> dma'[e]] BY <1>1 DEF SystemInv, QueueInv, QueueTypeOK
<1>5. PortInv' BY <1>1, <1>4, QueueKeepsPort DEF SystemInv
<1>6. QueueInv' BY <1>1, <1>4, OtherEntriesKeepQueue DEF SystemInv
<1>. QED BY <1>3, <1>5, <1>6 DEF SystemInv

(* The same for a step in which no thread ends and none is joined. *)
LEMMA QuietCoresKeep ==
  ASSUME SystemInv, CoreInv', UNCHANGED channels, Effect({}, FALSE)
  PROVE  SystemInv'
<1>1. Effect({}, BothEnds) BY DEF Effect
<1>. QED BY <1>1, CoresKeep

(* The boot loader. *)
LEMMA BootKeeps ==
  ASSUME SystemInv, OutsideBoot,
         MasterStep \/ BeginDownload \/ \E s \in Slaves : Reset(s) \/ SlaveStep(s)
  PROVE  SystemInv'
<1>1. CoreInv /\ UNCHANGED threadVars /\ UNCHANGED channels BY DEF SystemInv, OutsideBoot
<1>2. CASE MasterStep
  BY <1>1, <1>2, MasterStepKeeps, MasterStepEffect, QuietCoresKeep
<1>3. CASE BeginDownload
  BY <1>1, <1>3, BeginDownloadKeeps, MasterStepEffect, QuietCoresKeep
<1>4. CASE \E s \in Slaves : Reset(s) \/ SlaveStep(s)
  <2>1. PICK s \in Slaves : Reset(s) \/ SlaveStep(s) BY <1>4
  <2>2. CoreInv' BY <1>1, <2>1, SlaveStepKeeps, Zenon
  <2>3. Effect({}, FALSE) BY <1>1, <2>1, SlaveStepEffect, Zenon
  <2>. QED BY <1>1, <2>2, <2>3, QuietCoresKeep
<1>. QED BY <1>2, <1>3, <1>4

(* The call of the application. *)
LEMMA CallApplicationKeeps ==
  ASSUME SystemInv, NEW c \in Core, CallApplication(c)
  PROVE  SystemInv'
<1>1. CoreInv /\ UNCHANGED channels /\ Call(c) /\ UNCHANGED <<core0, thread, arg, left>>
  BY DEF SystemInv, CallApplication
<1>2. at' = [s \in Slaves |-> IF s = c /\ HasEntry THEN "configure" ELSE at[s]]
  BY DEF CallApplication
<1>3. CASE c = Master
  <2>1. at' = at BY <1>1, <1>2, <1>3, CoreFacts DEF CoreInv, FieldsOK
  <2>2. UNCHANGED threadVars BY <1>1, <2>1 DEF threadVars
  <2>3. CoreInv' BY <1>1, <1>3, <2>2, MasterCallKeeps, Zenon
  <2>4. Effect({}, FALSE) BY <1>1, <1>3, <2>2, MasterCallEffect, Zenon
  <2>. QED BY <1>1, <2>3, <2>4, QuietCoresKeep
<1>4. CASE c \in Slaves
  <2>1. CoreInv' BY <1>1, <1>2, <1>4, SlaveCallKeeps, Zenon
  <2>2. Effect({}, FALSE) BY <1>1, <1>2, <1>4, SlaveCallEffect, Zenon
  <2>. QED BY <1>1, <2>1, <2>2, QuietCoresKeep
<1>5. c = Master \/ c \in Slaves BY BootAssumption DEF Core, Master, Slaves
<1>. QED BY <1>3, <1>4, <1>5

(* The return from the application. *)
LEMMA LeaveApplicationKeeps ==
  ASSUME SystemInv, NEW c \in Core, LeaveApplication(c)
  PROVE  SystemInv'
<1>1. CoreInv /\ UNCHANGED threadVars /\ UNCHANGED channels /\ ApplicationReturns(c)
  BY DEF SystemInv, LeaveApplication, OutsideBoot
<1>2. CASE c = Master
  <2>1. AllJoined BY <1>2 DEF LeaveApplication
  <2>2. CoreInv' BY <1>1, <1>2, <2>1, MasterReturnKeeps, Zenon
  <2>3. Effect({}, FALSE) BY <1>1, <1>2, <2>1, MasterReturnEffect, Zenon
  <2>. QED BY <1>1, <2>2, <2>3, QuietCoresKeep
<1>3. CASE c \in Slaves
  <2>1. at[c] = "out" BY <1>3, CoreFacts DEF LeaveApplication
  <2>2. CoreInv' BY <1>1, <1>3, <2>1, SlaveReturnKeeps, Zenon
  <2>3. Effect({}, FALSE) BY <1>1, <1>3, SlaveCallEffect, Zenon
  <2>. QED BY <1>1, <2>2, <2>3, QuietCoresKeep
<1>4. c = Master \/ c \in Slaves BY BootAssumption DEF Core, Master, Slaves
<1>. QED BY <1>2, <1>3, <1>4

(* The barrier of noc_init. *)
LEMMA NocInitKeeps ==
  ASSUME SystemInv, NocInit \/ \E s \in Slaves : SlaveNocInit(s)
  PROVE  SystemInv'
<1>1. CoreInv /\ OutsideNocInit /\ UNCHANGED channels
  BY DEF SystemInv, NocInit, SlaveNocInit, OutsideNocSync, OutsideNocInit
<1>2. CASE NocInit
  <2>1. CoreInv' BY <1>1, <1>2, NetworkStartsKeeps, Zenon DEF NocInit
  <2>2. Effect({}, FALSE) BY <1>1, <1>2, NetworkStartsEffect, Zenon DEF NocInit
  <2>. QED BY <1>1, <2>1, <2>2, QuietCoresKeep
<1>3. ASSUME NEW s \in Slaves, SlaveNocInit(s) PROVE SystemInv'
  <2>1. (SlaveConfigured(s) /\ AllAreSeen) \/ SlaveReleased(s) BY <1>3 DEF SlaveNocInit
  <2>2. CoreInv' BY <1>1, <2>1, SlaveConfiguredKeeps, SlaveReleasedKeeps, Zenon
  <2>3. Effect({}, FALSE) BY <1>1, <2>1, SlaveCallEffect, Zenon
  <2>. QED BY <1>1, <2>2, <2>3, QuietCoresKeep
<1>. QED BY <1>2, <1>3

(* libcorethread on core 0. *)
LEMMA ThreadCallKeepsAll ==
  ASSUME SystemInv, ThreadCall
  PROVE  SystemInv'
<1>1. CoreInv /\ pc[Master] = "run" /\ OutsideThread /\ UNCHANGED channels
  BY DEF SystemInv, ThreadCall, OutsideThreads, OutsideThread
<1>2. \/ InCall \/ (\E s \in Slaves : corethread_create(s))
      \/ BothEnds /\ \E s \in Slaves : BeginJoin(s)
  BY DEF ThreadCall
<1>3. CoreInv' BY <1>1, <1>2, ThreadCallKeeps, Zenon
<1>4. Effect({}, BothEnds) BY <1>1, <1>2, ThreadCallEffect
<1>. QED BY <1>1, <1>3, <1>4, CoresKeep

(* libcorethread on a slave: a thread ends when its end of the channel is done. *)
LEMMA WorkerKeepsAll ==
  ASSUME SystemInv, NEW s \in Slaves, Worker(s)
  PROVE  SystemInv'
<1>1. CoreInv /\ OutsideThread /\ UNCHANGED channels
  BY DEF SystemInv, Worker, OutsideThreads, OutsideThread
<1>2. InWorker(s) \/ Enter(s) \/ ReturnPlainly(s) \/ corethread_exit(s) BY DEF Worker
<1>3. CoreInv' BY <1>1, <1>2, WorkerKeeps, Zenon
<1>4. CASE at[s] = "body"
  <2>1. ChannelDone(s)
    BY <1>4, Zenon
       DEF Worker, InWorker, Poll, Show, CallThread, End, AwaitJoin, LeaveLoop, Enter, SlaveAt
  <2>2. at[s] = "body" => s \in {s} OBVIOUS
  <2>3. Effect({s}, FALSE) BY <1>1, <1>2, <2>2, WorkerEffect, Zenon
  <2>4. Effect({s}, BothEnds) BY <2>3 DEF Effect
  <2>. QED BY <1>1, <1>3, <2>1, <2>4, CoresKeep
<1>5. CASE at[s] # "body"
  <2>1. Effect({}, FALSE) BY <1>1, <1>2, <1>5, WorkerEffect, Zenon
  <2>. QED BY <1>1, <1>3, <2>1, QuietCoresKeep
<1>. QED BY <1>4, <1>5

-----------------------------------------------------------------------------
(* The channels *)

(* What the link looks at of the cores. *)
CoresStay == UNCHANGED <<bootVars, threadVars>>

(* A step of a channel moves neither the cores nor their threads. *)
LEMMA CoresStayFacts ==
  ASSUME CoresStay
  PROVE  UNCHANGED <<pc, at, app, funcpoint>> /\ Fresh' = Fresh
<1>1. UNCHANGED <<pc, at, app, funcpoint>> BY DEF CoresStay, bootVars, slave, threadVars, core0
<1>. QED BY <1>1 DEF Fresh

(* A step of the network interfaces keeps the link. *)
LEMMA NetworkKeepsLink ==
  ASSUME LinkInv, CoresStay, UNCHANGED linkVars
  PROVE  LinkInv'
<1>1. UNCHANGED <<application, registered, writer, reader, pcSrc, pcSink, sent, received>>
  BY DEF linkVars
<1>2. UNCHANGED <<pc, at, app, funcpoint>> /\ Fresh' = Fresh BY CoresStayFacts
<1>3. Queuing' = Queuing BY <1>1 DEF Queuing
<1>4. NothingYet' /\ EndsAreQuiet' BY <1>1, <1>2 DEF LinkInv, NothingYet, EndsAreQuiet
<1>5. OneChannel' BY <1>1, <1>3 DEF LinkInv, OneChannel, QueueRegistered, PortsRegistered
<1>6. AllReceived' BY <1>1, <1>2, <1>3 DEF LinkInv, AllReceived
<1>. QED BY <1>4, <1>5, <1>6 DEF LinkInv

(* The invariant of the queue and its transfers leave the sampling port alone. *)
LEMMA QueueStepKeepsPort ==
  ASSUME PortInv, QueueInv, UNCHANGED portVars, NEW e \in Ends,
         \/ Source \/ Sink \/ Acknowledge
         \/ MoveData \/ MoveAck \/ OtherEnds(e) \/ OtherBegins(e)
  PROVE  PortInv'
<1>1. dma' = [x \in Ends |-> dma'[x]] BY QueueEntries DEF Acknowledge
<1>2. \A x \in Ends : \/ dma'[x] = dma[x]
                      \/ /\ dma[x].kind \in {"idle", "data", "ack", "other"}
                         /\ dma'[x].kind \in {"idle", "data", "ack", "other"}
  BY QueueEntries DEF Acknowledge
<1>3. \A x \in Ends : \/ dma'[x] = dma[x]
                      \/ dma[x].kind \notin PortKinds /\ dma'[x].kind \notin PortKinds
  BY <1>2 DEF PortKinds
<1>. QED BY <1>1, <1>3, QueueKeepsPort

(* A thread at an end of a queuing channel. *)
LEMMA UsesQueueKeeps ==
  ASSUME SystemInv, NEW s \in Slaves, at[s] = "body", Queuing, UsesQueue(s), CoresStay
  PROVE  SystemInv'
<1>1. /\ CoreInv /\ PortInv /\ QueueInv /\ NothingYet /\ OneChannel /\ EndsAreQuiet /\ AllReceived
      /\ UNCHANGED portVars /\ UNCHANGED application
  BY DEF SystemInv, LinkInv, UsesQueue
<1>2. Source \/ Sink \/ Acknowledge BY DEF UsesQueue
<1>3. CoreInv' BY <1>1, ElsewhereKeeps DEF CoresStay
<1>4. PortInv' BY <1>1, <1>2, QueueStepKeepsPort, KindFacts
<1>5. QueueInv' /\ QueueRegistered' BY <1>1, <1>2, QueueStepKeeps DEF OneChannel, Acknowledge
<1>6. UNCHANGED <<pc, at, app, funcpoint>> /\ Fresh' = Fresh BY CoresStayFacts
<1>7. UNCHANGED <<writer, reader>> BY <1>1 DEF portVars, writeVars, readVars
<1>8. Queuing' BY <1>1 DEF Queuing
<1>9. pc[Master] = "run" /\ app # "configure" /\ funcpoint[s] # NULL BY <1>1, BodyRuns
<1>10. s = SourceCore \/ s = SinkCore BY DEF UsesQueue
<1>11. received = MaxMsgs => received' = MaxMsgs
  BY <1>1, <1>2, <1>5, AllReceivedStays DEF Acknowledge
<1>12. NothingYet' BY <1>6, <1>9 DEF Fresh, NothingYet, Starting
<1>13. OneChannel' BY <1>1, <1>5, <1>7, <1>8 DEF OneChannel
<1>14. EndsAreQuiet' BY <1>1, <1>6, <1>7 DEF EndsAreQuiet
<1>15. AllReceived' BY <1>1, <1>6, <1>9, <1>10, <1>11 DEF AllReceived
<1>. QED BY <1>3, <1>4, <1>5, <1>12, <1>13, <1>14, <1>15 DEF SystemInv, LinkInv

(* A thread at an end of a sampling channel. *)
LEMMA UsesPortKeeps ==
  ASSUME SystemInv, NEW s \in Slaves, at[s] = "body", ~Queuing, UsesPort(s), CoresStay
  PROVE  SystemInv'
<1>1. /\ CoreInv /\ PortInv /\ QueueInv /\ NothingYet /\ OneChannel /\ EndsAreQuiet /\ AllReceived
      /\ UNCHANGED queueVars /\ UNCHANGED application
  BY DEF SystemInv, LinkInv, UsesPort
<1>2. PICK e \in Ends : \/ e = "src" /\ s = SourceCore /\ (Writer \/ (LockStep(e) /\ OutsideLock))
                        \/ e = "sink" /\ s = SinkCore /\ (Reader \/ (LockStep(e) /\ OutsideLock))
  BY EntryKinds DEF UsesPort
<1>3. CoreInv' BY <1>1, ElsewhereKeeps DEF CoresStay
<1>4. PortInv' /\ PortsRegistered'
  <2>1. CASE Writer \/ Reader BY <1>1, <2>1, PortStepKeeps DEF OneChannel
  <2>2. CASE LockStep(e) /\ OutsideLock
    BY <1>1, <2>2, LockStepKeepsPort
       DEF OneChannel, PortsRegistered, OutsideLock, writeVars, readVars
  <2>. QED BY <1>2, <2>1, <2>2
<1>5. QueueInv'
  <2>1. /\ dma' = [x \in Ends |-> dma'[x]]
        /\ dma'["src"] = dma["src"] \/ (dma["src"].kind # "data" /\ dma'["src"].kind # "data")
    BY <1>1, <1>2, PortEntries
  <2>. QED BY <1>1, <2>1, OtherEntriesKeepQueue
<1>6. UNCHANGED <<pc, at, app, funcpoint>> /\ Fresh' = Fresh BY CoresStayFacts
<1>7. UNCHANGED <<pcSrc, pcSink, sent, received>>
  BY <1>1 DEF queueVars, srcVars, sinkVars
<1>8. ~Queuing' BY <1>1 DEF Queuing
<1>9. pc[Master] = "run" /\ app # "configure" BY <1>1, BodyRuns
<1>10. (s # SourceCore => UNCHANGED writer) /\ (s # SinkCore => UNCHANGED reader)
  BY <1>2, LinkFacts, Zenon DEF Writer, Reader, mp_write, mp_read, WriterCreate, ReaderCreate,
     WriterInitPorts, ReaderInitPorts, SendSample, SampleIsSent, PublishNewest,
     NewestIsPublished, ToggleNext, BeginRead, ReadNewest, CopyWord, EndRead, OutsideLock,
     writeVars, readVars
<1>11. NothingYet' BY <1>6, <1>9 DEF Fresh, NothingYet, Starting
<1>12. OneChannel' BY <1>1, <1>4, <1>7, <1>8 DEF OneChannel
<1>13. EndsAreQuiet' BY <1>1, <1>6, <1>10 DEF EndsAreQuiet
<1>14. AllReceived' BY <1>6, <1>7, <1>8, <1>9 DEF AllReceived
<1>. QED BY <1>3, <1>4, <1>5, <1>11, <1>12, <1>13, <1>14 DEF SystemInv, LinkInv

(* A thread in its body. *)
LEMMA InThreadKeeps ==
  ASSUME SystemInv, NEW s \in Slaves, InThread(s)
  PROVE  SystemInv'
BY UsesQueueKeeps, UsesPortKeeps, Zenon DEF InThread, OutsideChannel, CoresStay

(* Other channels take a DMA entry. *)
LEMMA OtherTransferKeeps ==
  ASSUME SystemInv, OtherTransfer
  PROVE  SystemInv'
<1>1. CoreInv /\ PortInv /\ QueueInv /\ LinkInv /\ CoresStay /\ UNCHANGED portVars /\ UNCHANGED application
  BY DEF SystemInv, OtherTransfer, OutsideChannel, CoresStay
<1>2. PICK e \in Ends : OtherBegins(e) BY KindFacts DEF OtherTransfer
<1>3. UNCHANGED linkVars
  BY <1>1, <1>2 DEF linkVars, OtherBegins, srcVars, sinkVars, portVars, writeVars, readVars
<1>4. CoreInv' BY <1>1, ElsewhereKeeps DEF CoresStay
<1>5. PortInv' BY <1>1, <1>2, QueueStepKeepsPort
<1>6. QueueInv' BY <1>1, <1>2, QueueNetworkKeeps
<1>7. LinkInv' BY <1>1, <1>3, NetworkKeepsLink
<1>. QED BY <1>4, <1>5, <1>6, <1>7 DEF SystemInv

(* The network interfaces. *)
LEMMA InterfaceKeeps ==
  ASSUME SystemInv, NEW e \in Ends, Interface(e)
  PROVE  SystemInv'
<1>1. CoreInv /\ PortInv /\ QueueInv /\ LinkInv /\ CoresStay /\ UNCHANGED application
  BY DEF SystemInv, Interface, OutsideChannel, CoresStay
<1>2. CoreInv' BY <1>1, ElsewhereKeeps DEF CoresStay
<1>3. CASE (MoveData \/ MoveAck \/ OtherEnds(e)) /\ UNCHANGED portVars
  <2>1. UNCHANGED linkVars
    BY <1>1, <1>3
       DEF linkVars, MoveData, MoveAck, OtherEnds, srcVars, sinkVars, portVars, writeVars,
           readVars
  <2>2. PortInv' BY <1>1, <1>3, QueueStepKeepsPort
  <2>3. QueueInv' BY <1>1, <1>3, QueueNetworkKeeps
  <2>4. LinkInv' BY <1>1, <2>1, NetworkKeepsLink
  <2>. QED BY <1>2, <2>2, <2>3, <2>4 DEF SystemInv
<1>4. CASE PortNetwork(e) /\ UNCHANGED queueVars
  <2>1. UNCHANGED linkVars
    BY <1>1, <1>4
       DEF linkVars, PortNetwork, MoveSample, MoveNewest, OutsideLock, queueVars, srcVars,
           sinkVars, writeVars, readVars
  <2>2. PortInv' BY <1>1, <1>4, PortNetworkKeeps
  <2>3. QueueInv'
    <3>1. /\ dma' = [x \in Ends |-> dma'[x]]
          /\ dma'["src"] = dma["src"] \/ (dma["src"].kind # "data" /\ dma'["src"].kind # "data")
      BY <1>1, <1>4, PortEntries
    <3>. QED BY <1>1, <1>4, <3>1, OtherEntriesKeepQueue
  <2>4. LinkInv' BY <1>1, <2>1, NetworkKeepsLink
  <2>. QED BY <1>2, <2>2, <2>3, <2>4 DEF SystemInv
<1>. QED BY <1>3, <1>4 DEF Interface

-----------------------------------------------------------------------------
(* From one program to the next *)

(* The boot loader starts over: nobody is in the lock, and no message is under way. *)
LEMMA NextProgramKeeps ==
  ASSUME SystemInv, NextProgram
  PROVE  SystemInv' /\ sent = received /\ sent' = 0 /\ received' = 0
<1>1. /\ CoreInv /\ PortInv /\ QueueInv /\ EndsAreQuiet /\ AllReceived
      /\ Reset(Master) /\ NewThreads /\ NewQueue /\ NewPort
      /\ application' = NoApplication /\ registered' = {} /\ dma' = [e \in Ends |-> Idle]
  BY DEF SystemInv, LinkInv, NextProgram, mp_init
<1>2. pc[Master] = "delay" BY <1>1 DEF Reset
<1>3. CoreInv' BY <1>1, MasterResetKeeps
<1>4. at[SourceCore] # "body" /\ at[SinkCore] # "body" BY <1>1, <1>2, BodyRuns, LinkFacts
<1>5. PortInv' BY <1>1, <1>4, NewPortKeeps DEF EndsAreQuiet, PortQuiet
<1>6. QueueInv' BY <1>1, NewQueueStarts
<1>7. sent = received /\ sent' = 0 /\ received' = 0 BY <1>1, <1>2 DEF AllReceived, NewQueue
<1>8. /\ registered' = {} /\ writer' = "create" /\ reader' = "create"
      /\ pcSrc' = "create" /\ pcSink' = "create"
  BY <1>1 DEF NewQueue, NewPort
<1>9. ~Queuing' BY <1>1 DEF Queuing, NoApplication
<1>10. NothingYet' /\ EndsAreQuiet' BY <1>8 DEF NothingYet, EndsAreQuiet
<1>11. OneChannel' BY <1>8, <1>9 DEF OneChannel, PortsRegistered
<1>12. AllReceived' BY <1>7, <1>9 DEF AllReceived
<1>. QED BY <1>3, <1>5, <1>6, <1>7, <1>10, <1>11, <1>12 DEF SystemInv, LinkInv

(* The download ends, and with it the application is known. *)
LEMMA EndDownloadKeepsAll ==
  ASSUME SystemInv, NEW result, EndDownload(result),
         UNCHANGED <<threadVars, registered, dma, queueVars, portVars>>
  PROVE  SystemInv'
<1>1. CoreInv /\ PortInv /\ QueueInv /\ NothingYet /\ EndsAreQuiet /\ AllReceived
  BY DEF SystemInv, LinkInv
<1>2. pc[Master] = "download" BY DEF EndDownload
<1>3. Fresh BY <1>2 DEF Fresh, Starting
<1>4. CoreInv' BY <1>1, EndDownloadKeeps
<1>5. dma' = [e \in Ends |-> dma'[e]] BY <1>1 DEF QueueInv, QueueTypeOK
<1>6. PortInv' BY <1>1, <1>5, QueueKeepsPort
<1>7. QueueInv' BY <1>1, <1>5, OtherEntriesKeepQueue
<1>8. /\ registered' = {} /\ writer' = "create" /\ reader' = "create"
      /\ pcSrc' = "create" /\ pcSink' = "create"
      /\ sent' = 0 /\ received' = 0 /\ pc'[Master] # "run"
  <2>1. UNCHANGED <<registered, writer, reader, pcSrc, pcSink, sent, received>>
    BY DEF queueVars, srcVars, sinkVars, portVars, writeVars, readVars
  <2>2. sent = 0 /\ received = 0 BY <1>1, <1>3, LinkFacts DEF NothingYet
  <2>3. pc'[Master] = "start"
    BY <1>1, CoreFacts DEF EndDownload, Goto, CoreInv, FieldsOK
  <2>. QED BY <1>1, <1>3, <2>1, <2>2, <2>3 DEF NothingYet
<1>9. NothingYet' /\ EndsAreQuiet' BY <1>8 DEF NothingYet, EndsAreQuiet
<1>10. OneChannel' BY <1>8 DEF OneChannel, PortsRegistered, QueueRegistered
<1>11. app \notin {"join", "joined"} /\ at[SinkCore] \notin Ended
  BY <1>1, <1>2, LinkFacts, Zenon
     DEF CoreInv, MasterInv, Starting, SlaveInv, PlaceInv, StatusInv, Ended
<1>12. AllReceived' BY <1>8, <1>11 DEF AllReceived, threadVars, core0
<1>. QED BY <1>4, <1>6, <1>7, <1>9, <1>10, <1>12 DEF SystemInv, LinkInv

-----------------------------------------------------------------------------
(* All steps of the cores and the network but the end of a download. *)
SystemStep ==
  \/ OutsideBoot /\ (MasterStep \/ BeginDownload \/ \E s \in Slaves : Reset(s) \/ SlaveStep(s))
  \/ NextProgram \/ NocInit \/ ThreadCall \/ OtherTransfer
  \/ \E c \in Core : CallApplication(c) \/ LeaveApplication(c)
  \/ \E s \in Slaves : SlaveNocInit(s) \/ Worker(s) \/ InThread(s)
  \/ \E e \in Ends : Interface(e)
  \/ UNCHANGED systemVars

(* The steps that use neither a message nor the end of the program. *)
LEMMA CountersStay ==
  ASSUME SystemStep, ~NextProgram, \A s \in Slaves : ~(InThread(s) /\ Queuing)
  PROVE  UNCHANGED <<sent, received>>
<1>1. UNCHANGED queueVars => UNCHANGED <<sent, received>> BY DEF queueVars, srcVars, sinkVars
<1>2. UNCHANGED channels => UNCHANGED queueVars BY DEF channels
<1>3. CASE UNCHANGED channels BY <1>1, <1>2, <1>3
<1>4. OtherTransfer => UNCHANGED <<sent, received>>
  BY DEF OtherTransfer, OtherBegins, srcVars, sinkVars
<1>5. ASSUME NEW e \in Ends, Interface(e) PROVE UNCHANGED <<sent, received>>
  BY <1>1, <1>5 DEF Interface, MoveData, MoveAck, OtherEnds, srcVars, sinkVars
<1>6. ASSUME NEW s \in Slaves, InThread(s), ~Queuing PROVE UNCHANGED <<sent, received>>
  BY <1>1, <1>6 DEF InThread, UsesPort
<1>7. (NocInit \/ ThreadCall \/ OutsideBoot \/ UNCHANGED systemVars) => UNCHANGED channels
  BY DEF NocInit, ThreadCall, OutsideBoot, OutsideNocSync, OutsideThreads, systemVars
<1>8. ASSUME NEW c \in Core, CallApplication(c) \/ LeaveApplication(c) PROVE UNCHANGED channels
  BY <1>8 DEF CallApplication, LeaveApplication, OutsideBoot
<1>9. ASSUME NEW s \in Slaves, SlaveNocInit(s) \/ Worker(s) PROVE UNCHANGED channels
  BY <1>9 DEF SlaveNocInit, Worker, OutsideNocSync, OutsideThreads
<1>. QED BY <1>3, <1>4, <1>5, <1>6, <1>7, <1>8, <1>9, Zenon DEF SystemStep

(* Every step keeps the invariant. *)
LEMMA SystemStepKeeps ==
  ASSUME SystemInv, SystemStep
  PROVE  SystemInv'
<1>1. CASE UNCHANGED systemVars
  <2>1. CoresStay /\ UNCHANGED channels BY <1>1 DEF systemVars, CoresStay
  <2>2. CoreInv' BY <2>1, ElsewhereKeeps DEF CoresStay, SystemInv
  <2>3. UNCHANGED <<at, app, funcpoint>> /\ pc'[Master] = pc[Master] /\ Fresh' = Fresh
    BY <2>1, CoresStayFacts
  <2>4. Effect({}, FALSE)
    <3>1. app \in {"join", "joined"} => pc[Master] = "run"
      BY DEF SystemInv, CoreInv, MasterInv, InCallOfThread
    <3>. QED BY <2>3, <3>1 DEF Effect
  <2>. QED BY <2>1, <2>2, <2>4, QuietCoresKeep
<1>. QED
  BY <1>1, BootKeeps, NextProgramKeeps, NocInitKeeps, ThreadCallKeepsAll, OtherTransferKeeps,
     CallApplicationKeeps, LeaveApplicationKeeps, WorkerKeepsAll, InThreadKeeps, InterfaceKeeps, Zenon
     DEF SystemStep

(* Every step is one of a bounded queue of messages, or nothing to it. *)
LEMMA SystemStepIsFifo ==
  ASSUME SystemInv, SystemStep
  PROVE  Fifo!Next \/ UNCHANGED UnderWay
<1>1. QueueInv BY DEF SystemInv
<1>2. QueueInv' BY SystemStepKeeps DEF SystemInv
<1>3. CASE NextProgram BY <1>1, <1>2, <1>3, NextProgramKeeps, EmptyStutters
<1>4. CASE \E s \in Slaves : InThread(s) /\ Queuing
  <2>1. Source \/ Sink \/ Acknowledge BY <1>4 DEF InThread, UsesQueue
  <2>. QED BY <1>1, <1>2, <2>1, QueueStepIsFifo DEF Acknowledge
<1>5. CASE ~NextProgram /\ \A s \in Slaves : ~(InThread(s) /\ Queuing)
  BY <1>1, <1>2, <1>5, CountersStay, QuietStepStutters
<1>. QED BY <1>3, <1>4, <1>5

(* No step changes which program runs. *)
LEMMA SystemStepKeepsProgram ==
  ASSUME SystemInv, NEW v, RunsOnly(v), SystemStep
  PROVE  RunsOnly(v)'
<1>1. CoreInv BY DEF SystemInv
<1>2. CASE UNCHANGED <<pc, entrypoint, ran>> BY <1>2 DEF RunsOnly
<1>3. ASSUME MasterStep \/ BeginDownload \/ \E s \in Slaves : Reset(s) \/ SlaveStep(s)
      PROVE  RunsOnly(v)'
  BY <1>1, <1>3, MasterStepKeepsProgram, ReturnKeepsProgram, SlaveStepKeepsProgram, Zenon
<1>4. CASE NextProgram BY <1>1, <1>4, ReturnKeepsProgram DEF NextProgram
<1>5. ASSUME NEW c \in Core, CallApplication(c) PROVE RunsOnly(v)'
  BY <1>1, <1>5, CallKeepsProgram, Zenon DEF CallApplication
<1>6. ASSUME NEW c \in Core, LeaveApplication(c) PROVE RunsOnly(v)'
  BY <1>1, <1>6, ReturnKeepsProgram, Zenon DEF LeaveApplication
<1>7. (NocInit \/ ThreadCall \/ OtherTransfer \/ UNCHANGED systemVars) => UNCHANGED <<pc, entrypoint, ran>>
  BY DEF NocInit, ThreadCall, OtherTransfer, OutsideNocSync, OutsideThreads, OutsideChannel,
         systemVars, bootVars
<1>8. ASSUME NEW s \in Slaves, SlaveNocInit(s) \/ Worker(s) \/ InThread(s)
      PROVE  UNCHANGED <<pc, entrypoint, ran>>
  BY <1>8
     DEF SlaveNocInit, Worker, InThread, OutsideNocSync, OutsideThreads, OutsideChannel,
         bootVars
<1>9. ASSUME NEW e \in Ends, Interface(e) PROVE UNCHANGED <<pc, entrypoint, ran>>
  BY <1>9 DEF Interface, OutsideChannel, bootVars
<1>. QED BY <1>2, <1>3, <1>4, <1>5, <1>6, <1>7, <1>8, <1>9, Zenon DEF SystemStep
=============================================================================
