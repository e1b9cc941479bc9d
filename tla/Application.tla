---------------------------- MODULE Application ----------------------------
(* An application on the cores: core 0 creates threads and joins them, two of them are the
   ends of a queuing or a sampling channel, and the network interfaces run beside the
   cores.  The boot loader calls the application on every core; a thread runs in the worker
   of its core, and a step of a channel in the thread of its end. *)
EXTENDS Corethread, QueuingPort, SamplingPort

VARIABLE application  \* the kind of channel it uses, and how many threads it creates

ASSUME ApplicationAssumption == Cores > 2

channels == <<application, registered, dma, queueVars, portVars>>
systemVars == <<bootVars, threadVars, channels>>
NoApplication == [channel |-> "none", threads |-> 0]

SourceCore == 1
SinkCore == 2

(* What a step of one component leaves alone. *)
OutsideBoot == UNCHANGED <<threadVars, channels>>
OutsideChannel == UNCHANGED <<bootVars, threadVars>>
OutsideThreads == UNCHANGED <<pc, i, master, entrypoint, ran, channels>>
OutsideNocSync ==
  UNCHANGED <<pc, i, entrypoint, ran, target, threads, joined, thread, arg, left, channels>>

(* mp_init of the next program: no channel is registered. *)
mp_init ==
  /\ NewQueue /\ NewPort
  /\ application' = NoApplication /\ registered' = {} /\ dma' = [e \in Ends |-> Idle]

(* The next program has fresh data; nothing of the last one is looked at again, and the
   delay at the start outlasts what it left under way in the network. *)
NextProgram == Reset(Master) /\ NewThreads /\ mp_init

CallApplication(c) ==
  /\ Call(c)
  /\ at' = [s \in Slaves |-> IF s = c /\ HasEntry THEN "configure" ELSE at[s]]
  /\ UNCHANGED <<core0, thread, arg, left, channels>>

LeaveApplication(c) ==
  /\ ApplicationReturns(c)
  /\ IF c = Master THEN AllJoined ELSE at[c] = "out"
  /\ OutsideBoot

-----------------------------------------------------------------------------
(* The constructor noc_init, ahead of main and of the worker. *)
NocInit == pc[Master] = "run" /\ NetworkStarts /\ OutsideNocSync

SlaveNocInit(s) ==
  /\ (SlaveConfigured(s) /\ AllAreSeen) \/ SlaveReleased(s)
  /\ OutsideNocSync

-----------------------------------------------------------------------------
(* The application.  The threads on SourceCore and SinkCore are the ends of a channel: all
   messages are sent and received, or samples are written, and read until the last one
   is seen.  An application that starts one of them starts the other before it joins. *)
Queuing == application.channel = "QUEUING"
LastIsSeen == copied = Sample(MaxSamples)

SourceDone == IF Queuing THEN sent = MaxMsgs ELSE returned = MaxSamples
SinkDone == IF Queuing THEN received = MaxMsgs ELSE LastIsSeen /\ reader = "idle"
ChannelDone(s) == (s = SourceCore => SourceDone) /\ (s = SinkCore => SinkDone)
BothEnds == \A s \in {SourceCore, SinkCore} : ChannelDone(s) \/ funcpoint[s] # NULL

ThreadCall ==
  /\ pc[Master] = "run"
  /\ \/ InCall
     \/ threads < application.threads /\ \E s \in Slaves : corethread_create(s)
     \/ BothEnds /\ \E s \in Slaves : BeginJoin(s)
  /\ OutsideThreads

Worker(s) ==
  /\ \/ InWorker(s)
     \/ Enter(s)
     \/ ChannelDone(s) /\ ReturnPlainly(s)
     \/ (at[s] = "body" => ChannelDone(s)) /\ corethread_exit(s)
  /\ OutsideThreads

Acknowledge == \E n \in 1 .. NumBuf : mp_ack_n(n)

UsesQueue(s) ==
  /\ \/ s = SourceCore /\ Source
     \/ s = SinkCore /\ (Sink \/ Acknowledge)
  /\ UNCHANGED <<application, portVars>>

UsesPort(s) ==
  /\ \/ s = SourceCore /\ (Writer \/ (LockStep("src") /\ OutsideLock))
     \/ s = SinkCore /\ ((~SinkDone /\ Reader) \/ (LockStep("sink") /\ OutsideLock))
  /\ UNCHANGED <<application, queueVars>>

InThread(s) ==
  /\ at[s] = "body"
  /\ (Queuing /\ UsesQueue(s)) \/ (~Queuing /\ UsesPort(s))
  /\ OutsideChannel

OtherTransfer ==
  /\ Queuing
  /\ \/ at[SourceCore] = "body" /\ ~SourceDone /\ OtherBegins("src")
     \/ at[SinkCore] = "body" /\ ~SinkDone /\ OtherBegins("sink")
  /\ UNCHANGED <<application, portVars>> /\ OutsideChannel

Interface(e) ==
  /\ \/ /\ (e = "src" /\ MoveData) \/ (e = "sink" /\ MoveAck) \/ OtherEnds(e)
        /\ UNCHANGED portVars
     \/ PortNetwork(e) /\ UNCHANGED queueVars
  /\ UNCHANGED application /\ OutsideChannel
=============================================================================
