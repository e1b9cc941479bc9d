------------------------ MODULE SamplingPortProofs ------------------------
(* Facts about the lock of libmp, and about the sampling port that it guards for every
   size of a sample and every number of them. *)
EXTENDS SamplingPort, TLAPS

(* No leaf is given up too soon on a busy machine. *)
USE SMTT(60), ZenonT(60)

-----------------------------------------------------------------------------
(* The lock, for its users: an inductive invariant, that every step of the lock and of
   the network keeps it, under which conditions the steps of a user do, and that it
   implies mutual exclusion.  The numbers are not bounded. *)

LockPlace == {"out", "enter", "take", "show", "await", "queue", "cs", "leave", "gone"}
Numbered == {"show", "await", "queue", "cs", "leave"}

LockTypeOK ==
  /\ lpc \in [Ends -> LockPlace]
  /\ local_entering \in [Ends -> BOOLEAN] /\ remote_entering \in [Ends -> BOOLEAN]
  /\ local_number \in [Ends -> Nat] /\ remote_number \in [Ends -> Nat]
  /\ dma = [e \in Ends |-> dma[e]]

(* A core's own variables follow its place, and what the other core has of them is right
   unless it is on its way; when it can be is what the memory barriers settle. *)
CopiesFollow(e) ==
  /\ local_number[e] > 0 <=> lpc[e] \in Numbered
  /\ local_entering[e] <=> lpc[e] \in {"take", "show"}
  /\ dma[e] = Entering => lpc[e] \in {"take", "await", "queue", "cs", "leave"}
  /\ dma[e] = TheNumber => lpc[e] \in {"show", "gone"}
  /\ dma[e] # Entering => remote_entering[Remote(e)] = local_entering[e]
  /\ dma[e] # TheNumber => remote_number[Remote(e)] = local_number[e]

Precedes(e, o) ==
  \/ local_number[e] < local_number[o]
  \/ local_number[e] = local_number[o] /\ e = "src"

(* A core that has seen the other one not entering knows its number, or the other one
   took a greater one since; a core inside precedes the other one. *)
OrderHolds(e) ==
  LET o == Remote(e) IN
  /\ lpc[e] \in {"queue", "cs"} /\ lpc[o] \in Numbered /\ dma[o] = TheNumber
       => local_number[e] < local_number[o]
  /\ lpc[e] = "cs" /\ lpc[o] \in Numbered => Precedes(e, o)

LockInv == LockTypeOK /\ \A e \in Ends : CopiesFollow(e) /\ OrderHolds(e)

-----------------------------------------------------------------------------
(* The other end of the other end is the end itself; the three entries the lock tells
   apart differ. *)
LEMMA EndFacts ==
  /\ \A e \in Ends : Remote(e) \in Ends /\ Remote(e) # e /\ Remote(Remote(e)) = e
  /\ \A e, o \in Ends : o = e \/ o = Remote(e)
  /\ Entering # TheNumber /\ Entering # Idle /\ TheNumber # Idle
  BY DEF Ends, Remote, Entering, TheNumber, Idle

(* Two cores inside would each precede the other one. *)
LEMMA LockInvExcludes == LockInv => MutualExclusion
<1> SUFFICES ASSUME LockInv, lpc["src"] = "cs", lpc["sink"] = "cs"
             PROVE  FALSE
  BY DEF MutualExclusion
<1>1. Precedes("src", "sink") /\ Precedes("sink", "src")
  BY DEF LockInv, OrderHolds, Numbered, Ends, Remote
<1> QED
  BY <1>1 DEF Precedes, LockInv, LockTypeOK, Ends

(* Both cores outside, nothing on its way: the state after power-up. *)
LEMMA LockStarts == LockInit /\ dma = [e \in Ends |-> Idle] => LockInv
<1> SUFFICES ASSUME LockInit, dma = [e \in Ends |-> Idle]
             PROVE  LockInv
  OBVIOUS
<1>1. LockTypeOK
  BY DEF LockInit, LockTypeOK, LockPlace
<1>2. ASSUME NEW e \in Ends
      PROVE  CopiesFollow(e) /\ OrderHolds(e)
  <2>1. Remote(e) \in Ends
    BY EndFacts
  <2>2. CopiesFollow(e)
    BY <2>1, EndFacts DEF LockInit, CopiesFollow, Numbered
  <2> QED
    BY <2>1, <2>2 DEF LockInit, OrderHolds
<1> QED
  BY <1>1, <1>2 DEF LockInv

(* Every step of acquire_lock and release_lock keeps the invariant. *)
LEMMA LockStepKeeps ==
  ASSUME LockInv, NEW e \in Ends, LockStep(e)
  PROVE  LockInv'
<1> DEFINE o == Remote(e)
<1>0. /\ o \in Ends /\ o # e /\ Remote(o) = e
      /\ LockTypeOK /\ CopiesFollow(e) /\ CopiesFollow(o) /\ OrderHolds(e) /\ OrderHolds(o)
      /\ Entering # TheNumber /\ Entering # Idle /\ TheNumber # Idle
  BY EndFacts DEF LockInv
<1>ends. \A x \in Ends : x = e \/ x = o
  BY EndFacts
<1> HIDE DEF o
<1> SUFFICES LockTypeOK' /\ (CopiesFollow(e) /\ CopiesFollow(o) /\ OrderHolds(e) /\ OrderHolds(o))'
  BY <1>ends DEF LockInv
<1> USE DEF LockTypeOK, LockPlace, Numbered, k_noc_dma_write, k_noc_dma_done, LockAt
<1>1. CASE ShowEntering(e)
  BY <1>0, <1>1 DEF ShowEntering, CopiesFollow, OrderHolds, Precedes, o
<1>2. CASE TakeNumber(e)
  <2>0. LockTypeOK' /\ CopiesFollow(o)'
    BY <1>0, <1>2 DEF TakeNumber, CopiesFollow
  <2>1. CopiesFollow(e)'
    <3>1. local_number'[e] > 0 /\ lpc'[e] = "show" /\ dma'[e] = TheNumber
      BY <1>0, <1>2 DEF TakeNumber
    <3>2. local_entering'[e] /\ remote_entering'[o] = local_entering'[e]
      BY <1>0, <1>2, Zenon DEF TakeNumber, CopiesFollow, o
    <3> QED
      BY <1>0, <3>1, <3>2 DEF CopiesFollow, o
  <2>2. lpc[o] \in {"queue", "cs"} => local_number'[e] > local_number[o]
    BY <1>0, <1>2 DEF TakeNumber, CopiesFollow
  <2>3. OrderHolds(o)'
    BY <1>0, <1>2, <2>2 DEF TakeNumber, OrderHolds, Precedes
  <2>4. OrderHolds(e)'
    BY <1>0, <1>2 DEF TakeNumber, OrderHolds
  <2> QED
    BY <2>0, <2>1, <2>3, <2>4
<1>3. CASE ShowEntered(e)
  BY <1>0, <1>3 DEF ShowEntered, CopiesFollow, OrderHolds, Precedes, o
<1>4. CASE AwaitEntered(e)
  BY <1>0, <1>4 DEF AwaitEntered, CopiesFollow, OrderHolds, Precedes, o
<1>5. CASE AwaitTurn(e)
  <2>1. LockTypeOK' /\ CopiesFollow(e)' /\ CopiesFollow(o)' /\ OrderHolds(o)'
    BY <1>0, <1>5 DEF AwaitTurn, CopiesFollow, OrderHolds, Precedes
  <2>2. lpc[o] \in Numbered => Precedes(e, o)
    <3>1. e = "src" \/ e = "sink"
      BY DEF Ends
    <3>2. CASE dma[o] = TheNumber
      BY <1>0, <1>5, <3>2 DEF AwaitTurn, OrderHolds, Precedes, o
    <3>3. CASE dma[o] # TheNumber
      BY <1>0, <1>5, <3>1, <3>3 DEF AwaitTurn, IsBehind, CopiesFollow, Precedes
    <3> QED
      BY <3>2, <3>3
  <2>3. OrderHolds(e)'
    BY <1>0, <1>5, <2>2 DEF AwaitTurn, OrderHolds, Precedes, o
  <2> QED
    BY <2>1, <2>3
<1>6. CASE DropNumber(e)
  BY <1>0, <1>6 DEF DropNumber, CopiesFollow, OrderHolds, Precedes, o
<1>7. CASE AwaitDropped(e)
  BY <1>0, <1>7 DEF AwaitDropped, CopiesFollow, OrderHolds, Precedes, o
<1> QED
  BY <1>1, <1>2, <1>3, <1>4, <1>5, <1>6, <1>7 DEF LockStep

(* So does the delivery of a variable to the other core. *)
LEMMA MoveLockKeeps ==
  ASSUME LockInv, NEW e \in Ends, MoveLock(e)
  PROVE  LockInv'
<1> DEFINE o == Remote(e)
<1>0. /\ o \in Ends /\ o # e /\ Remote(o) = e
      /\ LockTypeOK /\ CopiesFollow(e) /\ CopiesFollow(o) /\ OrderHolds(e) /\ OrderHolds(o)
      /\ Entering # TheNumber /\ Entering # Idle /\ TheNumber # Idle
  BY EndFacts DEF LockInv
<1>ends. \A x \in Ends : x = e \/ x = o
  BY EndFacts
<1> HIDE DEF o
<1>1. LockTypeOK'
  BY <1>0, Zenon DEF MoveLock, LockTypeOK, o
<1>2. CopiesFollow(e)'
  BY <1>0 DEF MoveLock, LockTypeOK, CopiesFollow, o
<1>3. CopiesFollow(o)'
  BY <1>0 DEF MoveLock, LockTypeOK, CopiesFollow, o
<1>4. OrderHolds(e)' /\ OrderHolds(o)'
  BY <1>0 DEF MoveLock, LockTypeOK, OrderHolds, Precedes, o
<1> QED
  BY <1>1, <1>2, <1>3, <1>4, <1>ends DEF LockInv

-----------------------------------------------------------------------------
(* What the users of the lock and of the network interface do. *)

OutOfLock == \A e \in Ends : lpc[e] = "out"
LockEntries == {Entering, TheNumber}

(* Transfers of others come and go beside the lock's. *)
LEMMA OtherTransfersKeep ==
  ASSUME LockInv, UNCHANGED lockVars, dma' = [e \in Ends |-> dma'[e]],
         \A e \in Ends : dma'[e] = dma[e] \/ (dma[e] \notin LockEntries /\ dma'[e] \notin LockEntries)
  PROVE  LockInv'
<1>1. LockTypeOK'
  BY DEF LockInv, LockTypeOK, lockVars
<1>2. ASSUME NEW e \in Ends
      PROVE  CopiesFollow(e)' /\ OrderHolds(e)'
  <2>1. Remote(e) \in Ends
    BY EndFacts
  <2> QED
    BY <1>2, <2>1 DEF LockInv, CopiesFollow, OrderHolds, Precedes, LockEntries, lockVars
<1> QED
  BY <1>1, <1>2 DEF LockInv

(* Outside the lock nothing of it is on its way, and the copies have their initial values. *)
LEMMA OutIsClean ==
  ASSUME LockInv, NEW e \in Ends, lpc[e] = "out"
  PROVE  /\ dma[e] \notin LockEntries
         /\ local_number[e] = 0 /\ remote_number[Remote(e)] = 0
         /\ ~local_entering[e] /\ ~remote_entering[Remote(e)]
  BY EndFacts DEF LockInv, LockTypeOK, CopiesFollow, LockEntries, Numbered

(* A port may be created while nobody uses the lock. *)
LEMMA InitializeKeeps ==
  ASSUME LockInv, OutOfLock, NEW e \in Ends, initialize_lock(e), UNCHANGED dma
  PROVE  LockInv' /\ UNCHANGED lockVars
<1>1. Remote(e) \in Ends /\ Remote(Remote(e)) = e
  BY EndFacts
<1>2. /\ local_number[e] = 0 /\ remote_number[e] = 0
      /\ ~local_entering[e] /\ ~remote_entering[e]
  BY <1>1, OutIsClean DEF OutOfLock
<1>3. UNCHANGED lockVars
  BY <1>2 DEF initialize_lock, lockVars, LockInv, LockTypeOK
<1> QED
  BY <1>3, OtherTransfersKeep DEF LockInv, LockTypeOK

(* The calls of acquire_lock, from outside, and of release_lock, from inside. *)
LEMMA CallKeeps ==
  ASSUME LockInv, NEW e \in Ends, UNCHANGED dma,
         LockAt(e, "out", "enter") \/ LockAt(e, "cs", "leave"),
         UNCHANGED <<local_entering, local_number, remote_entering, remote_number>>
  PROVE  LockInv'
<1> DEFINE o == Remote(e)
<1>0. /\ o \in Ends /\ o # e /\ Remote(o) = e
      /\ LockTypeOK /\ CopiesFollow(e) /\ CopiesFollow(o) /\ OrderHolds(e) /\ OrderHolds(o)
  BY EndFacts DEF LockInv
<1>ends. \A x \in Ends : x = e \/ x = o
  BY EndFacts
<1> HIDE DEF o
<1>1. LockTypeOK'
  BY <1>0 DEF LockAt, LockTypeOK, LockPlace
<1>2. CopiesFollow(e)' /\ CopiesFollow(o)'
  BY <1>0 DEF LockAt, LockTypeOK, CopiesFollow, Numbered
<1>3. OrderHolds(e)' /\ OrderHolds(o)'
  BY <1>0 DEF LockAt, LockTypeOK, OrderHolds, Precedes, Numbered
<1> QED
  BY <1>1, <1>2, <1>3, <1>ends DEF LockInv

-----------------------------------------------------------------------------
(* The port: an inductive invariant that ties the buffers, the index of the newest sample
   and the places of both ends together, and that every step of the port keeps it. *)

BufIndex == {Unwritten, 0, 1}
WordIndex == 1 .. SampleWords

PortTypeOK ==
  /\ writer \in {"create", "ports", "idle", "sending", "locking", "publishing", "unlocking"}
  /\ reader \in {"create", "ports", "idle", "locking", "copying", "unlocking"}
  /\ next \in {0, 1} /\ newest \in BufIndex /\ from \in BufIndex
  /\ bufs \in [BufIndex -> [WordIndex -> Int]] /\ copied \in [WordIndex -> Int]
  /\ at_word \in WordIndex /\ (reader # "copying" => at_word = 1)
  /\ written \in 0 .. MaxSamples /\ returned \in Nat /\ floor \in Nat
  /\ bufs[Unwritten] = Sample(Unwritten)

Acquiring == {"enter", "take", "show", "await", "queue", "cs"}
Releasing == {"leave", "gone", "out"}

(* Where in the lock an end is, and that neither end runs ahead of the creation of the
   other one. *)
PlacesAgree ==
  /\ writer \in {"create", "ports", "idle", "sending"} => lpc["src"] = "out"
  /\ writer = "locking" => lpc["src"] \in Acquiring
  /\ writer = "publishing" => lpc["src"] = "cs"
  /\ writer = "unlocking" => lpc["src"] \in Releasing
  /\ reader \in {"create", "ports", "idle"} => lpc["sink"] = "out"
  /\ reader = "locking" => lpc["sink"] \in Acquiring
  /\ reader = "copying" => lpc["sink"] = "cs"
  /\ reader = "unlocking" => lpc["sink"] \in Releasing
  /\ writer \notin {"create", "ports"} => reader # "create"
  /\ reader \notin {"create", "ports"} => writer # "create"

(* The sample the reader would get, and the one being written to the other buffer. *)
Published == IF newest = next THEN written ELSE returned

WriterInv ==
  /\ writer \in {"create", "ports", "idle"} => written = returned
  /\ writer \notin {"create", "ports", "idle"} => written = returned + 1
  /\ writer \in {"create", "ports"} => returned = 0
  /\ dma["src"].kind = "sample" =>
       /\ writer = "sending" /\ dma["src"].at \in WordIndex
       /\ \A j \in 1 .. dma["src"].at - 1 : bufs[next][j] = written
       /\ dma["src"] = [kind |-> "sample", at |-> dma["src"].at]
  /\ writer = "sending" /\ dma["src"].kind # "sample" => bufs[next] = Sample(written)
  /\ writer \in {"locking", "publishing", "unlocking"} => bufs[next] = Sample(written)
  /\ dma["src"].kind = "newest" => writer = "publishing"

NewestInv ==
  reader # "create" =>
    /\ writer \in {"create", "ports"} => newest = Unwritten
    /\ writer \in {"idle", "sending", "locking"} => newest # next
    /\ writer = "publishing" => (dma["src"].kind = "newest" <=> newest # next)
    /\ writer = "unlocking" => newest = next
    /\ newest = Unwritten => returned = 0
    /\ newest # Unwritten => Published > 0 /\ bufs[newest] = Sample(Published)

(* What was copied is nothing or one sample; the ones still to be copied cannot be
   older than floor. *)
ReaderInv ==
  /\ reader \in {"create", "ports"} => floor = 0 /\ copied = Sample(Unwritten)
  /\ reader # "copying" =>
       copied = Sample(copied[1]) /\ (copied[1] = Unwritten \/ copied[1] \in 1 .. Published)
  /\ reader \in {"idle", "unlocking"} /\ floor > 0 => floor <= copied[1]
  /\ reader \in {"locking", "copying"} => floor <= Published
  /\ reader = "copying" =>
       from = newest /\ \A j \in 1 .. at_word - 1 : copied[j] = bufs[newest][j]

PortInv == PortTypeOK /\ LockInv /\ PlacesAgree /\ WriterInv /\ NewestInv /\ ReaderInv

(* chan_info tells the truth about the ports of this channel. *)
PortsRegistered ==
  ("src" \in registered => writer # "create") /\ ("sink" \in registered => reader # "create")
-----------------------------------------------------------------------------
(* The entries of the port are told from the others by their kind. *)
LEMMA EntryKinds ==
  /\ Idle.kind = "idle" /\ Entering.kind = "entering" /\ TheNumber.kind = "number"
  /\ \A x : x \in LockEntries => x.kind \in {"entering", "number"}
  /\ "src" \in Ends /\ "sink" \in Ends
  BY DEF Idle, Entering, TheNumber, LockEntries, Ends

(* mp_create_sport at the writer, before its mp_init_ports: the lock is initialised
   while neither end can be inside it. *)
LEMMA WriterCreateKeeps ==
  ASSUME PortInv, PortsRegistered, WriterCreate
  PROVE  PortInv'
<1>1. LockInv'
  BY EntryKinds, InitializeKeeps, EndFacts DEF WriterCreate, PortInv, PlacesAgree, OutOfLock
<1>2. PortTypeOK'
  BY DEF WriterCreate, PortInv, PortTypeOK, readVars
<1>3. PlacesAgree'
  BY DEF WriterCreate, PortInv, PlacesAgree, readVars, initialize_lock
<1>4. WriterInv'
  BY DEF WriterCreate, PortInv, WriterInv
<1>5. NewestInv'
  BY DEF WriterCreate, PortInv, NewestInv, readVars
<1>6. ReaderInv'
  BY DEF WriterCreate, PortInv, WriterInv, ReaderInv, Published, readVars
<1> QED
  BY <1>1, <1>2, <1>3, <1>4, <1>5, <1>6 DEF PortInv

(* mp_create_sport at the reader: newest points in front of the buffers, and no sample
   is published yet. *)
LEMMA ReaderCreateKeeps ==
  ASSUME PortInv, PortsRegistered, ReaderCreate
  PROVE  PortInv'
<1>1. LockInv'
  BY EntryKinds, InitializeKeeps, EndFacts DEF ReaderCreate, PortInv, PlacesAgree, OutOfLock
<1>2. PortTypeOK'
  BY DEF ReaderCreate, PortInv, PortTypeOK, BufIndex, writeVars
<1>3. PlacesAgree'
  BY DEF ReaderCreate, PortInv, PlacesAgree, writeVars, initialize_lock
<1>4. WriterInv'
  BY DEF ReaderCreate, PortInv, WriterInv, writeVars
<1>5. NewestInv'
  BY DEF ReaderCreate, PortInv, PlacesAgree, WriterInv, NewestInv, writeVars
<1>6. ReaderInv'
  BY DEF ReaderCreate, PortInv, PlacesAgree, WriterInv, ReaderInv, Published
<1> QED
  BY <1>1, <1>2, <1>3, <1>4, <1>5, <1>6 DEF PortInv

(* mp_init_ports at the writer returns once the reader is registered. *)
LEMMA WriterInitPortsKeeps ==
  ASSUME PortInv, PortsRegistered, WriterInitPorts
  PROVE  PortInv'
<1>1. LockInv'
  BY OtherTransfersKeep DEF WriterInitPorts, PortInv, LockInv, LockTypeOK
<1>2. PortTypeOK'
  BY DEF WriterInitPorts, PortInv, PortTypeOK, readVars
<1>3. PlacesAgree'
  BY DEF WriterInitPorts, OtherIsRegistered, PortsRegistered, Remote, PortInv, PlacesAgree,
     readVars, lockVars
<1>4. WriterInv'
  BY DEF WriterInitPorts, PortInv, WriterInv
<1>5. NewestInv'
  BY DEF WriterInitPorts, PortInv, PortTypeOK, NewestInv, Unwritten, readVars
<1>6. ReaderInv'
  BY DEF WriterInitPorts, PortInv, ReaderInv, Published, readVars
<1> QED
  BY <1>1, <1>2, <1>3, <1>4, <1>5, <1>6 DEF PortInv

(* mp_init_ports at the reader returns once the writer is registered. *)
LEMMA ReaderInitPortsKeeps ==
  ASSUME PortInv, PortsRegistered, ReaderInitPorts
  PROVE  PortInv'
<1>1. LockInv'
  BY OtherTransfersKeep DEF ReaderInitPorts, PortInv, LockInv, LockTypeOK
<1>2. PortTypeOK'
  BY DEF ReaderInitPorts, PortInv, PortTypeOK, writeVars
<1>3. PlacesAgree'
  BY DEF ReaderInitPorts, OtherIsRegistered, PortsRegistered, Remote, PortInv, PlacesAgree,
     writeVars, lockVars
<1>4. WriterInv'
  BY DEF ReaderInitPorts, PortInv, WriterInv, writeVars
<1>5. NewestInv'
  BY DEF ReaderInitPorts, PortInv, NewestInv, Published, writeVars
<1>6. ReaderInv'
  BY DEF ReaderInitPorts, PortInv, ReaderInv, Published, writeVars
<1> QED
  BY <1>1, <1>2, <1>3, <1>4, <1>5, <1>6 DEF PortInv

(* mp_write starts a transfer to the buffer that newest does not point to. *)
LEMMA SendSampleKeeps ==
  ASSUME PortInv, PortsRegistered, SendSample
  PROVE  PortInv'
<1>1. LockInv'
  BY SampleAssumption, EntryKinds, OtherTransfersKeep, Zenon DEF SendSample, k_noc_dma_write,
     k_noc_dma_done, PortInv, LockInv, LockTypeOK, PlacesAgree, OutOfLock, PortTypeOK, lockVars,
     Idle, LockEntries, Entering, TheNumber
<1>2. PortTypeOK'
  BY SampleAssumption DEF SendSample, PortInv, PortTypeOK, readVars
<1>3. PlacesAgree'
  BY DEF SendSample, PortInv, PlacesAgree, readVars, lockVars
<1>4. WriterInv'
  BY SampleAssumption, EntryKinds
     DEF SendSample, k_noc_dma_write, k_noc_dma_done, PortInv, PortTypeOK, LockInv, LockTypeOK,
         WriterInv, BufIndex, WordIndex, Unwritten, Sample, writeVars, readVars, lockVars
<1>5. NewestInv'
  BY DEF SendSample, PortInv, PlacesAgree, NewestInv, Published
<1>6. ReaderInv'
  BY DEF SendSample, PortInv, PortTypeOK, ReaderInv, Published, readVars
<1> QED
  BY <1>1, <1>2, <1>3, <1>4, <1>5, <1>6 DEF PortInv

(* mp_write calls acquire_lock once the whole sample has arrived. *)
LEMMA SampleIsSentKeeps ==
  ASSUME PortInv, PortsRegistered, SampleIsSent
  PROVE  PortInv'
<1>1. LockInv'
  BY SampleAssumption, EntryKinds, CallKeeps, Zenon DEF SampleIsSent, CallLock, LockAt,
     k_noc_dma_done, PortInv, LockInv, LockTypeOK, PlacesAgree, OutOfLock, PortTypeOK, lockVars,
     Idle, LockEntries, Entering, TheNumber
<1>2. PortTypeOK'
  BY DEF SampleIsSent, PortInv, PortTypeOK, readVars
<1>3. PlacesAgree'
  BY EntryKinds DEF SampleIsSent, CallLock, LockAt, PortInv, LockInv, LockTypeOK, PlacesAgree,
     Acquiring, readVars
<1>4. WriterInv'
  BY EntryKinds DEF SampleIsSent, k_noc_dma_done, PortInv, WriterInv
<1>5. NewestInv'
  BY DEF SampleIsSent, PortInv, PlacesAgree, NewestInv, Published
<1>6. ReaderInv'
  BY DEF SampleIsSent, PortInv, ReaderInv, Published, readVars
<1> QED
  BY <1>1, <1>2, <1>3, <1>4, <1>5, <1>6 DEF PortInv

(* mp_write, inside the lock, sends the index of the sample. *)
LEMMA PublishNewestKeeps ==
  ASSUME PortInv, PortsRegistered, PublishNewest
  PROVE  PortInv'
<1>1. LockInv'
  BY SampleAssumption, EntryKinds, OtherTransfersKeep, Zenon DEF PublishNewest, k_noc_dma_write,
     k_noc_dma_done, PortInv, LockInv, LockTypeOK, PlacesAgree, OutOfLock, PortTypeOK, lockVars,
     Idle, LockEntries, Entering, TheNumber
<1>2. PortTypeOK'
  BY DEF PublishNewest, PortInv, PortTypeOK, readVars
<1>3. PlacesAgree'
  BY DEF PublishNewest, PortInv, PlacesAgree, readVars, lockVars
<1>4. WriterInv'
  BY DEF PublishNewest, k_noc_dma_write, PortInv, WriterInv
<1>5. NewestInv'
  BY EntryKinds DEF PublishNewest, k_noc_dma_write, PortInv, LockInv, LockTypeOK, PlacesAgree,
     NewestInv, Published
<1>6. ReaderInv'
  BY DEF PublishNewest, PortInv, ReaderInv, Published, readVars
<1> QED
  BY <1>1, <1>2, <1>3, <1>4, <1>5, <1>6 DEF PortInv

(* mp_write calls release_lock once the index has arrived. *)
LEMMA NewestIsPublishedKeeps ==
  ASSUME PortInv, PortsRegistered, NewestIsPublished
  PROVE  PortInv'
<1>1. LockInv'
  BY SampleAssumption, EntryKinds, CallKeeps, Zenon DEF NewestIsPublished, CallLock, LockAt,
     k_noc_dma_done, PortInv, LockInv, LockTypeOK, PlacesAgree, OutOfLock, PortTypeOK, lockVars,
     Idle, LockEntries, Entering, TheNumber
<1>2. PortTypeOK'
  BY DEF NewestIsPublished, PortInv, PortTypeOK, readVars
<1>3. PlacesAgree'
  BY EntryKinds DEF NewestIsPublished, CallLock, LockAt, PortInv, LockInv, LockTypeOK,
     PlacesAgree, Releasing, readVars
<1>4. WriterInv'
  BY SampleAssumption, EntryKinds
     DEF NewestIsPublished, CallLock, LockAt, k_noc_dma_done, PortInv, PortTypeOK, LockInv,
         LockTypeOK, WriterInv, BufIndex, WordIndex, Unwritten, Sample, writeVars, readVars,
         lockVars
<1>5. NewestInv'
  BY SampleAssumption, EntryKinds
     DEF NewestIsPublished, CallLock, LockAt, k_noc_dma_done, PortInv, PortTypeOK, LockInv,
         LockTypeOK, PlacesAgree, WriterInv, NewestInv, Published, BufIndex, WordIndex,
         Unwritten, Sample, writeVars, readVars, lockVars
<1>6. ReaderInv'
  BY DEF NewestIsPublished, PortInv, ReaderInv, Published, readVars
<1> QED
  BY <1>1, <1>2, <1>3, <1>4, <1>5, <1>6 DEF PortInv

(* mp_write turns to the other buffer, which newest does not point to. *)
LEMMA ToggleNextKeeps ==
  ASSUME PortInv, PortsRegistered, ToggleNext
  PROVE  PortInv'
<1>1. LockInv'
  BY OtherTransfersKeep DEF ToggleNext, PortInv, LockInv, LockTypeOK
<1>2. PortTypeOK'
  BY DEF ToggleNext, PortInv, PortTypeOK, readVars
<1>3. PlacesAgree'
  BY DEF ToggleNext, PortInv, PlacesAgree, readVars, lockVars
<1>4. WriterInv'
  BY DEF ToggleNext, PortInv, WriterInv
<1>5. NewestInv'
  BY SampleAssumption, EntryKinds
     DEF ToggleNext, PortInv, PortTypeOK, LockInv, LockTypeOK, PlacesAgree, WriterInv,
         NewestInv, Published, BufIndex, WordIndex, Unwritten, Sample, writeVars, readVars,
         lockVars
<1>6. ReaderInv'
  BY DEF ToggleNext, PortInv, PlacesAgree, NewestInv, ReaderInv, Published, readVars
<1> QED
  BY <1>1, <1>2, <1>3, <1>4, <1>5, <1>6 DEF PortInv

(* mp_read is called: what it may return is at least as new as what is published. *)
LEMMA BeginReadKeeps ==
  ASSUME PortInv, PortsRegistered, BeginRead
  PROVE  PortInv'
<1>1. LockInv'
  BY SampleAssumption, EntryKinds, CallKeeps, Zenon DEF BeginRead, CallLock, LockAt, PortInv,
     LockInv, LockTypeOK, PlacesAgree, OutOfLock, PortTypeOK, lockVars, Idle, LockEntries,
     Entering, TheNumber
<1>2. PortTypeOK'
  BY DEF BeginRead, PortInv, PortTypeOK, writeVars
<1>3. PlacesAgree'
  BY EntryKinds
     DEF BeginRead, CallLock, LockAt, PortInv, LockInv, LockTypeOK, PlacesAgree, Acquiring,
         writeVars
<1>4. WriterInv'
  BY DEF BeginRead, PortInv, WriterInv, writeVars
<1>5. NewestInv'
  BY DEF BeginRead, PortInv, NewestInv, Published, writeVars
<1>6. ReaderInv'
  BY DEF BeginRead, PortInv, PortTypeOK, WriterInv, ReaderInv, Published, Unwritten, writeVars
<1> QED
  BY <1>1, <1>2, <1>3, <1>4, <1>5, <1>6 DEF PortInv

(* mp_read, inside the lock, reads newest. *)
LEMMA ReadNewestKeeps ==
  ASSUME PortInv, PortsRegistered, ReadNewest
  PROVE  PortInv'
<1>1. LockInv'
  BY OtherTransfersKeep DEF ReadNewest, PortInv, LockInv, LockTypeOK
<1>2. PortTypeOK'
  BY DEF ReadNewest, PortInv, PortTypeOK, writeVars
<1>3. PlacesAgree'
  BY DEF ReadNewest, PortInv, PlacesAgree, writeVars, lockVars
<1>4. WriterInv'
  BY DEF ReadNewest, PortInv, WriterInv, writeVars
<1>5. NewestInv'
  BY DEF ReadNewest, PortInv, NewestInv, Published, writeVars
<1>6. ReaderInv'
  BY DEF ReadNewest, PortInv, PortTypeOK, ReaderInv, Published, writeVars
<1> QED
  BY <1>1, <1>2, <1>3, <1>4, <1>5, <1>6 DEF PortInv

(* mp_read copies a word; after the last one it has one whole sample, the published one.
   *)
LEMMA CopyWordKeeps ==
  ASSUME PortInv, PortsRegistered, CopyWord
  PROVE  PortInv'
<1>1. LockInv'
  BY EntryKinds, CallKeeps, OtherTransfersKeep DEF CopyWord, CallLock, PortInv, LockInv,
     LockTypeOK
<1>2. PortTypeOK'
  <2>1. copied' \in [WordIndex -> Int]
    BY DEF CopyWord, PortInv, PortTypeOK
  <2>2. at_word' \in WordIndex /\ (reader' # "copying" => at_word' = 1)
    BY SampleAssumption, EntryKinds DEF CopyWord, PortInv, PortTypeOK, WordIndex
  <2>3. from' \in BufIndex /\ reader' \in {"create", "ports", "idle", "locking", "copying", "unlocking"}
    BY DEF CopyWord, PortInv, PortTypeOK, BufIndex
  <2> QED
    BY <2>2, <2>3 DEF CopyWord, PortInv, PortTypeOK, writeVars
<1>3. PlacesAgree'
  BY EntryKinds DEF CopyWord, CallLock, LockAt, PortInv, LockInv, LockTypeOK, PlacesAgree,
     Releasing, writeVars, lockVars
<1>4. WriterInv'
  BY DEF CopyWord, PortInv, WriterInv, writeVars
<1>5. NewestInv'
  BY DEF CopyWord, PortInv, NewestInv, Published, writeVars
<1>6. ReaderInv'
  <2>0. /\ reader = "copying" /\ from = newest /\ at_word \in WordIndex /\ floor <= Published
        /\ copied' = [copied EXCEPT ![at_word] = bufs[newest][at_word]]
        /\ UNCHANGED <<floor, writeVars, bufs, newest>> /\ Published' = Published
        /\ floor \in Nat /\ written \in Nat /\ returned \in Nat /\ Published \in Nat
    BY DEF CopyWord, PortInv, PortTypeOK, ReaderInv, Published, writeVars
  <2>1. \A j \in 1 .. at_word : copied'[j] = bufs[newest][j]
    BY SampleAssumption, EntryKinds, <2>0
       DEF PortInv, PortTypeOK, ReaderInv, WordIndex
  <2>2. CASE at_word < SampleWords
    BY <2>0, <2>1, <2>2 DEF CopyWord, ReaderInv, WordIndex
  <2>3. CASE at_word = SampleWords
    <3>1. /\ reader' = "unlocking" /\ floor' = floor
          /\ copied' \in [WordIndex -> Int] /\ bufs[newest] \in [WordIndex -> Int]
      BY SampleAssumption, <1>2, <2>3 DEF CopyWord, PortTypeOK
    <3>2. copied' = bufs[newest]
      BY SampleAssumption, <2>1, <2>3, <3>1 DEF WordIndex
    <3>3. CASE newest = Unwritten
      <4>1. Published = 0
        BY <2>0, <3>3 DEF PortInv, NewestInv, Published, PortTypeOK, Unwritten
      <4>2. copied' = Sample(Unwritten)
        BY <3>2, <3>3 DEF PortInv, PortTypeOK
      <4>3. copied'[1] = Unwritten
        BY SampleAssumption, <4>2 DEF Sample
      <4>4. floor' = 0
        BY <2>0, <4>1
      <4> QED
        BY <3>1, <4>2, <4>3, <4>4 DEF ReaderInv
    <3>4. CASE newest # Unwritten
      <4>1. bufs[newest] = Sample(Published) /\ Published > 0
        BY <2>0, <3>4 DEF PortInv, NewestInv
      <4>2. copied' = Sample(copied'[1]) /\ copied'[1] = Published
        BY SampleAssumption, <3>2, <4>1 DEF Sample
      <4> QED
        BY <2>0, <3>1, <4>1, <4>2 DEF ReaderInv
    <3> QED
      BY <3>3, <3>4
  <2> QED
    BY SampleAssumption, <2>0, <2>2, <2>3 DEF WordIndex
<1> QED
  BY <1>1, <1>2, <1>3, <1>4, <1>5, <1>6 DEF PortInv

(* mp_read returns. *)
LEMMA EndReadKeeps ==
  ASSUME PortInv, PortsRegistered, EndRead
  PROVE  PortInv'
<1>1. LockInv'
  BY OtherTransfersKeep DEF EndRead, PortInv, LockInv, LockTypeOK
<1>2. PortTypeOK'
  BY DEF EndRead, PortInv, PortTypeOK, writeVars
<1>3. PlacesAgree'
  BY DEF EndRead, PortInv, PlacesAgree, writeVars, lockVars
<1>4. WriterInv'
  BY DEF EndRead, PortInv, WriterInv, writeVars
<1>5. NewestInv'
  BY DEF EndRead, PortInv, NewestInv, Published, writeVars
<1>6. ReaderInv'
  BY DEF EndRead, PortInv, ReaderInv, Published, writeVars
<1> QED
  BY <1>1, <1>2, <1>3, <1>4, <1>5, <1>6 DEF PortInv

(* A word of a sample arrives in the buffer that nobody reads. *)
LEMMA MoveSampleKeeps ==
  ASSUME PortInv, MoveSample
  PROVE  PortInv'
<1>1. LockInv'
  BY SampleAssumption, EntryKinds, OtherTransfersKeep, Zenon DEF MoveSample, PortInv, LockInv,
     LockTypeOK, PlacesAgree, OutOfLock, PortTypeOK, lockVars, Idle, LockEntries, Entering,
     TheNumber
<1>2. PortTypeOK'
  <2>1. bufs' \in [BufIndex -> [WordIndex -> Int]] /\ bufs'[Unwritten] = bufs[Unwritten]
    <3>1. next \in BufIndex /\ next # Unwritten /\ dma["src"].at \in WordIndex /\ written \in Int
      BY DEF MoveSample, PortInv, PortTypeOK, WriterInv, BufIndex, Unwritten
    <3>2. bufs' = [bufs EXCEPT ![next] = [bufs[next] EXCEPT ![dma["src"].at] = written]]
      BY DEF MoveSample
    <3> QED
      BY <3>1, <3>2 DEF PortInv, PortTypeOK
  <2> QED
    BY <2>1 DEF MoveSample, PortInv, PortTypeOK, writeVars, readVars
<1>3. PlacesAgree'
  BY DEF MoveSample, PortInv, PlacesAgree, writeVars, readVars, lockVars
<1>4. WriterInv'
  <2> DEFINE at == dma["src"].at
  <2>0. /\ writer = "sending" /\ at \in WordIndex /\ next \in BufIndex
        /\ dma["src"] = [kind |-> "sample", at |-> at]
        /\ \A j \in 1 .. at - 1 : bufs[next][j] = written
        /\ UNCHANGED <<writer, next, written, returned>>
    BY DEF MoveSample, PortInv, PortTypeOK, WriterInv, BufIndex, writeVars
  <2>1. /\ bufs' = [bufs EXCEPT ![next] = [bufs[next] EXCEPT ![at] = written]]
        /\ dma' = [dma EXCEPT !["src"] = IF at = SampleWords THEN Idle
                                         ELSE [kind |-> "sample", at |-> at + 1]]
    <3>1. [dma["src"] EXCEPT !.at = at + 1] = [kind |-> "sample", at |-> at + 1]
      BY <2>0
    <3> QED
      BY SampleAssumption, EntryKinds, <3>1, Zenon DEF MoveSample
  <2> HIDE DEF at
  <2>2. bufs'[next] \in [WordIndex -> Int] /\ \A j \in 1 .. at : bufs'[next][j] = written
    <3>1. bufs[next] \in [WordIndex -> Int] /\ at \in Nat /\ written \in Int
      BY EntryKinds, <2>0 DEF PortInv, PortTypeOK, WordIndex
    <3>2. bufs'[next] = [bufs[next] EXCEPT ![at] = written]
      BY <2>0, <2>1 DEF PortInv, PortTypeOK
    <3>3. 1 .. at \subseteq WordIndex
      BY SampleAssumption, <2>0 DEF WordIndex
    <3> QED
      BY <2>0, <3>1, <3>2
  <2>3. CASE at = SampleWords
    <3>1. dma'["src"].kind = "idle"
      BY EntryKinds, <2>1, <2>3 DEF PortInv, LockInv, LockTypeOK
    <3>2. bufs'[next] = Sample(written)
      BY SampleAssumption, <2>2, <2>3 DEF Sample, WordIndex
    <3> QED
      BY <2>0, <3>1, <3>2 DEF PortInv, WriterInv
  <2>4. CASE at # SampleWords
    <3>1. dma'["src"] = [kind |-> "sample", at |-> at + 1] /\ at + 1 \in WordIndex
            BY SampleAssumption, EntryKinds, <2>0, <2>1, <2>4 DEF PortInv, LockInv, LockTypeOK,
         WordIndex
    <3> QED
      BY <2>0, <2>2, <3>1 DEF PortInv, WriterInv, WordIndex
  <2> QED
    BY <2>3, <2>4
<1>5. NewestInv'
  <2>1. writer = "sending" /\ UNCHANGED <<writer, reader, next, newest, written, returned>>
    BY DEF MoveSample, PortInv, WriterInv, writeVars, readVars
  <2>2. \A b \in BufIndex : b # next => bufs'[b] = bufs[b]
    BY DEF MoveSample, PortInv, PortTypeOK
  <2>3. newest \in BufIndex /\ NewestInv BY DEF PortInv, PortTypeOK
  <2> QED
    BY <2>1, <2>2, <2>3 DEF NewestInv, Published
<1>6. ReaderInv'
  BY DEF MoveSample, PortInv, WriterInv, NewestInv, ReaderInv, Published, writeVars, readVars
<1> QED
  BY <1>1, <1>2, <1>3, <1>4, <1>5, <1>6 DEF PortInv

(* The index of the sample arrives: the lock keeps the reader from being between newest
   and the last word. *)
LEMMA MoveNewestKeeps ==
  ASSUME PortInv, MoveNewest
  PROVE  PortInv'
<1>1. LockInv'
  BY SampleAssumption, EntryKinds, OtherTransfersKeep, Zenon DEF MoveNewest, PortInv, LockInv,
     LockTypeOK, PlacesAgree, OutOfLock, PortTypeOK, lockVars, Idle, LockEntries, Entering,
     TheNumber
<1>2. PortTypeOK'
  BY DEF MoveNewest, PortInv, PortTypeOK, BufIndex, writeVars, readVars
<1>3. PlacesAgree'
  BY DEF MoveNewest, PortInv, PlacesAgree, writeVars, readVars, lockVars
<1>4. WriterInv'
  BY SampleAssumption, EntryKinds
     DEF MoveNewest, PortInv, PortTypeOK, LockInv, LockTypeOK, WriterInv, BufIndex, WordIndex,
         Unwritten, Sample, writeVars, readVars, lockVars
<1>5. NewestInv'
  <2>1. /\ writer = "publishing" /\ newest' = next /\ dma'["src"] = Idle
        /\ UNCHANGED <<writer, reader, next, bufs, written, returned>>
    BY EntryKinds DEF MoveNewest, PortInv, LockInv, LockTypeOK, WriterInv, writeVars, readVars
  <2>2. bufs[next] = Sample(written) /\ written > 0 /\ next # Unwritten /\ Idle.kind = "idle"
    BY <2>1, EntryKinds DEF PortInv, PortTypeOK, WriterInv, Unwritten
  <2> QED
    BY <2>1, <2>2 DEF NewestInv, Published
<1>6. ReaderInv'
  <2>1. reader # "copying" /\ reader # "create"
    BY LockInvExcludes DEF MoveNewest, PortInv, PlacesAgree, WriterInv, MutualExclusion
  <2>2. Published' = written /\ Published = returned /\ written = returned + 1
    BY <2>1 DEF MoveNewest, PortInv, WriterInv, NewestInv, Published, writeVars
  <2> QED
    BY <2>1, <2>2 DEF MoveNewest, PortInv, PortTypeOK, ReaderInv, readVars
<1> QED
  BY <1>1, <1>2, <1>3, <1>4, <1>5, <1>6 DEF PortInv

-----------------------------------------------------------------------------
(* A step of acquire_lock or release_lock of either end, beside the places of the port. *)
LEMMA LockStepKeepsPort ==
  ASSUME PortInv, NEW e \in Ends, LockStep(e), OutsideLock
  PROVE  PortInv'
<1>1. LockInv'
  BY LockStepKeeps DEF PortInv
<1>2. PortTypeOK'
  BY DEF OutsideLock, PortInv, PortTypeOK, writeVars, readVars
<1>3. /\ lpc[e] \in Acquiring \ {"cs"} => lpc'[e] \in Acquiring
      /\ lpc[e] \in {"leave", "gone"} => lpc'[e] \in Releasing
      /\ lpc[e] \notin {"out", "cs"}
      /\ \A x \in Ends : x # e => lpc'[x] = lpc[x] /\ dma'[x] = dma[x]
      /\ dma'[e] = dma[e] \/ (dma[e] = Idle /\ dma'[e] \in LockEntries)
  <2> USE DEF PortInv, LockInv, LockTypeOK, LockAt, Acquiring, Releasing, LockEntries,
              k_noc_dma_write, k_noc_dma_done
  <2>1. CASE ShowEntering(e)
    BY <2>1 DEF ShowEntering
  <2>2. CASE TakeNumber(e)
    BY <2>2 DEF TakeNumber
  <2>3. CASE ShowEntered(e)
    BY <2>3 DEF ShowEntered
  <2>4. CASE AwaitEntered(e)
    BY <2>4 DEF AwaitEntered
  <2>5. CASE AwaitTurn(e)
    BY <2>5 DEF AwaitTurn
  <2>6. CASE DropNumber(e)
    BY <2>6 DEF DropNumber
  <2>7. CASE AwaitDropped(e)
    BY <2>7 DEF AwaitDropped
  <2> QED
    BY <2>1, <2>2, <2>3, <2>4, <2>5, <2>6, <2>7 DEF LockStep
<1>4. PlacesAgree'
  BY <1>3, EntryKinds DEF OutsideLock, PortInv, PlacesAgree, Releasing, writeVars, readVars
<1>5. /\ dma'["src"].kind = "sample" <=> dma["src"].kind = "sample"
      /\ dma'["src"].kind = "newest" <=> dma["src"].kind = "newest"
      /\ dma'["src"].kind \in {"sample", "newest"} => dma'["src"] = dma["src"]
  BY <1>3, EntryKinds
<1>6. WriterInv'
  BY <1>5 DEF OutsideLock, PortInv, WriterInv, writeVars
<1>7. NewestInv' /\ ReaderInv'
  BY <1>5
     DEF OutsideLock, PortInv, NewestInv, ReaderInv, Published, writeVars, readVars
<1> QED
  BY <1>1, <1>2, <1>4, <1>6, <1>7 DEF PortInv

(* Transfers come and go that are not the port's own: variables of the lock arrive, and
   other channels use the DMA entries. *)
LEMMA OtherEntriesKeepPort ==
  ASSUME PortInv, LockInv', lpc' = lpc, UNCHANGED <<writeVars, readVars, bufs, newest>>,
         dma'["src"] = dma["src"]
           \/ (dma["src"].kind \notin {"sample", "newest"} /\ dma'["src"].kind \notin {"sample", "newest"})
  PROVE  PortInv'
<1>1. /\ dma'["src"].kind = "sample" <=> dma["src"].kind = "sample"
      /\ dma'["src"].kind = "newest" <=> dma["src"].kind = "newest"
      /\ dma'["src"].kind \in {"sample", "newest"} => dma'["src"] = dma["src"]
  OBVIOUS
<1>2. PortTypeOK' /\ PlacesAgree'
  BY DEF PortInv, PortTypeOK, PlacesAgree, writeVars, readVars
<1>3. WriterInv'
  BY DEF PortInv, WriterInv, writeVars
<1>4. NewestInv' /\ ReaderInv'
  BY DEF PortInv, NewestInv, ReaderInv, Published, writeVars, readVars
<1> QED
  BY <1>2, <1>3, <1>4 DEF PortInv

(* A variable of the lock arrives at the other end. *)
LEMMA MoveLockKeepsPort ==
  ASSUME PortInv, NEW e \in Ends, MoveLock(e), OutsideLock
  PROVE  PortInv'
<1>1. LockInv'
  BY MoveLockKeeps DEF PortInv
<1>2. dma'["src"] = dma["src"]
        \/ (dma["src"].kind \notin {"sample", "newest"} /\ dma'["src"].kind \notin {"sample", "newest"})
  BY EntryKinds DEF MoveLock
<1> QED
  BY <1>1, <1>2, OtherEntriesKeepPort DEF MoveLock, OutsideLock

(* After power-up. *)
LEMMA PortStarts == PortInit /\ dma = [e \in Ends |-> Idle] => PortInv
<1> SUFFICES ASSUME PortInit, dma = [e \in Ends |-> Idle]
             PROVE  PortInv
  OBVIOUS
<1>1. LockInv
  BY LockStarts DEF PortInit
<1>2. copied[1] = Unwritten /\ copied = Sample(Unwritten) /\ copied \in [WordIndex -> Int]
  BY SampleAssumption DEF PortInit, Sample, Unwritten, WordIndex
<1>3. PortTypeOK
  BY <1>2, SampleAssumption DEF PortInit, PortTypeOK, BufIndex, WordIndex
<1>4. PlacesAgree /\ WriterInv /\ NewestInv
  BY EntryKinds DEF PortInit, LockInit, PlacesAgree, WriterInv, NewestInv
<1>5. ReaderInv
  BY <1>2 DEF PortInit, ReaderInv
<1> QED
  BY <1>1, <1>3, <1>4, <1>5 DEF PortInv

(* Neither end is inside mp_write or mp_read. *)
PortQuiet == writer \in {"create", "ports", "idle"} /\ reader \in {"create", "ports", "idle"}

(* A new program finds the lock free, whatever the last one left in the buffers. *)
LEMMA NewPortKeeps ==
  ASSUME PortInv, PortQuiet, NewPort, dma' = [e \in Ends |-> Idle]
  PROVE  PortInv'
<1>1. LockInv'
  <2>1. \A e \in Ends : dma[e] \notin LockEntries
    BY OutIsClean DEF PortInv, PlacesAgree, PortQuiet, Ends
  <2> QED
    BY <2>1, OtherTransfersKeep, EntryKinds DEF PortInv, NewPort
<1>2. copied'[1] = Unwritten /\ copied' = Sample(Unwritten) /\ copied' \in [WordIndex -> Int]
  BY SampleAssumption DEF NewPort, Sample, Unwritten, WordIndex
<1>3. PortTypeOK'
  BY <1>2, SampleAssumption DEF NewPort, PortQuiet, PortInv, PortTypeOK
<1>4. PlacesAgree' /\ WriterInv' /\ NewestInv'
  BY EntryKinds DEF NewPort, PortQuiet, PortInv, PlacesAgree, WriterInv, NewestInv, lockVars
<1>5. ReaderInv'
  BY <1>2 DEF NewPort, ReaderInv
<1> QED
  BY <1>1, <1>3, <1>4, <1>5 DEF PortInv

(* Every step of either end keeps the invariant, and chan_info true. *)
LEMMA PortStepKeeps ==
  ASSUME PortInv, PortsRegistered, Writer \/ Reader
  PROVE  PortInv' /\ PortsRegistered'
<1>1. PortInv'
  BY WriterCreateKeeps, ReaderCreateKeeps, WriterInitPortsKeeps, ReaderInitPortsKeeps,
     SendSampleKeeps, SampleIsSentKeeps, PublishNewestKeeps, NewestIsPublishedKeeps,
     ToggleNextKeeps, BeginReadKeeps, ReadNewestKeeps, CopyWordKeeps, EndReadKeeps DEF Writer,
     Reader, mp_write, mp_read
<1>2. PortsRegistered'
  BY DEF PortsRegistered, Writer, Reader, mp_write, mp_read, WriterCreate, ReaderCreate,
     WriterInitPorts, ReaderInitPorts, SendSample, SampleIsSent, PublishNewest,
     NewestIsPublished, ToggleNext, BeginRead, ReadNewest, CopyWord, EndRead, Register,
     writeVars, readVars
<1> QED
  BY <1>1, <1>2

(* So does every step of the network interfaces. *)
LEMMA PortNetworkKeeps ==
  ASSUME PortInv, NEW e \in Ends, PortNetwork(e)
  PROVE  PortInv'
  BY MoveSampleKeeps, MoveNewestKeeps, MoveLockKeepsPort DEF PortNetwork

(* The kinds of the transfers of a sampling channel. *)
PortKinds == {"sample", "newest", "entering", "number"}

(* What a queuing channel does with the DMA entries is nothing to a sampling channel. *)
LEMMA QueueKeepsPort ==
  ASSUME PortInv, UNCHANGED portVars, dma' = [e \in Ends |-> dma'[e]],
         \A e \in Ends : \/ dma'[e] = dma[e]
                         \/ dma[e].kind \notin PortKinds /\ dma'[e].kind \notin PortKinds
  PROVE  PortInv'
<1>1. UNCHANGED <<lockVars, lpc, writeVars, readVars, bufs, newest>>
  BY DEF portVars, lockVars
<1>2. LockInv'
  BY <1>1, EntryKinds, OtherTransfersKeep DEF PortInv, PortKinds
<1> QED
  BY <1>1, <1>2, EntryKinds, OtherEntriesKeepPort DEF PortKinds

(* The steps of a sampling channel touch no transfer of a queuing one. *)
LEMMA PortEntries ==
  ASSUME PortInv, NEW e \in Ends, Writer \/ Reader \/ LockStep(e) \/ PortNetwork(e)
  PROVE  /\ dma' = [x \in Ends |-> dma'[x]]
         /\ dma'["src"] = dma["src"] \/ (dma["src"].kind # "data" /\ dma'["src"].kind # "data")
<1>0. dma = [x \in Ends |-> dma[x]]
  BY DEF PortInv, LockInv, LockTypeOK
<1>1. CASE Writer \/ Reader
  <2>1. CASE SendSample \/ PublishNewest
    <3>1. PICK entry \in {[kind |-> "sample", at |-> 1], [kind |-> "newest"]} :
            dma["src"] = Idle /\ dma' = [dma EXCEPT !["src"] = entry]
      BY <2>1, Zenon DEF SendSample, PublishNewest, k_noc_dma_write, k_noc_dma_done
    <3>2. entry.kind # "data"
      OBVIOUS
    <3>3. dma' = [x \in Ends |-> dma'[x]] /\ dma'["src"] = entry
      BY <1>0, <3>1, EntryKinds
    <3> QED
      BY <3>1, <3>2, <3>3, EntryKinds
  <2>3. CASE ~SendSample /\ ~PublishNewest
    <3>1. UNCHANGED dma
      BY <1>1, <2>3, Zenon
         DEF Writer, Reader, mp_write, mp_read, WriterCreate, ReaderCreate, WriterInitPorts,
             ReaderInitPorts, SampleIsSent, NewestIsPublished, ToggleNext, BeginRead,
             ReadNewest, CopyWord, EndRead, k_noc_dma_done
    <3> QED
      BY <1>0, <3>1
  <2> QED
    BY <2>1, <2>3
<1>2. CASE LockStep(e)
  BY <1>0, <1>2, EntryKinds DEF LockStep, ShowEntering, TakeNumber, ShowEntered, AwaitEntered,
     AwaitTurn, DropNumber, AwaitDropped, k_noc_dma_write, k_noc_dma_done
<1>3. CASE PortNetwork(e)
  <2>1. CASE MoveSample
    <3>1. [dma["src"] EXCEPT !.at = dma["src"].at + 1].kind = dma["src"].kind
      BY <2>1 DEF MoveSample, PortInv, WriterInv
    <3> QED
      BY <1>0, <2>1, <3>1, EntryKinds DEF MoveSample
  <2>2. CASE MoveNewest
    BY <1>0, <2>2, EntryKinds DEF MoveNewest
  <2>3. CASE MoveLock(e)
    BY <1>0, <2>3, EntryKinds DEF MoveLock
  <2> QED
    BY <1>3, <2>1, <2>2, <2>3 DEF PortNetwork
<1> QED
  BY <1>1, <1>2, <1>3

(* When every sample is written, mp_write is not under way. *)
LEMMA AllWrittenIsQuiet ==
  ASSUME PortInv, returned = MaxSamples
  PROVE  writer \in {"create", "ports", "idle"}
  BY DEF PortInv, PortTypeOK, WriterInv

(* What mp_read has copied is one sample, and fresh enough. *)
LEMMA PortInvIsFresh == PortInv => ReadsOneFreshSample
<1> SUFFICES ASSUME PortInv, reader = "idle", floor > 0
             PROVE  \E k \in floor .. written : copied = Sample(k)
  BY DEF ReadsOneFreshSample
<1>1. copied = Sample(copied[1]) /\ floor <= copied[1] /\ copied[1] \in 1 .. Published
  BY DEF PortInv, PortTypeOK, ReaderInv, Unwritten
<1>2. Published <= written
  BY DEF PortInv, PortTypeOK, WriterInv, Published
<1> QED
  BY <1>1, <1>2 DEF PortInv, PortTypeOK, Published
=============================================================================
