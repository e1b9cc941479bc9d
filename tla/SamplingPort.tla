---------------------------- MODULE SamplingPort ----------------------------
(* A sampling channel of libmp as it is built by default (IMPL is DOUBLE_NOC): mp_write
   sends a sample to one of two buffers at the reader and then, under the lock, the
   index of the newest one; mp_read copies the newest sample under the lock.  Samples
   move word by word while the cores run. *)
EXTENDS NocLock

CONSTANTS SampleWords,
          MaxSamples       \* bound: how many samples are written

ASSUME SampleAssumption == SampleWords \in Nat \ {0} /\ MaxSamples \in Nat

VARIABLES writer, reader,  \* places in mp_write and mp_read
          bufs, newest,    \* at the reader: read_bufs, with the memory in front of it; newest
          next,            \* at the writer
          copied,          \* mp_read: the words of its argument
          at_word, from,   \* mp_read: the word it is at, newest as it was read
          written, returned,     \* history: samples begun, samples whose mp_write returned
          floor                  \* history: the oldest sample mp_read may deliver

writeVars == <<writer, next, written, returned>>
readVars == <<reader, copied, at_word, from, floor>>
portVars == <<lockVars, writeVars, readVars, bufs, newest>>

Unwritten == -1       \* also newest before the first sample
Sample(k) == [j \in 1 .. SampleWords |-> k]

PortInit ==
  /\ LockInit
  /\ writer = "create" /\ next = 0 /\ written = 0 /\ returned = 0
  /\ reader = "create" /\ copied = Sample(Unwritten) /\ at_word = 1 /\ from = 0 /\ floor = 0
  /\ bufs = [b \in {Unwritten, 0, 1} |-> Sample(Unwritten)] /\ newest = Unwritten

(* A new program: no port yet. *)
NewPort ==
  /\ writer' = "create" /\ written' = 0 /\ returned' = 0
  /\ reader' = "create" /\ copied' = Sample(Unwritten) /\ floor' = 0
  /\ UNCHANGED <<lockVars, next, at_word, from, bufs, newest>>

-----------------------------------------------------------------------------
(* mp_create_sport and mp_init_ports. *)

WriterCreate ==
  /\ writer = "create" /\ initialize_lock("src") /\ Register("src")
  /\ writer' = "ports" /\ next' = 0
  /\ UNCHANGED <<written, returned, readVars, bufs, newest, dma>>

ReaderCreate ==
  /\ reader = "create" /\ initialize_lock("sink") /\ Register("sink")
  /\ reader' = "ports" /\ newest' = Unwritten
  /\ UNCHANGED <<copied, at_word, from, floor, writeVars, bufs, dma>>

WriterInitPorts ==
  /\ writer = "ports" /\ OtherIsRegistered("src")
  /\ writer' = "idle"
  /\ UNCHANGED <<lockVars, next, written, returned, readVars, bufs, newest, registered, dma>>

ReaderInitPorts ==
  /\ reader = "ports" /\ OtherIsRegistered("sink")
  /\ reader' = "idle"
  /\ UNCHANGED <<lockVars, copied, at_word, from, floor, writeVars, bufs, newest, registered, dma>>

CallLock(e, from_, to) ==
  LockAt(e, from_, to) /\ UNCHANGED <<local_entering, local_number, remote_entering, remote_number>>

-----------------------------------------------------------------------------
(* mp_write *)

SendSample ==
  /\ writer = "idle" /\ written < MaxSamples
  /\ writer' = "sending" /\ written' = written + 1
  /\ k_noc_dma_write("src", [kind |-> "sample", at |-> 1])
  /\ UNCHANGED <<lockVars, next, returned, readVars, bufs, newest, registered>>

SampleIsSent ==
  /\ writer = "sending" /\ k_noc_dma_done("src")
  /\ writer' = "locking" /\ CallLock("src", "out", "enter")
  /\ UNCHANGED <<next, written, returned, readVars, bufs, newest, registered, dma>>

PublishNewest ==
  /\ writer = "locking" /\ lpc["src"] = "cs"
  /\ writer' = "publishing" /\ k_noc_dma_write("src", [kind |-> "newest"])
  /\ UNCHANGED <<lockVars, next, written, returned, readVars, bufs, newest, registered>>

NewestIsPublished ==
  /\ writer = "publishing" /\ k_noc_dma_done("src")
  /\ writer' = "unlocking" /\ CallLock("src", "cs", "leave")
  /\ UNCHANGED <<next, written, returned, readVars, bufs, newest, registered, dma>>

(* Mutant: the next sample goes to the same buffer. *)
KeepNext ==
  /\ writer = "unlocking" /\ lpc["src"] = "out"
  /\ writer' = "idle" /\ returned' = written
  /\ UNCHANGED <<lockVars, next, written, readVars, bufs, newest, registered, dma>>

ToggleNext ==
  /\ writer = "unlocking" /\ lpc["src"] = "out"
  /\ writer' = "idle" /\ returned' = written
  /\ next' = 1 - next
  /\ UNCHANGED <<lockVars, written, readVars, bufs, newest, registered, dma>>

mp_write ==
  \/ SendSample \/ SampleIsSent \/ PublishNewest \/ NewestIsPublished \/ ToggleNext

-----------------------------------------------------------------------------
(* mp_read *)

BeginRead ==
  /\ reader = "idle"
  /\ reader' = "locking" /\ CallLock("sink", "out", "enter")
  /\ floor' = IF copied[1] > returned THEN copied[1] ELSE returned
  /\ UNCHANGED <<copied, at_word, from, writeVars, bufs, newest, registered, dma>>

ReadNewest ==
  /\ reader = "locking" /\ lpc["sink"] = "cs"
  /\ reader' = "copying" /\ from' = newest
  /\ UNCHANGED <<lockVars, copied, at_word, floor, writeVars, bufs, newest, registered, dma>>

(* mem_copy, and the call of release_lock behind it. *)
CopyWord ==
  /\ reader = "copying"
  /\ copied' = [copied EXCEPT ![at_word] = bufs[from][at_word]]
  /\ IF at_word < SampleWords
     THEN at_word' = at_word + 1 /\ UNCHANGED <<from, reader, lockVars>>
     ELSE at_word' = 1 /\ from' = 0 /\ reader' = "unlocking" /\ CallLock("sink", "cs", "leave")
  /\ UNCHANGED <<floor, writeVars, bufs, newest, registered, dma>>

EndRead ==
  /\ reader = "unlocking" /\ lpc["sink"] = "out"
  /\ reader' = "idle"
  /\ UNCHANGED <<lockVars, copied, at_word, from, floor, writeVars, bufs, newest, registered, dma>>

mp_read ==
  \/ BeginRead \/ ReadNewest \/ CopyWord \/ EndRead

Writer == WriterCreate \/ WriterInitPorts \/ mp_write
Reader == ReaderCreate \/ ReaderInitPorts \/ mp_read

-----------------------------------------------------------------------------
(* The network interface of the writer delivers a word, last the one that frees the entry. *)
MoveSample ==
  /\ dma["src"].kind = "sample"
  /\ LET j == dma["src"].at
     IN  /\ bufs' = [bufs EXCEPT ![next][j] = written]
         /\ dma' = [dma EXCEPT !["src"] = IF j = SampleWords THEN Idle ELSE [@ EXCEPT !.at = j + 1]]
  /\ UNCHANGED <<lockVars, writeVars, readVars, newest, registered>>

MoveNewest ==
  /\ dma["src"].kind = "newest"
  /\ newest' = next
  /\ dma' = [dma EXCEPT !["src"] = Idle]
  /\ UNCHANGED <<lockVars, writeVars, readVars, bufs, registered>>

(* What a step of the lock leaves alone. *)
OutsideLock == UNCHANGED <<writeVars, readVars, bufs, newest, registered>>

PortNetwork(e) == (e = "src" /\ (MoveSample \/ MoveNewest)) \/ (MoveLock(e) /\ OutsideLock)

(* What mp_read returns once a sample was written is one whole sample ("a sampled value",
   mp.h), not words of two nor memory no sample was written to, and no older than the
   samples whose mp_write had returned before the call or that an earlier call returned.
   A call before the first mp_write has returned may still read what lies in front of
   the buffers. *)
ReadsOneFreshSample ==
  reader = "idle" /\ floor > 0 => \E k \in floor .. written : copied = Sample(k)
=============================================================================
