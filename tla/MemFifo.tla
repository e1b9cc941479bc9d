------------------------------ MODULE MemFifo ------------------------------
(* The FIFO between the circular buffer and the processor (class MemFifo): a
   synchronous memory with a read and a write pointer, flags that tell a full
   ring from an empty one, and a shadow register that holds the word on offer
   while the consumer is not ready.  One step of the module is one rising clock
   edge; its inputs are the values of the ports during the cycle before it. *)
EXTENDS Integers, Sequences

CONSTANTS Word,   \* the values of a data word
          Depth   \* number of words of the memory

ASSUME DepthAssumption == Depth \in Nat /\ Depth >= 2

VARIABLES mem,        \* the synchronous memory
          data,       \* the output register of its read port
          readPtr,
          writePtr,
          emptyReg,
          fullReg,
          stateReg,   \* "idle", "valid" (word in data), "full" (word in shadowReg)
          shadowReg

vars == <<mem, data, readPtr, writePtr, emptyReg, fullReg, stateReg, shadowReg>>

Slot == 0 .. Depth - 1

TypeOK ==
  /\ mem \in [Slot -> Word]
  /\ data \in Word
  /\ readPtr \in Slot
  /\ writePtr \in Slot
  /\ emptyReg \in BOOLEAN
  /\ fullReg \in BOOLEAN
  /\ stateReg \in {"idle", "valid", "full"}
  /\ shadowReg \in Word

(* The registers with a reset value have it; the memory, its output register
   and the shadow register come up with anything. *)
Init ==
  /\ mem \in [Slot -> Word]
  /\ data \in Word
  /\ readPtr = 0
  /\ writePtr = 0
  /\ emptyReg = TRUE
  /\ fullReg = FALSE
  /\ stateReg = "idle"
  /\ shadowReg \in Word

-----------------------------------------------------------------------------
(* Outputs. *)

deq_valid == stateReg \in {"valid", "full"}

deq_bits == IF stateReg = "valid" THEN data ELSE shadowReg

enq_ready(writeToFIFO) == ~fullReg /\ writeToFIFO

-----------------------------------------------------------------------------
(* The clock edge. *)

(* Mutant: the pointer does not wrap. *)
nextValNoWrap(cntReg) == cntReg + 1

nextVal(cntReg) == IF cntReg = Depth - 1 THEN 0 ELSE cntReg + 1

(* Mutant: the full ring is written to. *)
WritesWhenFull(enq_valid) == enq_valid

(* A word is written when the producer offers one and the ring is not full.
   The code tests fullReg here and not enq.ready. *)
Writes(enq_valid) == enq_valid /\ ~fullReg

WritePort(enq_valid, enq_bits) ==
  IF Writes(enq_valid)
  THEN /\ mem' = [mem EXCEPT ![writePtr] = enq_bits]
       /\ writePtr' = nextVal(writePtr)
  ELSE UNCHANGED <<mem, writePtr>>

(* A synchronous read of a word that is being written at the same edge returns
   an undefined value. *)
ReadPort(enq_valid) ==
  data' \in IF Writes(enq_valid) /\ writePtr = readPtr THEN Word ELSE {mem[readPtr]}

(* Mutant: a fetch does not clear fullReg. *)
FetchStaysFull ==
  /\ stateReg' = "valid"
  /\ readPtr' = nextVal(readPtr)
  /\ fullReg' = fullReg
  /\ emptyReg' = (nextVal(readPtr) = writePtr)

(* The word at readPtr moves to the output.  These assignments come after the
   ones of the write and override them. *)
Fetch ==
  /\ stateReg' = "valid"
  /\ readPtr' = nextVal(readPtr)
  /\ fullReg' = FALSE
  /\ emptyReg' = (nextVal(readPtr) = writePtr)

(* Mutant: a write does not clear emptyReg. *)
NoFetchStaysEmpty(enq_valid) ==
  /\ emptyReg' = emptyReg
  /\ fullReg' = IF Writes(enq_valid) THEN nextVal(writePtr) = readPtr ELSE fullReg
  /\ UNCHANGED readPtr

(* The flags as a write alone leaves them. *)
NoFetch(enq_valid) ==
  /\ emptyReg' = (emptyReg /\ ~Writes(enq_valid))
  /\ fullReg' = IF Writes(enq_valid) THEN nextVal(writePtr) = readPtr ELSE fullReg
  /\ UNCHANGED readPtr

(* Mutant: an empty ring is fetched from. *)
RefillFromEmpty(enq_valid) == Fetch

(* The word on offer was taken: fetch the next one or go idle. *)
Refill(enq_valid) ==
  \/ ~emptyReg /\ Fetch
  \/ emptyReg /\ NoFetch(enq_valid) /\ stateReg' = "idle"

StateIdle(enq_valid) ==
  /\ stateReg = "idle"
  /\ Refill(enq_valid)
  /\ UNCHANGED shadowReg

(* Mutant: the shadow register is not loaded. *)
StateValidNoShadow(enq_valid, deq_ready) ==
  /\ stateReg = "valid"
  /\ \/ deq_ready /\ Refill(enq_valid) /\ UNCHANGED shadowReg
     \/ ~deq_ready /\ NoFetch(enq_valid) /\ stateReg' = "full" /\ UNCHANGED shadowReg

StateValid(enq_valid, deq_ready) ==
  /\ stateReg = "valid"
  /\ \/ deq_ready /\ Refill(enq_valid) /\ UNCHANGED shadowReg
     \/ ~deq_ready /\ NoFetch(enq_valid) /\ stateReg' = "full" /\ shadowReg' = data

StateFull(enq_valid, deq_ready) ==
  /\ stateReg = "full"
  /\ \/ deq_ready /\ Refill(enq_valid)
     \/ ~deq_ready /\ NoFetch(enq_valid) /\ UNCHANGED stateReg
  /\ UNCHANGED shadowReg

Clock(enq_valid, enq_bits, deq_ready) ==
  /\ \/ StateIdle(enq_valid)
     \/ StateValid(enq_valid, deq_ready)
     \/ StateFull(enq_valid, deq_ready)
  /\ WritePort(enq_valid, enq_bits)
  /\ ReadPort(enq_valid)

(* The producer may offer any word in any cycle and the consumer may be ready in
   any cycle. *)
Next ==
  \E enq_valid, deq_ready \in BOOLEAN, enq_bits \in Word :
     Clock(enq_valid, enq_bits, deq_ready)

Spec == Init /\ [][Next]_vars

(* The clock never stops. *)
FairSpec == Spec /\ WF_vars(Next)

-----------------------------------------------------------------------------
(* What the FIFO holds: the word on offer, then the words of the ring. *)

Count ==
  IF fullReg THEN Depth
  ELSE IF writePtr >= readPtr THEN writePtr - readPtr
  ELSE writePtr - readPtr + Depth

SlotAt(i) == IF readPtr + i < Depth THEN readPtr + i ELSE readPtr + i - Depth

Offered == IF deq_valid THEN 1 ELSE 0

Contents ==
  [i \in 1 .. Offered + Count |->
     IF i <= Offered THEN deq_bits ELSE mem[SlotAt(i - Offered - 1)]]

Abstract == INSTANCE BoundedFifo WITH queue <- Contents, Capacity <- Depth + 1

(* The ring with its shadow register is a bounded queue: whatever the producer
   and the consumer do, no word is lost, repeated, reordered or invented, and at
   most Depth + 1 words are held (lines 38-90: the pointers, the flags and the
   three states together). *)
IsBoundedFifo == Abstract!Spec

(* How the two flags describe the ring.  fullReg is exact.  emptyReg is set
   whenever the ring is empty, but it may also be set while one word is in it:
   line 53 (62, 78) compares with the old writePtr and overrides line 40, so a
   word written in the cycle that fetches the last one is not seen. *)
FlagsDescribeRing ==
  /\ fullReg => writePtr = readPtr /\ ~emptyReg
  /\ writePtr = readPtr => fullReg \/ emptyReg
  /\ emptyReg => Count <= 1

(* A word is never fetched at the edge at which its slot is written, so the
   undefined result of such a read (line 45 against line 39) is never offered. *)
FetchIsDefined ==
  [][~(readPtr' # readPtr /\ writePtr' # writePtr /\ writePtr = readPtr)]_vars

(* A word on offer stays on offer, unchanged, until the consumer is ready: the
   shadow register takes over from the memory's output register (lines 65-70,
   88). *)
OfferIsStable ==
  [][deq_valid /\ (\E v \in BOOLEAN, w \in Word : Clock(v, w, FALSE))
       => deq_valid' /\ deq_bits' = deq_bits]_vars

(* When two or more words are held, one is soon on offer, whatever the producer
   does.  (A single word may wait in the ring for the next write, see
   FlagsDescribeRing.) *)
TwoWordsAreOffered == Len(Contents) >= 2 ~> deq_valid
=============================================================================
