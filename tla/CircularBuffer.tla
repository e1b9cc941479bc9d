--------------------------- MODULE CircularBuffer ---------------------------
(* The circular buffer between the filter and the FIFO (class CircularBuffer).
   head points one past the slot that is kept free for the header of the frame
   being written, so a frame that began at head h has its header at h - 1.  When
   the filter adds the header, the buffer learns how many words to hand on.

   Inputs of a cycle: bus, the filter_bus bundle; deq_ready, from the FIFO. *)
EXTENDS Words

CONSTANT Size   \* actualDepth, the power of two that the code rounds the depth up to

ASSUME SizeAssumption == Size \in Nat /\ Size >= 4

VARIABLES mem,
          head,
          tail,
          readFrom,    \* a frame is being handed on
          readValue,   \* its number of beats, less one
          counter      \* how many of its words were handed on

bufferVars == <<mem, head, tail, readFrom, readValue, counter>>

BufferTypeOK ==
  /\ DOMAIN mem = 0 .. Size - 1
  /\ head \in 0 .. Size - 1
  /\ tail \in 0 .. Size - 1
  /\ readFrom \in BOOLEAN
  /\ readValue \in 0 .. 2 ^ 15
  /\ counter \in 0 .. Size - 1

BufferInit ==
  /\ mem = [s \in 0 .. Size - 1 |-> Undefined]
  /\ head = 1
  /\ tail = 0
  /\ readFrom = FALSE
  /\ readValue = 0
  /\ counter = 0

-----------------------------------------------------------------------------
(* Conditions and outputs of a cycle.  Addresses are as wide as log2(Size). *)

(* Words of data that a count of v bytes stands for. *)
ToWords(v) == (v + 1) \div BytesPerWord

(* Mutant: the subtraction is wider than the pointer. *)
FlushNoWrap(bus) ==
  IF bus.flushFrame THEN head - (ToWords(bus.tdata.val) + 1) ELSE head

(* Mutant: the last word of a flushed frame stays. *)
FlushKeepsWord(bus) ==
  IF bus.flushFrame THEN (head - ToWords(bus.tdata.val)) % Size ELSE head

(* Where a frame began that is to be flushed: the unwanted words are counted by
   the bytes before the last beat, which was written as well. *)
Flush(bus) ==
  IF bus.flushFrame THEN (head - (ToWords(bus.tdata.val) + 1)) % Size ELSE head

(* The slot to write to; the header goes to the slot before its frame. *)
Address(bus) ==
  IF bus.addHeader THEN (head - (ToWords(bus.tdata.val) + 2)) % Size ELSE Flush(bus)

bufferLength == (head - 1 - tail) % Size

bufferEmpty == bufferLength = 0

bufferFull == bufferLength >= Size - 1

Writes(bus) == bus.valid /\ ~bufferFull

Reads(deq_ready) == deq_ready /\ ~bufferEmpty /\ readFrom

(* Mutant: the header is not counted. *)
LastWordEarly == counter = readValue /\ readValue # 0

LastWord == counter = readValue + 1 /\ readValue # 0

frameRecieving(deq_ready) == Reads(deq_ready) /\ ~LastWord

deq_valid(deq_ready) == deq_ready /\ readFrom

deq_bits(deq_ready) == IF Reads(deq_ready) THEN mem[tail] ELSE Number(0)

-----------------------------------------------------------------------------
(* The clock edge. *)

WriteSide(bus) ==
  /\ mem' = IF Writes(bus) THEN [mem EXCEPT ![Address(bus)] = bus.tdata] ELSE mem
  /\ head' = IF bus.flushFrame THEN Flush(bus)
             ELSE IF Writes(bus) THEN (head + 1) % Size
             ELSE head

(* Mutant: the count of the words handed on is kept. *)
EndReadKeepsCounter(deq_ready) ==
  /\ Reads(deq_ready) /\ LastWord
  /\ tail' = (tail + 1) % Size
  /\ readFrom' = FALSE
  /\ readValue' = 0
  /\ UNCHANGED counter

(* The last word of a frame is handed on; this overrides a header that arrives
   in the same cycle. *)
EndRead(deq_ready) ==
  /\ Reads(deq_ready) /\ LastWord
  /\ tail' = (tail + 1) % Size
  /\ readFrom' = FALSE
  /\ readValue' = 0
  /\ counter' = 0

(* Any other cycle: a header starts the reading of a frame, an empty buffer ends
   it, and a word is handed on if there is one. *)
ContinueRead(bus, deq_ready) ==
  /\ ~(Reads(deq_ready) /\ LastWord)
  /\ readFrom' = (bus.addHeader \/ (readFrom /\ ~bufferEmpty))
  /\ readValue' = IF bus.addHeader THEN ToWords(bus.tdata.val) ELSE readValue
  /\ IF Reads(deq_ready)
     THEN tail' = (tail + 1) % Size /\ counter' = (counter + 1) % Size
     ELSE UNCHANGED <<tail, counter>>

BufferClock(bus, deq_ready) ==
  /\ WriteSide(bus)
  /\ EndRead(deq_ready) \/ ContinueRead(bus, deq_ready)
=============================================================================
