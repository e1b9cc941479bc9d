--------------------------- MODULE MemFifoProofs ---------------------------
(* Theorems about MemFifo, for every set of words and every depth of at least
   two: the flags describe the ring, an undefined memory read is never used, a
   word on offer is stable, and the whole implements a bounded queue. *)
EXTENDS MemFifo, TLAPS

(* No leaf is given up too soon on a busy machine. *)
USE SMTT(60), ZenonT(60)

(* The pointer increment of the code (Mux(cntReg === depth - 1, 0, cntReg + 1))
   stays within the memory. *)
LEMMA NextValType == \A p \in Slot : nextVal(p) \in Slot
  BY DepthAssumption DEF Slot, nextVal

(* Every edge preserves the types. *)
LEMMA TypeStep == TypeOK /\ [Next]_vars => TypeOK'
<1> SUFFICES ASSUME TypeOK, [Next]_vars
             PROVE  TypeOK'
  OBVIOUS
<1>1. CASE UNCHANGED vars
  BY <1>1 DEF vars, TypeOK
<1>2. ASSUME NEW v \in BOOLEAN, NEW r \in BOOLEAN, NEW w \in Word, Clock(v, w, r)
      PROVE  TypeOK'
  <2>1. mem' \in [Slot -> Word] /\ writePtr' \in Slot
    BY <1>2, NextValType DEF Clock, WritePort, TypeOK
  <2>2. data' \in Word
    BY <1>2 DEF Clock, ReadPort, TypeOK
  <2>3. readPtr' \in Slot /\ emptyReg' \in BOOLEAN /\ fullReg' \in BOOLEAN
    BY <1>2, NextValType, Zenon
    DEF Clock, StateIdle, StateValid, StateFull, Refill, Fetch, NoFetch, TypeOK
  <2>4. stateReg' \in {"idle", "valid", "full"} /\ shadowReg' \in Word
    BY <1>2
    DEF Clock, StateIdle, StateValid, StateFull, Refill, Fetch, NoFetch, TypeOK
  <2> QED
    BY <2>1, <2>2, <2>3, <2>4 DEF TypeOK
<1> QED
  BY <1>1, <1>2 DEF Next

(* Every register stays in its type, whatever the inputs are: the pointers never
   leave the memory (lines 15-22) and the output is always a word. *)
THEOREM TypeCorrect == Spec => []TypeOK
<1>1. Init => TypeOK
  <2>1. 0 \in Slot
    BY DepthAssumption DEF Slot
  <2> QED
    BY <2>1, Zenon DEF Init, TypeOK
<1> QED
  BY <1>1, TypeStep, PTL DEF Spec

-----------------------------------------------------------------------------
(* Each edge either fetches or does not, and writes or does not. *)
LEMMA ClockCases ==
  ASSUME NEW v \in BOOLEAN, NEW r \in BOOLEAN, NEW w \in Word, TypeOK, Clock(v, w, r)
  PROVE  \/ ~emptyReg /\ Fetch
         \/ NoFetch(v)
  BY DEF Clock, StateIdle, StateValid, StateFull, Refill, TypeOK

(* The flags of the ring are inductive: fullReg tells a full ring from an empty
   one when the pointers are equal (lines 41, 52), and emptyReg is set late at
   most (lines 40, 53). *)
LEMMA FlagsStep == TypeOK /\ FlagsDescribeRing /\ [Next]_vars => FlagsDescribeRing'
<1> SUFFICES ASSUME TypeOK, FlagsDescribeRing, [Next]_vars
             PROVE  FlagsDescribeRing'
  OBVIOUS
<1> USE DepthAssumption DEF TypeOK, Slot
<1>1. CASE UNCHANGED vars
  BY <1>1 DEF vars, FlagsDescribeRing, Count
<1>2. ASSUME NEW v \in BOOLEAN, NEW r \in BOOLEAN, NEW w \in Word, Clock(v, w, r)
      PROVE  FlagsDescribeRing'
  <2>1. \/ Writes(v) /\ writePtr' = nextVal(writePtr)
        \/ ~Writes(v) /\ writePtr' = writePtr
    BY <1>2 DEF Clock, WritePort
  <2>2. CASE ~emptyReg /\ Fetch
    <3>1. /\ readPtr' = nextVal(readPtr)
          /\ ~fullReg'
          /\ emptyReg' <=> nextVal(readPtr) = writePtr
      BY <2>2, Zenon DEF Fetch
    <3>2. ~emptyReg
      BY <2>2
    <3> QED
      BY <2>1, <3>1, <3>2 DEF FlagsDescribeRing, Count, Writes, nextVal
  <2>3. CASE NoFetch(v)
    BY <2>1, <2>3 DEF NoFetch, FlagsDescribeRing, Count, Writes, nextVal
  <2> QED
    BY <1>2, <2>2, <2>3, ClockCases
<1> QED
  BY <1>1, <1>2 DEF Next

(* The flags describe the ring in every reachable state. *)
THEOREM FlagsCorrect == Spec => []FlagsDescribeRing
<1>1. Init => FlagsDescribeRing
  BY DepthAssumption DEF Init, FlagsDescribeRing, Count
<1> QED
  BY <1>1, FlagsStep, TypeCorrect, PTL DEF Spec

-----------------------------------------------------------------------------
(* A fetch and a write to the same slot never meet at one edge: equal pointers
   mean an empty ring, which is not fetched from, or a full one, which is not
   written to. *)
THEOREM FetchAlwaysDefined == Spec => FetchIsDefined
<1>1. TypeOK /\ FlagsDescribeRing /\ [Next]_vars
        => [~(readPtr' # readPtr /\ writePtr' # writePtr /\ writePtr = readPtr)]_vars
  <2> SUFFICES ASSUME TypeOK, FlagsDescribeRing,
                      NEW v \in BOOLEAN, NEW r \in BOOLEAN, NEW w \in Word, Clock(v, w, r)
               PROVE  ~(readPtr' # readPtr /\ writePtr' # writePtr /\ writePtr = readPtr)
    BY Zenon DEF Next
  <2>1. CASE NoFetch(v)
    BY <2>1 DEF NoFetch
  <2>2. CASE ~emptyReg
    <3>1. writePtr = readPtr => ~Writes(v)
      BY <2>2, Zenon DEF FlagsDescribeRing, Writes
    <3> QED
      BY <3>1 DEF Clock, WritePort
  <2> QED
    BY <2>1, <2>2, ClockCases
<1> QED
  BY <1>1, TypeCorrect, FlagsCorrect, PTL DEF Spec, FetchIsDefined

(* The word on offer stays while the consumer is not ready. *)
THEOREM OfferAlwaysStable == Spec => OfferIsStable
<1>1. TypeOK /\ [Next]_vars
        => [deq_valid /\ (\E v \in BOOLEAN, w \in Word : Clock(v, w, FALSE))
              => deq_valid' /\ deq_bits' = deq_bits]_vars
  <2> SUFFICES ASSUME TypeOK, deq_valid,
                      NEW v \in BOOLEAN, NEW w \in Word, Clock(v, w, FALSE)
               PROVE  deq_valid' /\ deq_bits' = deq_bits
    BY Zenon
  <2>1. CASE stateReg = "valid"
    BY <2>1 DEF Clock, StateIdle, StateValid, StateFull, deq_valid, deq_bits
  <2>2. CASE stateReg = "full"
    BY <2>2 DEF Clock, StateIdle, StateValid, StateFull, deq_valid, deq_bits
  <2> QED
    BY <2>1, <2>2 DEF deq_valid
<1> QED
  BY <1>1, TypeCorrect, PTL DEF Spec, OfferIsStable

-----------------------------------------------------------------------------
(* The ring as a sequence: SlotAt enumerates its slots without repetition, and
   the next word goes to the slot after the last one used. *)
LEMMA RingFacts ==
  ASSUME TypeOK, FlagsDescribeRing
  PROVE  /\ Count \in 0 .. Depth
         /\ ~emptyReg => Count >= 1
         /\ ~fullReg => Count < Depth /\ SlotAt(Count) = writePtr
         /\ SlotAt(0) = readPtr
         /\ \A j \in 0 .. Depth - 1 : SlotAt(j) \in Slot
         /\ \A i, j \in 0 .. Depth - 1 : SlotAt(i) = SlotAt(j) => i = j
         /\ Offered \in {0, 1}
<1> USE DepthAssumption DEF TypeOK, Slot
<1>1. Count \in 0 .. Depth
  BY DEF Count
<1>2. ~emptyReg => Count >= 1
  BY DEF Count, FlagsDescribeRing
<1>3. ~fullReg => Count < Depth /\ SlotAt(Count) = writePtr
  BY DEF Count, SlotAt
<1>4. SlotAt(0) = readPtr
  BY DEF SlotAt
<1>5. \A j \in 0 .. Depth - 1 : SlotAt(j) \in Slot
  BY DEF SlotAt
<1>6. \A i, j \in 0 .. Depth - 1 : SlotAt(i) = SlotAt(j) => i = j
  BY DEF SlotAt
<1>7. Offered \in {0, 1}
  BY DEF Offered
<1> QED
  BY <1>1, <1>2, <1>3, <1>4, <1>5, <1>6, <1>7

(* What is held is a sequence of words. *)
LEMMA ContentsType ==
  TypeOK /\ FlagsDescribeRing
    => Contents \in Seq(Word) /\ Len(Contents) = Offered + Count
<1> SUFFICES ASSUME TypeOK, FlagsDescribeRing
             PROVE  Contents \in Seq(Word) /\ Len(Contents) = Offered + Count
  OBVIOUS
<1>1. deq_bits \in Word
  BY DEF TypeOK, deq_bits
<1>2. Offered + Count \in Nat
  BY RingFacts, DepthAssumption
<1>3. ASSUME NEW i \in 1 .. Offered + Count, ~(i <= Offered)
      PROVE  mem[SlotAt(i - Offered - 1)] \in Word
  <2>1. i - Offered - 1 \in 0 .. Depth - 1
    BY <1>3, RingFacts, DepthAssumption
  <2> QED
    BY <2>1, RingFacts DEF TypeOK
<1>4. Contents \in [1 .. Offered + Count -> Word]
  BY <1>1, <1>3 DEF Contents
<1> QED
  BY <1>2, <1>4

(* An edge in terms of the consumer: a fetch happens only when no word is on
   offer or the one on offer is taken; otherwise the offer is dropped if taken
   and kept if not. *)
LEMMA EdgeCases ==
  ASSUME NEW v \in BOOLEAN, NEW r \in BOOLEAN, NEW w \in Word, TypeOK, Clock(v, w, r)
  PROVE  \/ ~emptyReg /\ Fetch /\ (deq_valid => r)
         \/ NoFetch(v) /\ (deq_valid => r) /\ ~deq_valid'
         \/ NoFetch(v) /\ deq_valid /\ ~r /\ deq_valid' /\ deq_bits' = deq_bits
<1>1. CASE StateIdle(v)
  BY <1>1 DEF StateIdle, Refill, deq_valid
<1>2. CASE StateValid(v, r)
  BY <1>2 DEF StateValid, Refill, deq_valid, deq_bits
<1>3. CASE StateFull(v, r)
  BY <1>3 DEF StateFull, Refill, deq_valid, deq_bits
<1> QED
  BY <1>1, <1>2, <1>3 DEF Clock

(* A write leaves the words of the ring alone and puts the new one after them. *)
LEMMA WriteFacts ==
  ASSUME TypeOK, FlagsDescribeRing,
         NEW v \in BOOLEAN, NEW r \in BOOLEAN, NEW w \in Word, Clock(v, w, r)
  PROVE  /\ \A j \in 0 .. Count - 1 : mem'[SlotAt(j)] = mem[SlotAt(j)]
         /\ Writes(v) => mem'[SlotAt(Count)] = w
<1>1. CASE Writes(v)
  <2>1. mem' = [mem EXCEPT ![writePtr] = w] /\ ~fullReg
    BY <1>1 DEF Clock, WritePort, Writes
  <2>2. ASSUME NEW j \in 0 .. Count - 1
        PROVE  SlotAt(j) # writePtr /\ SlotAt(j) \in Slot
    BY <2>1, RingFacts, DepthAssumption
  <2> QED
    BY <2>1, <2>2, RingFacts DEF TypeOK
<1>2. CASE ~Writes(v)
  BY <1>2 DEF Clock, WritePort
<1> QED
  BY <1>1, <1>2

(* The ring after an edge that fetches: its first word has gone to the output. *)
LEMMA FetchStep ==
  ASSUME TypeOK, FlagsDescribeRing,
         NEW v \in BOOLEAN, NEW r \in BOOLEAN, NEW w \in Word, Clock(v, w, r),
         ~emptyReg, Fetch
  PROVE  /\ Count' = Count - 1 + (IF Writes(v) THEN 1 ELSE 0)
         /\ \A j \in 0 .. Depth - 2 : SlotAt(j)' = SlotAt(j + 1)
         /\ Offered' = 1
         /\ deq_bits' = mem[SlotAt(0)]
<1> USE DepthAssumption
<1>1. readPtr' = nextVal(readPtr) /\ ~fullReg' /\ stateReg' = "valid"
  BY Zenon DEF Fetch
<1>2. \/ Writes(v) /\ writePtr' = nextVal(writePtr)
      \/ ~Writes(v) /\ writePtr' = writePtr
  BY DEF Clock, WritePort
<1>3. Count' = Count - 1 + (IF Writes(v) THEN 1 ELSE 0)
  <2>1. CASE Writes(v)
    BY <1>1, <1>2, <2>1 DEF Count, nextVal, Writes, FlagsDescribeRing, TypeOK, Slot
  <2>2. CASE ~Writes(v)
    BY <1>1, <1>2, <2>2 DEF Count, nextVal, Writes, FlagsDescribeRing, TypeOK, Slot
  <2> QED
    BY <2>1, <2>2
<1>4. \A j \in 0 .. Depth - 2 : SlotAt(j)' = SlotAt(j + 1)
  BY <1>1 DEF SlotAt, nextVal, TypeOK, Slot
<1>5. data' = mem[readPtr]
  <2>1. writePtr = readPtr => ~Writes(v)
    BY Zenon DEF FlagsDescribeRing, Writes
  <2> QED
    BY <2>1 DEF Clock, ReadPort
<1>6. Offered' = 1 /\ deq_bits' = data'
  BY <1>1 DEF Offered, deq_valid, deq_bits
<1> QED
  BY <1>3, <1>4, <1>5, <1>6, RingFacts

(* The ring after an edge that does not fetch. *)
LEMMA NoFetchStep ==
  ASSUME TypeOK, FlagsDescribeRing,
         NEW v \in BOOLEAN, NEW r \in BOOLEAN, NEW w \in Word, Clock(v, w, r),
         NoFetch(v)
  PROVE  /\ Count' = Count + (IF Writes(v) THEN 1 ELSE 0)
         /\ \A j \in 0 .. Depth - 1 : SlotAt(j)' = SlotAt(j)
<1> USE DepthAssumption
<1>1. readPtr' = readPtr
  BY DEF NoFetch
<1>2. Count' = Count + (IF Writes(v) THEN 1 ELSE 0)
  <2>1. CASE Writes(v)
    <3>1. writePtr' = nextVal(writePtr) /\ (fullReg' <=> nextVal(writePtr) = readPtr) /\ ~fullReg
      BY <2>1, Zenon DEF Clock, WritePort, NoFetch, Writes
    <3> QED
      BY <1>1, <2>1, <3>1 DEF Count, nextVal, TypeOK, Slot
  <2>2. CASE ~Writes(v)
    BY <1>1, <2>2 DEF Clock, WritePort, NoFetch, Count, TypeOK, Slot
  <2> QED
    BY <2>1, <2>2
<1> QED
  BY <1>1, <1>2 DEF SlotAt

(* The number of words that an edge takes out, and the number it puts in. *)
Out(r) == IF deq_valid /\ r THEN 1 ELSE 0
In(v) == IF Writes(v) THEN 1 ELSE 0

(* What is held after an edge: what was held, less the word taken, plus the word
   written. *)
LEMMA ContentsStep ==
  ASSUME TypeOK, FlagsDescribeRing,
         NEW v \in BOOLEAN, NEW r \in BOOLEAN, NEW w \in Word, Clock(v, w, r)
  PROVE  /\ Offered' + Count' = Offered + Count - Out(r) + In(v)
         /\ \A i \in 1 .. Offered + Count - Out(r) : Contents'[i] = Contents[i + Out(r)]
         /\ Writes(v) => Contents'[Offered + Count - Out(r) + 1] = w
<1> USE DepthAssumption
<1>1. /\ Count \in 0 .. Depth /\ Offered \in {0, 1}
      /\ Offered = 1 <=> deq_valid
      /\ Writes(v) => Count < Depth
      /\ In(v) \in {0, 1} /\ Out(r) \in {0, 1}
  BY RingFacts DEF Offered, In, Out, Writes
<1>2. CASE ~emptyReg /\ Fetch /\ (deq_valid => r)
  <2>1. Out(r) = Offered
    BY <1>2, <1>1 DEF Out, Offered
  <2>2. /\ Count >= 1
        /\ Count' = Count - 1 + In(v)
        /\ Offered' = 1
        /\ deq_bits' = mem[SlotAt(0)]
        /\ \A j \in 0 .. Depth - 2 : SlotAt(j)' = SlotAt(j + 1)
    BY <1>2, FetchStep, RingFacts DEF In
  <2>3. Offered' + Count' = Offered + Count - Out(r) + In(v)
    BY <1>1, <2>1, <2>2
  <2>4. ASSUME NEW i \in 1 .. Count
        PROVE  Contents'[i] = Contents[i + Offered]
    <3>1. Contents[i + Offered] = mem[SlotAt(i - 1)]
      BY <1>1 DEF Contents
    <3>2. CASE i = 1
      BY <1>1, <2>2, <3>1, <3>2 DEF Contents
    <3>3. CASE i # 1
      <4>1. Contents'[i] = mem'[SlotAt(i - 2)']
        BY <1>1, <2>2, <3>3 DEF Contents
      <4>2. SlotAt(i - 2)' = SlotAt(i - 1)
        BY <1>1, <2>2, <3>3
      <4> QED
        BY <1>1, <3>1, <3>3, <4>1, <4>2, WriteFacts
    <3> QED
      BY <3>2, <3>3
  <2>5. Writes(v) => Contents'[Count + 1] = w
    <3> SUFFICES ASSUME Writes(v)
                 PROVE  Contents'[Count + 1] = w
      OBVIOUS
    <3>1. PICK c \in 1 .. Depth : c = Count
      BY <1>1, <2>2
    <3>2. Contents'[c + 1] = mem'[SlotAt(c - 1)']
      BY <1>1, <2>2, <3>1 DEF Contents, In
    <3>3. SlotAt(c - 1)' = SlotAt(c)
      BY <1>1, <2>2, <3>1
    <3> QED
      BY <3>1, <3>2, <3>3, WriteFacts
  <2> QED
    BY <1>1, <2>1, <2>3, <2>4, <2>5
<1>3. CASE NoFetch(v) /\ (deq_valid => r) /\ ~deq_valid'
  <2>1. Out(r) = Offered /\ Offered' = 0
    BY <1>3, <1>1 DEF Out, Offered
  <2>2. /\ Count' = Count + In(v)
        /\ \A j \in 0 .. Depth - 1 : SlotAt(j)' = SlotAt(j)
    BY <1>3, NoFetchStep DEF In
  <2>3. ASSUME NEW i \in 1 .. Count
        PROVE  Contents'[i] = Contents[i + Offered]
    <3>1. Contents[i + Offered] = mem[SlotAt(i - 1)]
      BY <1>1 DEF Contents
    <3>2. Contents'[i] = mem'[SlotAt(i - 1)']
      BY <1>1, <2>1, <2>2 DEF Contents
    <3> QED
      BY <1>1, <2>2, <3>1, <3>2, WriteFacts
  <2>4. Writes(v) => Contents'[Count + 1] = w
    <3> SUFFICES ASSUME Writes(v)
                 PROVE  Contents'[Count + 1] = w
      OBVIOUS
    <3>1. PICK c \in 0 .. Depth : c = Count
      BY <1>1
    <3>2. Contents'[c + 1] = mem'[SlotAt(c)']
      BY <1>1, <2>1, <2>2, <3>1 DEF Contents, In
    <3> QED
      BY <1>1, <2>2, <3>1, <3>2, WriteFacts
  <2> QED
    BY <1>1, <2>1, <2>2, <2>3, <2>4
<1>4. CASE NoFetch(v) /\ deq_valid /\ ~r /\ deq_valid' /\ deq_bits' = deq_bits
  <2>1. Out(r) = 0 /\ Offered = 1 /\ Offered' = 1
    BY <1>4 DEF Out, Offered
  <2>2. /\ Count' = Count + In(v)
        /\ \A j \in 0 .. Depth - 1 : SlotAt(j)' = SlotAt(j)
    BY <1>4, NoFetchStep DEF In
  <2>3. ASSUME NEW i \in 1 .. Count + 1
        PROVE  Contents'[i] = Contents[i]
    <3>1. CASE i = 1
      BY <1>1, <1>4, <2>1, <2>2, <3>1 DEF Contents
    <3>2. CASE i # 1
      <4>1. Contents[i] = mem[SlotAt(i - 2)] /\ Contents'[i] = mem'[SlotAt(i - 2)']
        BY <1>1, <2>1, <2>2, <3>2 DEF Contents
      <4> QED
        BY <1>1, <2>2, <3>2, <4>1, WriteFacts
    <3> QED
      BY <3>1, <3>2
  <2>4. Writes(v) => Contents'[Count + 2] = w
    <3> SUFFICES ASSUME Writes(v)
                 PROVE  Contents'[Count + 2] = w
      OBVIOUS
    <3>1. PICK c \in 0 .. Depth : c = Count
      BY <1>1
    <3>2. Contents'[c + 2] = mem'[SlotAt(c)']
      BY <1>1, <2>1, <2>2, <3>1 DEF Contents, In
    <3> QED
      BY <1>1, <2>2, <3>1, <3>2, WriteFacts
  <2> QED
    BY <1>1, <2>1, <2>2, <2>3, <2>4
<1> QED
  BY <1>2, <1>3, <1>4, EdgeCases

(* Every edge is a step of the bounded queue, or leaves it alone. *)
LEMMA EdgeRefines ==
  ASSUME TypeOK, FlagsDescribeRing, TypeOK', FlagsDescribeRing',
         NEW v \in BOOLEAN, NEW r \in BOOLEAN, NEW w \in Word, Clock(v, w, r)
  PROVE  [Abstract!Next]_Contents
<1>0. PICK n \in Nat : n = Offered + Count
  BY RingFacts, DepthAssumption
<1>1. /\ Contents \in Seq(Word) /\ Len(Contents) = n
      /\ n \in Nat
      /\ deq_valid => n >= 1
      /\ Writes(v) => n < Depth + 1
  <2>1. Writes(v) => Count < Depth
    BY RingFacts DEF Writes
  <2> QED
    BY <1>0, <2>1, ContentsType, RingFacts, DepthAssumption DEF Offered
<1>types. /\ Offered \in {0, 1} /\ Count \in Nat
      /\ Out(r) \in {0, 1} /\ In(v) \in {0, 1}
  BY RingFacts, DepthAssumption DEF Offered, Out, In
<1>2. Contents' \in Seq(Word) /\ Len(Contents') = n - Out(r) + In(v)
  <2>1. (Contents \in Seq(Word) /\ Len(Contents) = Offered + Count)'
    BY ContentsType, PTL
  <2>2. Offered' + Count' = Offered + Count - Out(r) + In(v)
    BY ContentsStep, Zenon
  <2> QED
    BY <1>0, <1>types, <2>1, <2>2
<1>3. /\ \A i \in 1 .. n - Out(r) : Contents'[i] = Contents[i + Out(r)]
      /\ Writes(v) => Contents'[n - Out(r) + 1] = w
  BY <1>0, <1>types, ContentsStep
<1>4. CASE ~(deq_valid /\ r) /\ ~Writes(v)
  <2>1. Contents' = Contents
    BY <1>1, <1>2, <1>3, <1>4 DEF Out, In
  <2> QED
    BY <2>1
<1>5. CASE ~(deq_valid /\ r) /\ Writes(v)
  <2>1. Contents' = Append(Contents, w)
    BY <1>1, <1>2, <1>3, <1>5 DEF Out, In
  <2> QED
    BY <1>1, <1>5, <2>1 DEF Abstract!Next, Abstract!Put
<1>6. CASE deq_valid /\ r /\ ~Writes(v)
  <2>1. Contents # << >> /\ Contents' = Tail(Contents)
    BY <1>1, <1>2, <1>3, <1>6 DEF Out, In
  <2> QED
    BY <2>1 DEF Abstract!Next, Abstract!Take
<1>7. CASE deq_valid /\ r /\ Writes(v)
  <2>1. Contents # << >> /\ Contents' = Append(Tail(Contents), w)
    BY <1>1, <1>2, <1>3, <1>7 DEF Out, In
  <2> QED
    BY <2>1 DEF Abstract!Next, Abstract!PutTake
<1> QED
  BY <1>4, <1>5, <1>6, <1>7

(* MemFifo implements a queue of at most Depth + 1 words, for every depth and
   whatever its producer and its consumer do. *)
THEOREM ImplementsBoundedFifo == Spec => IsBoundedFifo
<1>1. Init => Abstract!Init
  BY DepthAssumption DEF Init, Abstract!Init, Contents, Offered, Count, deq_valid
<1>2. TypeOK /\ FlagsDescribeRing /\ TypeOK' /\ FlagsDescribeRing' /\ [Next]_vars
        => [Abstract!Next]_Contents
  <2> SUFFICES ASSUME TypeOK, FlagsDescribeRing, TypeOK', FlagsDescribeRing', [Next]_vars
               PROVE  [Abstract!Next]_Contents
    OBVIOUS
  <2>1. CASE UNCHANGED vars
    BY <2>1 DEF vars, Contents, Offered, Count, SlotAt, deq_valid, deq_bits
  <2>2. CASE Next
    BY <2>2, EdgeRefines DEF Next
  <2> QED
    BY <2>1, <2>2
<1> QED
  BY <1>1, <1>2, TypeCorrect, FlagsCorrect, PTL DEF Spec, IsBoundedFifo, Abstract!Spec
=============================================================================
