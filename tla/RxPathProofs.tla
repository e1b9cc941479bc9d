---------------------------- MODULE RxPathProofs ----------------------------
(* Facts about the receive path for every size of the buffer, width of the counter,
   filter index, set of frames and gap between them, under the conditions that
   TrafficFits names.  The filter's counter, the pointers of the buffer and the frame
   that is being handed on are tied to the beat on the bus by one inductive invariant. *)
EXTENDS RxPathSpec, TLAPS

(* No leaf is given up too soon on a busy machine. *)
USE SMTT(60), ZenonT(60)

(* The beat that holds the byte with the filter index. *)
IndexBeat == FilterIndex \div BytesPerWord + 1

(* The words of the frame on the bus that are in the buffer. *)
Stored ==
  IF stateBuffer = "Idle" THEN 0
  ELSE IF stateBuffer \in {"Evaluate", "GoodFrame"} THEN beat - 1
  ELSE IF stateBuffer = "AddHeader" THEN beat
  ELSE IF stateBuffer = "BadFrame" THEN IndexBeat
  ELSE ToWords(cntFrame) + 1

(* Where the filter is in the frame on the bus, and what its counter says. *)
FilterInv ==
  /\ stateBuffer = "Idle" => beat \in {0, 1}
  /\ stateBuffer # "Idle" => beat # 0 /\ indexHighLow = FilterIndex % BytesPerWord
  /\ stateBuffer = "Evaluate" =>
       beat <= IndexBeat /\ cntFrame = BytesPerWord * (beat - 1) /\ cntBytes = BytesPerWord
  /\ stateBuffer = "GoodFrame" =>
       /\ Wanted(FilterIndex) /\ beat > IndexBeat
       /\ cntFrame = BytesPerWord * (beat - 1) /\ cntBytes = BytesPerWord
  /\ stateBuffer = "AddHeader" =>
       /\ Wanted(FilterIndex) /\ beat > IndexBeat /\ IsLast
       /\ cntFrame = BytesPerWord * (beat - 1)
  /\ stateBuffer = "BadFrame" =>
       ~Wanted(FilterIndex) /\ beat > IndexBeat /\ cntFrame = BytesPerWord * IndexBeat
  /\ stateBuffer = "FlushFrame" =>
       /\ ~Wanted(FilterIndex) /\ IsLast
       /\ cntFrame \in {BytesPerWord * (beat - 1), BytesPerWord * IndexBeat}
       /\ ToWords(cntFrame) + 1 <= beat

(* The slot that is k behind the one to be read next. *)
Slot(t, k) == (t + k) % Size

Word == [kind : {"beat", "number"}, tag : {0, 1}, val : Nat]

(* The pending words, then a slot for a header, then those of the frame on the bus. *)
ContentsInv ==
  /\ pending \in Seq(Word)
  /\ head = Slot(tail, 1 + Len(pending) + Stored)
  /\ Len(pending) + Stored + 2 <= Size
  /\ \A k \in 1 .. Len(pending) : mem[Slot(tail, k - 1)] = pending[k]
  /\ stateBuffer \in {"Evaluate", "GoodFrame", "AddHeader"} =>
       \A k \in 1 .. Stored : mem[Slot(tail, Len(pending) + k)] = Beat(tag, k)

(* What is pending is the rest of one frame, which is being handed on. *)
ReadInv ==
  IF readFrom
  THEN /\ readValue + 1 \in FrameLens /\ Reaches(readValue + 1)
       /\ counter <= readValue + 1
       /\ Len(pending) = readValue + 2 - counter
       /\ Len(pending) + Stored <= readValue + 2
  ELSE pending = << >> /\ counter = 0

(* It is gone before the next header comes. *)
PaceInv ==
  readFrom =>
    /\ beat = 0 => \A m \in FrameLens : Reaches(m) => Len(pending) <= gap + m + 2
    /\ beat # 0 /\ Wanted(FilterIndex) =>
         /\ stateBuffer = "Idle" => Len(pending) <= frame.len + 1
         /\ stateBuffer \in {"Evaluate", "GoodFrame"} => Len(pending) <= frame.len - beat + 1
         /\ stateBuffer # "AddHeader"

RxInv == RxTypeOK /\ FilterInv /\ ContentsInv /\ ReadInv /\ PaceInv

-----------------------------------------------------------------------------
(* Arithmetic: addresses that wrap. *)

(* Multiples of n are at least n apart ... *)
LEMMA MulPos == \A n \in Nat \ {0}, d \in Int : d >= 1 => n * d >= n
  OBVIOUS

(* ... also below zero. *)
LEMMA MulNeg == \A n \in Nat \ {0}, d \in Int : d <= -1 => n * d <= -n
  OBVIOUS

(* Division with a remainder ... *)
LEMMA DivMod ==
  ASSUME NEW n \in Nat \ {0}, NEW a \in Int
  PROVE  a % n \in 0 .. n - 1 /\ a \div n \in Int /\ a = n * (a \div n) + (a % n)
  OBVIOUS

(* ... and as its parts. *)
LEMMA Euclid ==
  ASSUME NEW n \in Nat \ {0}, NEW a \in Int
  PROVE  \E q \in Int, r \in 0 .. n - 1 : a = n * q + r /\ a % n = r
  BY DivMod, Zenon

(* The remainder of a number that is written as a multiple plus a rest. *)
LEMMA ModIs ==
  ASSUME NEW n \in Nat \ {0}, NEW q \in Int, NEW r \in 0 .. n - 1
  PROVE  (n * q + r) % n = r
<1>1. n * q + r \in Int OBVIOUS
<1>2. PICK p \in Int, s \in 0 .. n - 1 : n * q + r = n * p + s /\ (n * q + r) % n = s
  BY <1>1, Euclid, Zenon
<1>3. n * (q - p) = s - r BY <1>2
<1>4. ~(q - p >= 1) BY <1>3, MulPos
<1>5. ~(q - p <= -1) BY <1>3, MulNeg
<1>6. q = p BY <1>4, <1>5
<1>. QED BY <1>2, <1>6

(* An address that wraps counts modulo n. *)
LEMMA ModAdd ==
  ASSUME NEW n \in Nat \ {0}, NEW a \in Int, NEW k \in Int
  PROVE  ((a % n) + k) % n = (a + k) % n
<1>1. PICK q \in Int, r \in 0 .. n - 1 : a = n * q + r /\ a % n = r BY Euclid, Zenon
<1>2. r + k \in Int BY <1>1
<1>3. PICK p \in Int, s \in 0 .. n - 1 : r + k = n * p + s /\ (r + k) % n = s
  BY <1>2, Euclid, Zenon
<1>4. a + k = n * (q + p) + s /\ q + p \in Int BY <1>1, <1>3
<1>5. (n * (q + p) + s) % n = s BY <1>4, ModIs, Zenon
<1>. QED BY <1>1, <1>3, <1>4, <1>5, Zenon

(* Numbers less than n apart are told apart by their remainders. *)
LEMMA ModInjective ==
  ASSUME NEW n \in Nat \ {0}, NEW a \in Int, NEW b \in Int,
         a <= b, b - a < n, a % n = b % n
  PROVE  a = b
<1>1. PICK q \in Int, r \in 0 .. n - 1 : a = n * q + r /\ a % n = r BY Euclid, Zenon
<1>2. PICK p \in Int, s \in 0 .. n - 1 : b = n * p + s /\ b % n = s BY Euclid, Zenon
<1>3. b - a = n * (p - q) BY <1>1, <1>2
<1>4. ~(p - q >= 1) BY <1>3, MulPos
<1>5. ~(p - q <= -1) BY <1>3, MulNeg
<1>. QED BY <1>1, <1>2, <1>4, <1>5

(* A number below n is its own remainder. *)
LEMMA ModSmall ==
  ASSUME NEW n \in Nat \ {0}, NEW r \in 0 .. n - 1
  PROVE  r % n = r
<1>1. n * 0 + r = r OBVIOUS
<1>. QED BY <1>1, ModIs

(* The slots of the ring: each is one, they differ, and from one the others are
   reached by adding and subtracting. *)
LEMMA SlotFacts ==
  ASSUME tail \in 0 .. Size - 1
  PROVE  /\ \A k \in Int : Slot(tail, k) \in 0 .. Size - 1
         /\ \A j, k \in Int : j < k /\ k - j < Size => Slot(tail, j) # Slot(tail, k)
         /\ \A k, d \in Int : (Slot(tail, k) + d) % Size = Slot(tail, k + d)
<1>1. Size \in Nat \ {0} BY SizeAssumption
<1>2. \A k \in Int : Slot(tail, k) \in 0 .. Size - 1 BY <1>1 DEF Slot
<1>3. ASSUME NEW j \in Int, NEW k \in Int, j < k, k - j < Size
      PROVE  Slot(tail, j) # Slot(tail, k)
  <2>1. /\ tail + j \in Int /\ tail + k \in Int /\ tail + j <= tail + k
        /\ (tail + k) - (tail + j) < Size
    BY <1>1, <1>3
  <2>2. (tail + j) % Size = (tail + k) % Size => tail + j = tail + k
    BY <1>1, <2>1, ModInjective, Zenon
  <2>. QED BY <1>3, <2>2 DEF Slot
<1>4. ASSUME NEW k \in Int, NEW d \in Int PROVE (Slot(tail, k) + d) % Size = Slot(tail, k + d)
  <2>1. tail + k \in Int /\ tail + (k + d) = (tail + k) + d OBVIOUS
  <2>2. (((tail + k) % Size) + d) % Size = ((tail + k) + d) % Size BY <1>1, <2>1, ModAdd, Zenon
  <2>. QED BY <2>1, <2>2, Zenon DEF Slot
<1>. QED BY <1>2, <1>3, <1>4

(* When the tail moves on, so do the slots. *)
LEMMA SlotsMove ==
  ASSUME tail \in 0 .. Size - 1, NEW r \in {0, 1}, tail' = (tail + r) % Size
  PROVE  \A k \in Int : Slot(tail', k) = Slot(tail, k + r)
<1>. SUFFICES ASSUME NEW k \in Int PROVE (tail' + k) % Size = (tail + (k + r)) % Size
  BY DEF Slot
<1>1. Size \in Nat \ {0} /\ tail + r \in Int /\ tail + (k + r) = (tail + r) + k
  BY SizeAssumption
<1>2. (((tail + r) % Size) + k) % Size = ((tail + r) + k) % Size BY <1>1, ModAdd, Zenon
<1>. QED BY <1>1, <1>2, Zenon

(* The buffer is not full, and its length is that of its contents. *)
LEMMA Occupancy ==
  ASSUME RxTypeOK, ContentsInv, Stored \in Nat
  PROVE  bufferLength = Len(pending) + Stored /\ ~bufferFull
<1>. DEFINE n == Len(pending) + Stored
<1>0. /\ Len(pending) \in Nat /\ Len(pending) + Stored + 2 <= Size
      /\ tail \in 0 .. Size - 1 /\ head \in 0 .. Size - 1
  BY DEF ContentsInv, RxTypeOK, BufferTypeOK
<1>1. Size \in Nat \ {0} /\ n \in 0 .. Size - 2 /\ tail \in 0 .. Size - 1
  BY <1>0, SizeAssumption
<1>. HIDE DEF n
<1>2. head = Slot(tail, 1 + n) BY <1>1 DEF ContentsInv, n
<1>3. (head + (-1 - tail)) % Size = Slot(tail, (1 + n) + (-1 - tail)) BY <1>1, <1>2, SlotFacts
<1>4. Slot(tail, (1 + n) + (-1 - tail)) = n % Size BY <1>1 DEF Slot
<1>5. head - 1 - tail = head + (-1 - tail)
  BY <1>0, <1>1
<1>6. n % Size = n BY <1>1, ModSmall
<1>7. bufferLength = n BY <1>3, <1>4, <1>5, <1>6 DEF bufferLength
<1>. QED BY <1>1, <1>7 DEF bufferFull, n

-----------------------------------------------------------------------------
(* The cycles of the path, by what source and filter do in them. *)

Waits == UNCHANGED <<frame, beat, gap, tag>>
GoesOn == beat < frame.len /\ beat' = beat + 1 /\ UNCHANGED <<frame, gap, tag>>
Counts == cntFrame' = BytesPerWord * beat /\ cntBytes' = BytesPerWord

IdleCycle ==
  /\ stateBuffer = "Idle" /\ beat = 0
  /\ stateBuffer' = "Idle" /\ Between(gap) /\ tag' = tag
FirstCycle ==
  /\ stateBuffer = "Idle" /\ beat = 1 /\ Waits
  /\ stateBuffer' = "Evaluate" /\ cntFrame' = 0 /\ cntBytes' = BytesPerWord
BeforeIndex ==
  /\ stateBuffer = "Evaluate" /\ beat < IndexBeat /\ GoesOn
  /\ stateBuffer' = "Evaluate" /\ Counts
AtIndexBeat ==
  /\ stateBuffer = "Evaluate" /\ beat = IndexBeat /\ GoesOn /\ Counts
  /\ stateBuffer' = IF Wanted(FilterIndex) THEN "GoodFrame" ELSE "BadFrame"
EndsTooShort ==
  /\ stateBuffer = "Evaluate" /\ beat < IndexBeat /\ IsLast /\ Waits
  /\ stateBuffer' = "FlushFrame" /\ UNCHANGED cntFrame
GoodGoesOn == stateBuffer = "GoodFrame" /\ GoesOn /\ stateBuffer' = "GoodFrame" /\ Counts
GoodEnds ==
  /\ stateBuffer = "GoodFrame" /\ IsLast /\ Waits
  /\ stateBuffer' = "AddHeader" /\ UNCHANGED cntFrame
HeaderCycle ==
  /\ stateBuffer = "AddHeader" /\ stateBuffer' = "Idle"
  /\ Between(MinGap) /\ tag' = 1 - tag
BadGoesOn ==
  /\ stateBuffer = "BadFrame" /\ GoesOn
  /\ stateBuffer' = "BadFrame" /\ UNCHANGED cntFrame
BadEnds ==
  /\ stateBuffer = "BadFrame" /\ IsLast /\ Waits
  /\ stateBuffer' = "FlushFrame" /\ UNCHANGED cntFrame
FlushCycle ==
  /\ stateBuffer = "FlushFrame" /\ stateBuffer' = "Idle"
  /\ Between(MinGap) /\ tag' = tag

Unstored == IdleCycle \/ FirstCycle \/ BadGoesOn
StoredBeat == BeforeIndex \/ AtIndexBeat \/ EndsTooShort \/ GoodGoesOn \/ GoodEnds

(* What they do to the buffer. *)
KeepsBuffer == UNCHANGED <<mem, head>>
Puts(w) == mem' = [mem EXCEPT ![head] = w] /\ head' = (head + 1) % Size
PutsHeader ==
  /\ mem' = [mem EXCEPT ![(head - (ToWords(cntFrame) + 2)) % Size] = Number(cntFrame)]
  /\ head' = (head + 1) % Size
TakesBack ==
  LET began == (head - (ToWords(cntFrame) + 1)) % Size
  IN  mem' = [mem EXCEPT ![began] = Number(cntFrame)] /\ head' = began

Cycle ==
  \/ Unstored /\ KeepsBuffer
  \/ StoredBeat /\ Puts(Beat(tag, beat))
  \/ BadEnds /\ Puts(Number(0))
  \/ HeaderCycle /\ PutsHeader
  \/ FlushCycle /\ TakesBack

(* The frame on the bus. *)
LEMMA FrameFacts ==
  ASSUME SourceTypeOK, beat # 0
  PROVE  /\ frame.len \in FrameLens /\ frame.len \in Nat /\ frame.len >= 2
         /\ frame.mark \in Nat /\ frame.mark <= BytesPerWord * frame.len
         /\ beat \in Nat /\ 1 <= beat /\ beat <= frame.len
<1>1. frame \in Frames BY DEF SourceTypeOK
<1>a. frame \in [len : FrameLens, odd : Odd, mark : Marks] /\ frame.mark <= Bytes(frame)
  BY <1>1, Zenon DEF Frames
<1>b. frame.len \in FrameLens BY <1>a
<1>c. frame.mark \in Marks BY <1>a
<1>2. frame.len \in FrameLens /\ frame.mark \in Marks /\ frame.mark <= Bytes(frame)
  BY <1>a, <1>b, <1>c, Zenon
<1>3. frame.len \in Nat /\ frame.len >= 2 /\ frame.mark \in Nat
  <2>1. frame.len \in Nat \ {0, 1} /\ frame.mark \in Nat BY <1>2, SourceAssumption, Zenon
  <2>. QED BY <2>1
<1>4. frame.mark <= BytesPerWord * frame.len BY <1>2, <1>3 DEF Bytes, BytesPerWord
<1>. QED BY <1>2, <1>3, <1>4 DEF SourceTypeOK

(* The signals of a beat. *)
LEMMA BusFacts ==
  ASSUME beat # 0, NEW axis \in Axis
  PROVE  /\ axis.tvalid /\ (axis.tlast <=> IsLast)
         /\ axis.keep = IF IsLast /\ frame.odd THEN 1 ELSE BytesPerWord
         /\ axis.tdata = Beat(tag, beat) /\ axis.hits = Hits
  BY DEF Axis

(* The byte with the filter index is in one of the lanes of its beat. *)
LEMMA IndexSplit ==
  /\ FilterIndex % BytesPerWord \in 0 .. BytesPerWord - 1
  /\ BytesPerWord * (IndexBeat - 1) + (FilterIndex % BytesPerWord) + 1 = FilterIndex + 1
<1>1. PICK n \in Nat \ {0} : n = BytesPerWord BY DEF BytesPerWord
<1>2. FilterIndex \in Int BY IndexAssumption
<1>3. FilterIndex % n \in 0 .. n - 1 /\ FilterIndex \div n \in Int
      /\ FilterIndex = n * (FilterIndex \div n) + (FilterIndex % n)
  BY <1>2, DivMod
<1>4. IndexBeat - 1 = FilterIndex \div n BY <1>1, <1>3 DEF IndexBeat
<1>. QED BY <1>1, <1>3, <1>4

(* The words of the frame on the bus are counted by a number of its beats. *)
LEMMA StoredFacts ==
  ASSUME SourceTypeOK, FilterTypeOK, FilterInv, TrafficFits
  PROVE  /\ IndexBeat \in Nat /\ IndexBeat >= 1
         /\ Stored \in Nat
         /\ stateBuffer # "Idle" => Stored <= frame.len
         /\ stateBuffer = "Evaluate" /\ IsLast => beat < IndexBeat
<1>1. FilterIndex \in Nat BY IndexAssumption
<1>2. IndexBeat \in Nat /\ IndexBeat >= 1 BY <1>1 DEF IndexBeat, BytesPerWord
<1>3. CASE stateBuffer = "Idle" BY <1>2, <1>3 DEF Stored
<1>4. CASE stateBuffer # "Idle"
  <2>1. beat # 0 BY <1>4 DEF FilterInv
  <2>2. /\ frame.len \in FrameLens /\ frame.len \in Nat /\ beat \in Nat /\ 1 <= beat
        /\ beat <= frame.len
    BY <2>1, FrameFacts
  <2>3. frame.len # IndexBeat BY <2>2 DEF TrafficFits, IndexBeat
  <2>4. CASE stateBuffer \in {"Evaluate", "GoodFrame", "AddHeader"}
    BY <1>2, <2>2, <2>3, <2>4 DEF FilterInv, Stored, IsLast
  <2>5. CASE stateBuffer = "BadFrame" BY <1>2, <2>2, <2>5 DEF FilterInv, Stored
  <2>6. CASE stateBuffer = "FlushFrame"
    <3>1. /\ Stored = ToWords(cntFrame) + 1 /\ Stored <= beat
          /\ cntFrame \in {BytesPerWord * (beat - 1), BytesPerWord * IndexBeat}
      BY <2>6 DEF FilterInv, Stored
    <3>2. cntFrame \in Nat BY <1>2, <2>2, <3>1 DEF BytesPerWord
    <3>. QED BY <1>2, <2>2, <2>6, <3>1, <3>2 DEF ToWords, BytesPerWord
  <2>. QED BY <1>4, <2>4, <2>5, <2>6 DEF FilterTypeOK
<1>. QED BY <1>3, <1>4

(* The clock edge, with the consumer ready and the buffer not full. *)
ReadyCycle(axis) ==
  /\ SourceClock(axis_tready(axis, FilterIndex, TRUE, TRUE), FilterIndex)
  /\ FilterClock(axis, FilterIndex, TRUE, TRUE)
  /\ BufferClock(filter_bus(axis, TRUE, TRUE), TRUE)
  /\ History(axis_tready(axis, FilterIndex, TRUE, TRUE), FilterIndex, TRUE)

(* While the buffer has room and the consumer is ready, every step is such a cycle. *)
LEMMA NextIsReady ==
  ASSUME RxInv, TrafficFits, Next
  PROVE  ~bufferFull /\ \E axis \in Axis : ReadyCycle(axis)
<1>1. Stored \in Nat BY StoredFacts DEF RxInv, RxTypeOK
<1>2. ~bufferFull BY <1>1, Occupancy DEF RxInv
<1>3. (~bufferFull) = TRUE BY <1>2
<1>4. PICK axis \in Axis, deq_ready \in {TRUE, ~MayStall} :
        RxClock(axis, FilterIndex, TRUE, deq_ready)
  BY Zenon DEF Next
<1>5. deq_ready = TRUE BY IndexAssumption, Zenon DEF TrafficFits
<1>6. RxClock(axis, FilterIndex, TRUE, TRUE) BY <1>4, <1>5, Zenon
<1>7. ReadyCycle(axis) BY <1>3, <1>6, Zenon DEF RxClock, ReadyCycle
<1>. QED BY <1>2, <1>7

(* The outputs of the filter in such a cycle. *)
LEMMA FilterOutputs ==
  ASSUME NEW axis
  PROVE  LET bus == filter_bus(axis, TRUE, TRUE) IN
         /\ bus.valid <=> \/ stateBuffer \notin {"Idle", "BadFrame"}
                          \/ stateBuffer = "BadFrame" /\ axis.tlast
         /\ bus.flushFrame <=> stateBuffer = "FlushFrame"
         /\ bus.addHeader <=> stateBuffer = "AddHeader"
         /\ stateBuffer \in {"Evaluate", "GoodFrame"} => bus.tdata = axis.tdata
         /\ stateBuffer \in {"AddHeader", "FlushFrame"} => bus.tdata = Number(cntFrame)
         /\ stateBuffer = "BadFrame" => bus.tdata = Number(0)
  BY Zenon DEF filter_bus

(* What is written in such a cycle. *)
LEMMA BufferEffect ==
  ASSUME NEW axis, ~bufferFull, WriteSide(filter_bus(axis, TRUE, TRUE))
  PROVE  /\ stateBuffer = "Idle" \/ (stateBuffer = "BadFrame" /\ ~axis.tlast) => KeepsBuffer
         /\ stateBuffer \in {"Evaluate", "GoodFrame"} => Puts(axis.tdata)
         /\ stateBuffer = "BadFrame" /\ axis.tlast => Puts(Number(0))
         /\ stateBuffer = "AddHeader" => PutsHeader
         /\ stateBuffer = "FlushFrame" => TakesBack
<1>. DEFINE bus == filter_bus(axis, TRUE, TRUE)
<1>1. /\ bus.valid <=> \/ stateBuffer \notin {"Idle", "BadFrame"}
                       \/ stateBuffer = "BadFrame" /\ axis.tlast
      /\ bus.flushFrame <=> stateBuffer = "FlushFrame"
      /\ bus.addHeader <=> stateBuffer = "AddHeader"
      /\ stateBuffer \in {"Evaluate", "GoodFrame"} => bus.tdata = axis.tdata
      /\ stateBuffer \in {"AddHeader", "FlushFrame"} => bus.tdata = Number(cntFrame)
      /\ stateBuffer = "BadFrame" => bus.tdata = Number(0)
  BY FilterOutputs, Zenon
<1>. HIDE DEF bus
<1>2. Number(cntFrame).val = cntFrame BY DEF Number
<1>3. WriteSide(bus) BY Zenon DEF bus
<1>. QED BY <1>1, <1>2, <1>3, Zenon
         DEF WriteSide, Writes, Address, Flush, KeepsBuffer, Puts, PutsHeader, TakesBack

(* What the source does with a beat that is taken or not. *)
LEMMA SourceEffect ==
  ASSUME NEW axis, SourceTypeOK, beat # 0,
         SourceClock(axis_tready(axis, FilterIndex, TRUE, TRUE), FilterIndex)
  PROVE  LET tready == axis_tready(axis, FilterIndex, TRUE, TRUE) IN
         /\ ~tready => Waits
         /\ tready /\ ~IsLast => GoesOn
         /\ tready /\ IsLast =>
              Between(MinGap) /\ tag' = IF Wanted(FilterIndex) THEN 1 - tag ELSE tag
<1>1. beat <= frame.len /\ beat \in Nat /\ frame.len \in Nat BY FrameFacts
<1>2. ~IsLast => beat < frame.len BY <1>1 DEF IsLast
<1>. QED BY <1>2, Zenon DEF SourceClock, SourceIdle, SourceWaits, SourceAdvances, SourceEnds,
                            sourceVars, Waits, GoesOn

(* When a beat is taken. *)
LEMMA TreadyIs ==
  ASSUME NEW axis
  PROVE  axis_tready(axis, FilterIndex, TRUE, TRUE) <=>
           \/ stateBuffer = "Evaluate" /\ ~TooShort(axis, FilterIndex)
           \/ stateBuffer \in {"GoodFrame", "BadFrame"} /\ ~axis.tlast
           \/ stateBuffer \in {"AddHeader", "FlushFrame"}
  BY DEF axis_tready

(* The index test and the test for a short frame, while a frame is being evaluated. *)
LEMMA EvaluateFacts ==
  ASSUME SourceTypeOK, FilterTypeOK, FilterInv, TrafficFits, NEW axis \in Axis,
         stateBuffer = "Evaluate"
  PROVE  /\ AtIndex(FilterIndex) <=> beat = IndexBeat
         /\ TooShort(axis, FilterIndex) <=> IsLast
<1>1. beat # 0 /\ beat <= IndexBeat /\ cntFrame = BytesPerWord * (beat - 1) BY DEF FilterInv
<1>2. /\ axis.tlast <=> IsLast
      /\ beat \in Nat /\ 1 <= beat /\ IndexBeat \in Nat /\ (IsLast => beat < IndexBeat)
  BY <1>1, BusFacts, FrameFacts, StoredFacts, Zenon
<1>3. FilterIndex \in Nat BY IndexAssumption
<1>4. AtIndex(FilterIndex) <=> beat = IndexBeat
  BY <1>1, <1>2, <1>3 DEF AtIndex, IndexBeat, BytesPerWord
<1>5. beat < IndexBeat => cntFrame < FilterIndex
  BY <1>1, <1>2, <1>3 DEF IndexBeat, BytesPerWord
<1>6. beat # IndexBeat => beat < IndexBeat BY <1>1, <1>2
<1>7. IsLast => beat # IndexBeat BY <1>1, <1>2
<1>. QED BY <1>2, <1>4, <1>5, <1>6, <1>7, Zenon DEF TooShort

(* Every step is a cycle of the kinds above, the registers stay within their widths. *)
LEMMA Control ==
  ASSUME RxInv, TrafficFits, NEW axis \in Axis, ~bufferFull, ReadyCycle(axis)
  PROVE  /\ Cycle
         /\ indexHighLow' = FilterIndex % BytesPerWord
         /\ cntFrame' \in 0 .. 2 ^ CntWidth - 1
         /\ cntBytes' \in 0 .. BytesPerWord
<1>. DEFINE tready == axis_tready(axis, FilterIndex, TRUE, TRUE)
<1>1. /\ SourceTypeOK /\ FilterTypeOK /\ FilterInv
      /\ SourceClock(tready, FilterIndex) /\ FilterClock(axis, FilterIndex, TRUE, TRUE)
      /\ WriteSide(filter_bus(axis, TRUE, TRUE))
  BY Zenon DEF RxInv, RxTypeOK, ReadyCycle, BufferClock
<1>2. /\ tready <=> \/ stateBuffer = "Evaluate" /\ ~TooShort(axis, FilterIndex)
                    \/ stateBuffer \in {"GoodFrame", "BadFrame"} /\ ~axis.tlast
                    \/ stateBuffer \in {"AddHeader", "FlushFrame"}
  BY TreadyIs, Zenon
<1>3. /\ stateBuffer = "Idle" \/ (stateBuffer = "BadFrame" /\ ~axis.tlast) => KeepsBuffer
      /\ stateBuffer \in {"Evaluate", "GoodFrame"} => Puts(axis.tdata)
      /\ stateBuffer = "BadFrame" /\ axis.tlast => Puts(Number(0))
      /\ stateBuffer = "AddHeader" => PutsHeader
      /\ stateBuffer = "FlushFrame" => TakesBack
  BY <1>1, BufferEffect, Zenon
<1>4. ASSUME beat # 0
      PROVE  /\ ~tready => Waits
             /\ tready /\ ~IsLast => GoesOn
             /\ tready /\ IsLast => /\ Between(MinGap)
                                    /\ tag' = IF Wanted(FilterIndex) THEN 1 - tag ELSE tag
             /\ axis.tvalid /\ (axis.tlast <=> IsLast)
             /\ axis.keep = IF IsLast /\ frame.odd THEN 1 ELSE BytesPerWord
             /\ axis.tdata = Beat(tag, beat) /\ axis.hits = Hits
             /\ frame.len \in FrameLens /\ frame.len \in Nat /\ frame.len >= 2
             /\ frame.mark \in Nat /\ frame.mark <= BytesPerWord * frame.len
             /\ beat \in Nat /\ 1 <= beat /\ beat <= frame.len
  BY <1>1, <1>4, SourceEffect, BusFacts, FrameFacts, Zenon
<1>5. axis.keep \in 1 .. BytesPerWord
  <2>1. CASE beat = 0 BY <2>1 DEF Axis
  <2>2. CASE beat # 0 BY <1>4, <2>2 DEF BytesPerWord
  <2>. QED BY <2>1, <2>2
<1>6. /\ IndexBeat \in Nat /\ IndexBeat >= 1
      /\ stateBuffer = "Evaluate" /\ IsLast => beat < IndexBeat
  BY <1>1, StoredFacts, Zenon
<1>. HIDE DEF tready
<1>7. indexHighLow' = FilterIndex % BytesPerWord /\ cntBytes' = axis.keep
  BY <1>1, Zenon DEF FilterClock
<1>8. cntFrame' \in 0 .. 2 ^ CntWidth - 1
  <2>1. \/ cntFrame' = 0 \/ cntFrame' = cntFrame
        \/ cntFrame' = (cntFrame + cntBytes) % 2 ^ CntWidth
    BY <1>1, Zenon
       DEF FilterClock, BufferIdle, BufferEvaluate, BufferGoodFrame, BufferAddHeader,
           BufferBadFrame, BufferFlushFrame, Count
  <2>2. 2 ^ CntWidth \in Nat \ {0} /\ cntFrame + cntBytes \in Nat
    BY <1>1, WidthAssumption DEF FilterTypeOK
  <2>. QED BY <1>1, <2>1, <2>2 DEF FilterTypeOK
<1>. SUFFICES Cycle BY <1>5, <1>7, <1>8 DEF BytesPerWord
<1>15. ASSUME beat # 0, ~IsLast, cntFrame = BytesPerWord * (beat - 1), cntBytes = BytesPerWord,
              Count(axis, TRUE)
       PROVE  Counts
  <2>1. axis.keep = BytesPerWord /\ axis.tvalid BY <1>4, <1>15
  <2>2. frame.len \in FrameLens /\ beat \in Nat /\ frame.len \in Nat /\ beat <= frame.len - 1
    BY <1>4, <1>15 DEF IsLast
  <2>3. BytesPerWord * (frame.len - 1) < 2 ^ CntWidth BY <2>2 DEF TrafficFits
  <2>4. cntFrame + cntBytes = BytesPerWord * beat BY <1>15, <2>2 DEF BytesPerWord
  <2>5. BytesPerWord * beat \in 0 .. 2 ^ CntWidth - 1
    BY <2>2, <2>3, WidthAssumption DEF BytesPerWord
  <2>6. (cntFrame + cntBytes) % 2 ^ CntWidth = BytesPerWord * beat
    BY <2>4, <2>5, ModSmall, WidthAssumption, Zenon
  <2>7. cntFrame' = BytesPerWord * beat BY <1>15, <2>1, <2>6, Zenon DEF Count
  <2>. QED BY <1>7, <2>1, <2>7, Zenon DEF Counts
<1>9. CASE stateBuffer = "Idle"
  <2>1. cntFrame' = 0 /\ stateBuffer' = (IF axis.tvalid THEN "Evaluate" ELSE "Idle") /\ ~tready
    BY <1>1, <1>2, <1>9
       DEF FilterClock, BufferIdle, BufferEvaluate, BufferGoodFrame, BufferAddHeader,
           BufferBadFrame, BufferFlushFrame
  <2>2. CASE beat = 0
    <3>1. ~axis.tvalid BY <2>2, Zenon DEF Axis
    <3>3. stateBuffer' = "Idle" /\ KeepsBuffer BY <1>3, <1>9, <2>1, <3>1
    <3>2. Between(gap) /\ tag' = tag
      BY <1>1, <2>2, Zenon DEF SourceClock, SourceIdle, SourceWaits, SourceAdvances, SourceEnds
    <3>. QED BY <1>9, <2>2, <3>2, <3>3, Zenon DEF Cycle, Unstored, IdleCycle
  <2>3. CASE beat # 0
    <3>1. beat = 1 BY <1>1, <1>9, <2>3, Zenon DEF FilterInv
    <3>2. axis.keep = BytesPerWord BY <1>4, <2>3, <3>1 DEF IsLast
    <3>3. stateBuffer' = "Evaluate" /\ cntBytes' = BytesPerWord BY <1>4, <1>7, <2>1, <2>3, <3>2
    <3>4. KeepsBuffer /\ Waits BY <1>3, <1>4, <1>9, <2>1, <2>3, Zenon
    <3>. QED BY <1>9, <2>1, <3>1, <3>3, <3>4, Zenon DEF Cycle, Unstored, FirstCycle
  <2>. QED BY <2>2, <2>3
<1>10. CASE stateBuffer = "Evaluate"
  <2>1. beat # 0 /\ beat <= IndexBeat /\ cntFrame = BytesPerWord * (beat - 1)
        /\ cntBytes = BytesPerWord /\ indexHighLow = FilterIndex % BytesPerWord
    BY <1>1, <1>10 DEF FilterInv
  <2>2. BufferEvaluate(axis, FilterIndex, TRUE)
    BY <1>1, <1>10, Zenon
       DEF FilterClock, BufferIdle, BufferEvaluate, BufferGoodFrame, BufferAddHeader,
           BufferBadFrame, BufferFlushFrame
  <2>4. /\ AtIndex(FilterIndex) <=> beat = IndexBeat
        /\ TooShort(axis, FilterIndex) <=> IsLast
    BY <1>1, <1>10, EvaluateFacts
  <2>7. beat = IndexBeat => (indexHighLow \in axis.hits <=> Wanted(FilterIndex))
    <3>1. \A k \in 0 .. BytesPerWord - 1 :
            k \in Hits <=> frame.mark = BytesPerWord * (beat - 1) + k + 1
      BY DEF Hits
    <3>2. /\ FilterIndex % BytesPerWord \in 0 .. BytesPerWord - 1
          /\ BytesPerWord * (IndexBeat - 1) + (FilterIndex % BytesPerWord) + 1 = FilterIndex + 1
      BY IndexSplit
    <3>3. beat = IndexBeat =>
            BytesPerWord * (beat - 1) + (FilterIndex % BytesPerWord) + 1 = FilterIndex + 1
      BY <3>2, Zenon
    <3>. QED BY <1>4, <2>1, <3>1, <3>2, <3>3, Zenon DEF Wanted
  <2>9. Puts(Beat(tag, beat)) BY <1>3, <1>4, <1>10, <2>1
  <2>10. tready <=> ~IsLast BY <1>2, <1>10, <2>4
  <2>11. CASE IsLast
    <3>1. beat < IndexBeat /\ Waits BY <1>4, <1>6, <1>10, <2>1, <2>10, <2>11
    <3>2. stateBuffer' = "FlushFrame" /\ UNCHANGED cntFrame
      <4>1. ~AtIndex(FilterIndex) BY <1>4, <1>6, <2>1, <2>4, <3>1
      <4>. QED BY <2>2, <2>4, <2>11, <4>1, Zenon DEF BufferEvaluate
    <3>. QED BY <1>10, <2>9, <2>11, <3>1, <3>2, Zenon DEF Cycle, StoredBeat, EndsTooShort
  <2>12. CASE ~IsLast
    <3>1. GoesOn BY <1>4, <2>1, <2>10, <2>12
    <3>2. CASE beat = IndexBeat
      <4>1. Counts /\ stateBuffer' = IF Wanted(FilterIndex) THEN "GoodFrame" ELSE "BadFrame"
        BY <2>2, <2>4, <1>15, <2>1, <2>7, <2>12, <3>2, Zenon DEF BufferEvaluate
      <4>. QED BY <1>10, <2>9, <3>1, <3>2, <4>1, Zenon DEF Cycle, StoredBeat, AtIndexBeat
    <3>3. CASE beat # IndexBeat
      <4>1. Counts /\ stateBuffer' = "Evaluate"
        BY <1>10, <2>2, <2>4, <1>15, <2>1, <2>4, <2>12, <3>3, Zenon DEF BufferEvaluate
      <4>2. beat < IndexBeat BY <1>4, <1>6, <2>1, <3>3
      <4>. QED BY <1>10, <2>9, <3>1, <4>1, <4>2, Zenon DEF Cycle, StoredBeat, BeforeIndex
    <3>. QED BY <3>2, <3>3
  <2>. QED BY <2>11, <2>12
<1>11. CASE stateBuffer = "GoodFrame"
  <2>1. beat # 0 /\ cntFrame = BytesPerWord * (beat - 1) /\ cntBytes = BytesPerWord
    BY <1>1, <1>11 DEF FilterInv
  <2>2. BufferGoodFrame(axis, TRUE)
    BY <1>1, <1>11, Zenon DEF FilterClock, BufferIdle, BufferEvaluate, BufferGoodFrame,
                              BufferAddHeader, BufferBadFrame, BufferFlushFrame
  <2>3. Puts(Beat(tag, beat)) BY <1>3, <1>4, <1>11, <2>1
  <2>4. tready <=> ~IsLast BY <1>2, <1>4, <1>11, <2>1
  <2>5. CASE IsLast
    BY <1>4, <1>11, <2>1, <2>2, <2>3, <2>4, <2>5, Zenon
       DEF BufferGoodFrame, Cycle, StoredBeat, GoodEnds
  <2>6. CASE ~IsLast
    BY <1>4, <1>11, <1>15, <2>1, <2>2, <2>3, <2>4, <2>6, Zenon
       DEF BufferGoodFrame, Cycle, StoredBeat, GoodGoesOn
  <2>. QED BY <2>5, <2>6
<1>12. CASE stateBuffer = "AddHeader"
  <2>1. beat # 0 /\ IsLast /\ Wanted(FilterIndex) BY <1>1, <1>12 DEF FilterInv
  <2>2. BufferAddHeader(axis, TRUE)
    BY <1>1, <1>12, Zenon DEF FilterClock, BufferIdle, BufferEvaluate, BufferGoodFrame,
                              BufferAddHeader, BufferBadFrame, BufferFlushFrame
  <2>. QED BY <1>2, <1>3, <1>4, <1>12, <2>1, <2>2, Zenon DEF BufferAddHeader, Cycle, HeaderCycle
<1>13. CASE stateBuffer = "BadFrame"
  <2>1. beat # 0 BY <1>1, <1>13 DEF FilterInv
  <2>2. BufferBadFrame(axis)
    BY <1>1, <1>13, Zenon DEF FilterClock, BufferIdle, BufferEvaluate, BufferGoodFrame,
                              BufferAddHeader, BufferBadFrame, BufferFlushFrame
  <2>3. tready <=> ~IsLast BY <1>2, <1>4, <1>13, <2>1
  <2>4. CASE IsLast
    BY <1>3, <1>4, <1>13, <2>1, <2>2, <2>3, <2>4, Zenon DEF BufferBadFrame, Cycle, BadEnds
  <2>5. CASE ~IsLast
    BY <1>3, <1>4, <1>13, <2>1, <2>2, <2>3, <2>5, Zenon
       DEF BufferBadFrame, Cycle, Unstored, BadGoesOn
  <2>. QED BY <2>4, <2>5
<1>14. CASE stateBuffer = "FlushFrame"
  <2>1. beat # 0 /\ IsLast /\ ~Wanted(FilterIndex) BY <1>1, <1>14 DEF FilterInv
  <2>2. BufferFlushFrame
    BY <1>1, <1>14, Zenon DEF FilterClock, BufferIdle, BufferEvaluate, BufferGoodFrame,
                              BufferAddHeader, BufferBadFrame, BufferFlushFrame
  <2>. QED BY <1>2, <1>3, <1>4, <1>14, <2>1, <2>2, Zenon DEF BufferFlushFrame, Cycle, FlushCycle
<1>. QED BY <1>1, <1>9, <1>10, <1>11, <1>12, <1>13, <1>14 DEF FilterTypeOK

(* The source between two frames. *)
LEMMA BetweenFacts ==
  ASSUME NEW g \in 0 .. MinGap, Between(g), tag' \in {0, 1}
  PROVE  /\ SourceTypeOK' /\ beat' \in {0, 1}
         /\ beat' = 0 => g = 0 \/ gap' = g - 1
         /\ beat' = 1 => g = 0 /\ gap' = 0 /\ frame' \in Frames
<1>1. MinGap \in Nat BY SourceAssumption
<1>2. ASSUME NEW fr \in Frames PROVE fr.len \in Nat /\ fr.len >= 2 /\ fr # NoFrame
  <2>1. fr \in [len : FrameLens, odd : Odd, mark : Marks] BY Zenon DEF Frames
  <2>2. fr.len \in FrameLens BY <2>1
  <2>3. fr.len \in Nat \ {0, 1} BY <2>2, SourceAssumption, Zenon
  <2>4. fr.len \in Nat /\ fr.len >= 2 BY <2>3
  <2>5. NoFrame.len = 0 BY DEF NoFrame
  <2>. QED BY <2>4, <2>5
<1>3. CASE frame' \in Frames /\ beat' = 1
  <2>1. g = 0 /\ gap' = 0 BY <1>3 DEF Between
  <2>2. frame'.len \in Nat /\ frame'.len >= 2 /\ frame' # NoFrame BY <1>2, <1>3
  <2>3. NoFrame' = NoFrame /\ Frames' = Frames BY DEF NoFrame, Frames
  <2>4. beat' \in 0 .. frame'.len /\ gap' \in 0 .. MinGap BY <1>1, <1>3, <2>1, <2>2
  <2>5. SourceTypeOK' BY <1>3, <2>2, <2>3, <2>4 DEF SourceTypeOK
  <2>. QED BY <1>3, <2>1, <2>5
<1>4. CASE frame' = NoFrame /\ beat' = 0
  <2>1. frame'.len = 0 BY <1>4 DEF NoFrame
  <2>2. gap' \in 0 .. MinGap /\ (g = 0 \/ gap' = g - 1) BY <1>1 DEF Between
  <2>3. NoFrame' = NoFrame /\ Frames' = Frames BY DEF NoFrame, Frames
  <2>4. SourceTypeOK' BY <1>4, <2>1, <2>2, <2>3 DEF SourceTypeOK
  <2>. QED BY <1>4, <2>2, <2>4
<1>. QED BY <1>3, <1>4, Zenon DEF Between

(* A cycle keeps the bus in its protocol, and the filter in step with it. *)
LEMMA CycleKeepsFilter ==
  ASSUME SourceTypeOK, FilterTypeOK, FilterInv, TrafficFits, Cycle,
         indexHighLow' = FilterIndex % BytesPerWord,
         cntFrame' \in 0 .. 2 ^ CntWidth - 1,
         cntBytes' \in 0 .. BytesPerWord
  PROVE  SourceTypeOK' /\ FilterTypeOK' /\ FilterInv'
<1>1. /\ IndexBeat \in Nat /\ IndexBeat >= 1
      /\ FilterIndex % BytesPerWord \in 0 .. BytesPerWord - 1
  BY StoredFacts, IndexSplit, Zenon
<1>2. FilterTypeOK'
  BY <1>1
     DEF FilterTypeOK, Cycle, Unstored, StoredBeat, IdleCycle, FirstCycle, BeforeIndex,
         AtIndexBeat, EndsTooShort, GoodGoesOn, GoodEnds, HeaderCycle, BadGoesOn, BadEnds,
         FlushCycle
<1>3. beat # 0 => /\ frame.len \in FrameLens /\ frame.len \in Nat /\ frame.len >= 2
                  /\ frame.mark \in Nat /\ frame.mark <= BytesPerWord * frame.len
                  /\ beat \in Nat /\ 1 <= beat /\ beat <= frame.len
  BY FrameFacts
<1>4. ASSUME Waits
      PROVE  SourceTypeOK' /\ (Wanted(FilterIndex)' <=> Wanted(FilterIndex)) /\ (IsLast' <=> IsLast)
  BY <1>4 DEF Waits, SourceTypeOK, Wanted, IsLast, Frames, NoFrame
<1>5. ASSUME GoesOn, beat # 0
      PROVE  SourceTypeOK' /\ (Wanted(FilterIndex)' <=> Wanted(FilterIndex))
  BY <1>3, <1>5 DEF GoesOn, SourceTypeOK, Wanted, Frames, NoFrame
<1>6. CASE IdleCycle \/ HeaderCycle \/ FlushCycle
  <2>1. PICK g \in 0 .. MinGap : Between(g)
    BY <1>6, SourceAssumption DEF IdleCycle, HeaderCycle, FlushCycle, SourceTypeOK
  <2>2. tag' \in {0, 1} BY <1>6 DEF IdleCycle, HeaderCycle, FlushCycle, SourceTypeOK
  <2>3. SourceTypeOK' /\ beat' \in {0, 1} BY <2>1, <2>2, BetweenFacts
  <2>4. stateBuffer' = "Idle" BY <1>6 DEF IdleCycle, HeaderCycle, FlushCycle
  <2>. QED BY <1>2, <2>3, <2>4 DEF FilterInv
<1>15. IndexBeat' = IndexBeat BY DEF IndexBeat
<1>7. CASE FirstCycle
  BY <1>1, <1>2, <1>4, <1>7, <1>15 DEF FirstCycle, Waits, FilterInv, BytesPerWord
<1>8. CASE BeforeIndex
  <2>1. /\ beat # 0 /\ stateBuffer' = "Evaluate" /\ GoesOn /\ Counts /\ beat < IndexBeat
        /\ SourceTypeOK'
    BY <1>5, <1>8 DEF BeforeIndex, FilterInv
  <2>2. beat' = beat + 1 /\ beat' # 0 /\ beat' <= IndexBeat BY <1>1, <1>3, <2>1 DEF GoesOn
  <2>3. cntFrame' = BytesPerWord * (beat' - 1) /\ cntBytes' = BytesPerWord
    BY <1>3, <2>1, <2>2 DEF Counts
  <2>. QED BY <1>2, <1>15, <2>1, <2>2, <2>3 DEF FilterInv
<1>9. CASE AtIndexBeat
  <2>1. /\ beat # 0 /\ GoesOn /\ Counts /\ beat = IndexBeat /\ SourceTypeOK'
        /\ stateBuffer' = IF Wanted(FilterIndex)' THEN "GoodFrame" ELSE "BadFrame"
    BY <1>5, <1>9 DEF AtIndexBeat, FilterInv
  <2>2. beat' = beat + 1 /\ beat' # 0 /\ beat' > IndexBeat BY <1>1, <1>3, <2>1 DEF GoesOn
  <2>3. /\ cntFrame' = BytesPerWord * (beat' - 1) /\ cntFrame' = BytesPerWord * IndexBeat
        /\ cntBytes' = BytesPerWord
    BY <1>3, <2>1, <2>2 DEF Counts
  <2>. QED BY <1>2, <1>15, <2>1, <2>2, <2>3 DEF FilterInv
<1>10. CASE EndsTooShort
  <2>1. /\ beat # 0 /\ Waits /\ IsLast /\ beat < IndexBeat /\ cntFrame' = cntFrame
        /\ stateBuffer' = "FlushFrame" /\ cntFrame = BytesPerWord * (beat - 1)
    BY <1>10 DEF EndsTooShort, FilterInv
  <2>2. ~Wanted(FilterIndex)
    <3>1. frame.mark <= BytesPerWord * (IndexBeat - 1)
      BY <1>1, <1>3, <2>1 DEF IsLast, BytesPerWord
    <3>2. BytesPerWord * (IndexBeat - 1) <= FilterIndex
      BY <1>1, IndexSplit, IndexAssumption DEF BytesPerWord
    <3>. QED BY <1>1, <1>3, <2>1, <3>1, <3>2, IndexAssumption DEF Wanted, BytesPerWord
  <2>3. ToWords(cntFrame) + 1 <= beat BY <1>3, <2>1 DEF ToWords, BytesPerWord
  <2>4. beat' = beat /\ SourceTypeOK' /\ ~Wanted(FilterIndex)' /\ IsLast'
    BY <1>4, <2>1, <2>2 DEF Waits
  <2>. QED BY <1>2, <1>15, <2>1, <2>3, <2>4 DEF FilterInv, ToWords
<1>11. CASE GoodGoesOn
  <2>1. /\ beat # 0 /\ GoesOn /\ Counts /\ beat > IndexBeat /\ SourceTypeOK'
        /\ stateBuffer' = "GoodFrame" /\ Wanted(FilterIndex)'
    BY <1>5, <1>11 DEF GoodGoesOn, FilterInv
  <2>2. beat' = beat + 1 /\ beat' # 0 /\ beat' > IndexBeat BY <1>1, <1>3, <2>1 DEF GoesOn
  <2>3. cntFrame' = BytesPerWord * (beat' - 1) /\ cntBytes' = BytesPerWord
    BY <1>3, <2>1, <2>2 DEF Counts
  <2>. QED BY <1>2, <1>15, <2>1, <2>2, <2>3 DEF FilterInv
<1>12. CASE GoodEnds
  BY <1>2, <1>4, <1>12, <1>15 DEF GoodEnds, Waits, FilterInv
<1>13. CASE BadGoesOn
  <2>1. /\ beat # 0 /\ GoesOn /\ beat > IndexBeat /\ SourceTypeOK'
        /\ cntFrame' = BytesPerWord * IndexBeat
        /\ stateBuffer' = "BadFrame" /\ ~Wanted(FilterIndex)'
    BY <1>5, <1>13 DEF BadGoesOn, FilterInv
  <2>2. beat' # 0 /\ beat' > IndexBeat BY <1>1, <1>3, <2>1 DEF GoesOn
  <2>. QED BY <1>2, <1>15, <2>1, <2>2 DEF FilterInv
<1>14. CASE BadEnds
  <2>1. /\ beat # 0 /\ Waits /\ IsLast /\ beat > IndexBeat /\ cntFrame' = cntFrame
        /\ stateBuffer' = "FlushFrame" /\ cntFrame = BytesPerWord * IndexBeat
        /\ ~Wanted(FilterIndex)
    BY <1>14 DEF BadEnds, FilterInv
  <2>2. ToWords(cntFrame) + 1 <= beat BY <1>1, <1>3, <2>1 DEF ToWords, BytesPerWord
  <2>3. beat' = beat /\ SourceTypeOK' /\ ~Wanted(FilterIndex)' /\ IsLast'
    BY <1>4, <2>1 DEF Waits
  <2>. QED BY <1>2, <1>15, <2>1, <2>2, <2>3 DEF FilterInv, ToWords
<1>. QED BY <1>6, <1>7, <1>8, <1>9, <1>10, <1>11, <1>12, <1>13, <1>14, Zenon
         DEF Cycle, Unstored, StoredBeat

-----------------------------------------------------------------------------
(* The side that reads. *)

Rests ==
  /\ ~readFrom /\ UNCHANGED <<tail, counter, out>>
  /\ readFrom' = (stateBuffer = "AddHeader")
  /\ readValue' = IF stateBuffer = "AddHeader" THEN ToWords(cntFrame) ELSE readValue
  /\ pending' = IF stateBuffer = "AddHeader" THEN FrameWords(tag, frame.len) ELSE << >>
HandsOn ==
  /\ readFrom /\ stateBuffer # "AddHeader"
  /\ tail' = (tail + 1) % Size
  /\ out' = [word |-> mem[tail], turn |-> 1 - out.turn]
  /\ pending' = Tail(pending)
  /\ IF counter = readValue + 1
     THEN readFrom' = FALSE /\ readValue' = 0 /\ counter' = 0
     ELSE readFrom' = TRUE /\ readValue' = readValue /\ counter' = (counter + 1) % Size

(* A wanted frame is complete in the cycle of its header. *)
LEMMA ArrivedIs ==
  ASSUME SourceTypeOK, FilterTypeOK, FilterInv, TrafficFits, NEW axis \in Axis
  PROVE  Arrived(axis_tready(axis, FilterIndex, TRUE, TRUE), FilterIndex)
           = IF stateBuffer = "AddHeader" THEN FrameWords(tag, frame.len) ELSE << >>
<1>. DEFINE tready == axis_tready(axis, FilterIndex, TRUE, TRUE)
<1>1. tready <=> \/ stateBuffer = "Evaluate" /\ ~TooShort(axis, FilterIndex)
                 \/ stateBuffer \in {"GoodFrame", "BadFrame"} /\ ~axis.tlast
                 \/ stateBuffer \in {"AddHeader", "FlushFrame"}
  BY TreadyIs, Zenon
<1>. HIDE DEF tready
<1>2. beat # 0 => (axis.tlast <=> IsLast) BY BusFacts
<1>3. stateBuffer = "Evaluate" => (TooShort(axis, FilterIndex) <=> IsLast) BY EvaluateFacts
<1>4. beat # 0 /\ tready /\ IsLast /\ Wanted(FilterIndex) <=> stateBuffer = "AddHeader"
  BY <1>1, <1>2, <1>3 DEF FilterInv, FilterTypeOK
<1>5. Arrived(tready, FilterIndex)
        = IF stateBuffer = "AddHeader" THEN FrameWords(tag, frame.len) ELSE << >>
  BY <1>4, Zenon DEF Arrived
<1>. QED BY <1>5, Zenon DEF tready

(* The words of a frame: its header, then its beats. *)
LEMMA FrameWordsFacts ==
  ASSUME NEW t \in {0, 1}, NEW n \in Nat \ {0}
  PROVE  /\ FrameWords(t, n) \in Seq(Word)
         /\ Len(FrameWords(t, n)) = n + 1
         /\ FrameWords(t, n)[1] = HeaderOf(n)
         /\ \A k \in 1 .. n : FrameWords(t, n)[k + 1] = Beat(t, k)
<1>. DEFINE beats == [k \in 1 .. n |-> Beat(t, k)]
<1>1. \A k \in 1 .. n : Beat(t, k) \in Word BY DEF Beat, Word
<1>2. beats \in Seq(Word) /\ Len(beats) = n BY <1>1
<1>3. BytesPerWord * (n - 1) \in Nat BY DEF BytesPerWord
<1>4. HeaderOf(n) \in Word BY <1>3 DEF HeaderOf, Number, Word
<1>5. <<HeaderOf(n)>> \in Seq(Word) /\ Len(<<HeaderOf(n)>>) = 1 BY <1>4
<1>. HIDE DEF beats
<1>6. FrameWords(t, n) = <<HeaderOf(n)>> \o beats BY DEF FrameWords, beats
<1>7. FrameWords(t, n) \in Seq(Word) /\ Len(FrameWords(t, n)) = n + 1 BY <1>2, <1>5, <1>6
<1>8. FrameWords(t, n)[1] = HeaderOf(n) BY <1>2, <1>5, <1>6
<1>9. ASSUME NEW k \in 1 .. n PROVE FrameWords(t, n)[k + 1] = Beat(t, k)
  <2>1. FrameWords(t, n)[k + 1] = beats[k] BY <1>2, <1>5, <1>6
  <2>. QED BY <2>1 DEF beats
<1>. QED BY <1>7, <1>8, <1>9

(* Every step rests or hands on a word. *)
LEMMA Reading ==
  ASSUME RxInv, TrafficFits, NEW axis \in Axis, ReadyCycle(axis)
  PROVE  Rests \/ HandsOn
<1>. DEFINE bus == filter_bus(axis, TRUE, TRUE)
            tready == axis_tready(axis, FilterIndex, TRUE, TRUE)
            arrived == IF stateBuffer = "AddHeader" THEN FrameWords(tag, frame.len) ELSE << >>
<1>1. /\ SourceTypeOK /\ FilterTypeOK /\ FilterInv /\ ContentsInv /\ ReadInv /\ PaceInv
      /\ RxTypeOK
      /\ EndRead(TRUE) \/ ContinueRead(bus, TRUE)
      /\ History(tready, FilterIndex, TRUE)
  BY Zenon DEF RxInv, RxTypeOK, ReadyCycle, BufferClock
<1>2. /\ bus.addHeader <=> stateBuffer = "AddHeader"
      /\ stateBuffer = "AddHeader" => bus.tdata = Number(cntFrame)
  BY FilterOutputs, Zenon
<1>3. Arrived(tready, FilterIndex) = arrived BY <1>1, ArrivedIs, Zenon
<1>4. deq_valid(TRUE) <=> readFrom BY DEF deq_valid
<1>. HIDE DEF bus, tready
<1>5. Number(cntFrame).val = cntFrame BY DEF Number
<1>6. CASE ~readFrom
  <2>1. ~Reads(TRUE) /\ pending = << >> BY <1>1, <1>6 DEF Reads, ReadInv
  <2>2. ContinueRead(bus, TRUE) BY <1>1, <2>1, Zenon DEF EndRead
  <2>3. /\ UNCHANGED <<tail, counter>> /\ readFrom' = (stateBuffer = "AddHeader")
        /\ readValue' = IF stateBuffer = "AddHeader" THEN ToWords(cntFrame) ELSE readValue
    BY <1>2, <1>5, <1>6, <2>1, <2>2, Zenon DEF ContinueRead
  <2>4. UNCHANGED out /\ pending' = pending \o arrived
    BY <1>1, <1>3, <1>4, <1>6, Zenon DEF History, HandedOn
  <2>5. arrived \in Seq(Word)
    <3>1. CASE stateBuffer = "AddHeader"
      <4>1. tag \in {0, 1} /\ frame.len \in Nat \ {0}
        BY <1>1, <3>1, FrameFacts DEF SourceTypeOK, FilterInv
      <4>. QED BY <3>1, <4>1, FrameWordsFacts
    <3>. QED BY <3>1
  <2>6. pending' = arrived BY <2>1, <2>4, <2>5
  <2>. QED BY <1>6, <2>3, <2>4, <2>6, Zenon DEF Rests
<1>7. CASE readFrom
  <2>1. stateBuffer # "AddHeader" BY <1>1, <1>7, Zenon DEF PaceInv, FilterInv
  <2>2. /\ pending \in Seq(Word) /\ Len(pending) >= 1 /\ readValue # 0
        /\ counter \in Nat /\ readValue \in Nat
    <3>1. pending \in Seq(Word) BY <1>1 DEF ContentsInv
    <3>2. counter \in Nat /\ readValue \in Nat BY <1>1 DEF RxTypeOK, BufferTypeOK
    <3>3. readValue + 1 \in Nat \ {0, 1} BY <1>1, <1>7, SourceAssumption, Zenon DEF ReadInv
    <3>4. Len(pending) = readValue + 2 - counter /\ counter <= readValue + 1
      BY <1>1, <1>7 DEF ReadInv
    <3>. QED BY <3>1, <3>2, <3>3, <3>4
  <2>3. ~bufferEmpty
    <3>1. Stored \in Nat BY <1>1, StoredFacts
    <3>2. bufferLength = Len(pending) + Stored BY <1>1, <3>1, Occupancy
    <3>. QED BY <2>2, <3>1, <3>2 DEF bufferEmpty
  <2>4. Reads(TRUE) BY <1>7, <2>3 DEF Reads
  <2>5. LastWord <=> counter = readValue + 1 BY <2>2 DEF LastWord
  <2>6. pending' = Tail(pending) /\ out' = [word |-> mem[tail], turn |-> 1 - out.turn]
    <3>1. out' = [word |-> mem[tail], turn |-> 1 - out.turn]
      BY <1>1, <1>4, <1>7, <2>4, Zenon DEF History, HandedOn, deq_bits
    <3>2. pending # << >> BY <2>2
    <3>3. pending' = Tail(pending) \o << >>
      BY <1>1, <1>3, <1>4, <1>7, <2>1, <3>2, Zenon DEF History
    <3>4. Tail(pending) \in Seq(Word) BY <2>2, <3>2
    <3>. QED BY <3>1, <3>3, <3>4
  <2>7. CASE LastWord
    <3>1. EndRead(TRUE) BY <1>1, <2>4, <2>7, Zenon DEF ContinueRead
    <3>. QED BY <1>7, <2>1, <2>5, <2>6, <2>7, <3>1, Zenon DEF EndRead, HandsOn
  <2>8. CASE ~LastWord
    <3>1. ContinueRead(bus, TRUE) BY <1>1, <2>8, Zenon DEF EndRead
    <3>2. readFrom' = TRUE /\ readValue' = readValue
      BY <1>2, <1>7, <2>1, <2>3, <3>1, Zenon DEF ContinueRead
    <3>. QED BY <1>7, <2>1, <2>4, <2>5, <2>6, <2>8, <3>1, <3>2, Zenon DEF ContinueRead, HandsOn
  <2>. QED BY <2>7, <2>8
<1>. QED BY <1>6, <1>7

-----------------------------------------------------------------------------
(* The contents of the buffer. *)

(* How the number of words of the frame on the bus changes. *)
LEMMA StoredMoves ==
  ASSUME SourceTypeOK, FilterTypeOK, FilterInv, TrafficFits, Cycle
  PROVE  /\ Unstored => /\ Stored' = Stored
                        /\ stateBuffer' \in {"Evaluate", "GoodFrame", "AddHeader"} => Stored = 0
         /\ StoredBeat => /\ Stored = beat - 1 /\ tag' = tag
                          /\ stateBuffer \in {"Evaluate", "GoodFrame", "AddHeader"}
         /\ BadEnds => stateBuffer' = "FlushFrame"
         /\ StoredBeat \/ BadEnds => Stored' = Stored + 1 /\ Stored + 1 <= frame.len
         /\ HeaderCycle \/ FlushCycle => Stored' = 0 /\ stateBuffer' = "Idle"
         /\ HeaderCycle => /\ stateBuffer = "AddHeader" /\ Stored = frame.len
                           /\ cntFrame = BytesPerWord * (frame.len - 1)
                           /\ Stored = ToWords(cntFrame) + 1
         /\ FlushCycle => Stored = ToWords(cntFrame) + 1
<1>1. IndexBeat \in Nat /\ IndexBeat >= 1 /\ IndexBeat' = IndexBeat
  <2>1. IndexBeat' = IndexBeat BY DEF IndexBeat
  <2>. QED BY <2>1, StoredFacts, Zenon
<1>2. stateBuffer # "Idle" => /\ beat # 0 /\ frame.len \in Nat /\ beat \in Nat
                              /\ 1 <= beat /\ beat <= frame.len
  <2>1. stateBuffer # "Idle" => beat # 0 BY DEF FilterInv
  <2>. QED BY <2>1, FrameFacts, Zenon
<1>3. \A n \in Nat : ToWords(BytesPerWord * n) = n BY DEF ToWords, BytesPerWord
<1>4. ToWords(cntFrame)' = ToWords(cntFrame') BY DEF ToWords
<1>5. ASSUME Unstored
      PROVE  /\ Stored' = Stored
             /\ stateBuffer' \in {"Evaluate", "GoodFrame", "AddHeader"} => Stored = 0
  BY <1>1, <1>2, <1>5 DEF Unstored, IdleCycle, FirstCycle, BadGoesOn, Stored, Waits
<1>6. ASSUME StoredBeat
      PROVE  /\ Stored = beat - 1 /\ tag' = tag
             /\ stateBuffer \in {"Evaluate", "GoodFrame", "AddHeader"}
             /\ Stored' = Stored + 1 /\ Stored + 1 <= frame.len
  <2>1. /\ stateBuffer \in {"Evaluate", "GoodFrame"} /\ Stored = beat - 1 /\ tag' = tag
        /\ beat \in Nat /\ 1 <= beat /\ beat <= frame.len
    BY <1>2, <1>6 DEF StoredBeat, BeforeIndex, AtIndexBeat, EndsTooShort, GoodGoesOn, GoodEnds,
                      Stored, GoesOn, Waits
  <2>2. CASE BeforeIndex \/ AtIndexBeat \/ GoodGoesOn
    BY <1>1, <2>1, <2>2 DEF BeforeIndex, AtIndexBeat, GoodGoesOn, GoesOn, Stored
  <2>3. CASE EndsTooShort
    <3>1. cntFrame' = BytesPerWord * (beat - 1) /\ stateBuffer' = "FlushFrame"
      BY <2>3 DEF EndsTooShort, FilterInv
    <3>2. Stored' = beat BY <1>3, <1>4, <2>1, <3>1 DEF Stored
    <3>. QED BY <2>1, <3>2
  <2>4. CASE GoodEnds BY <2>1, <2>4 DEF GoodEnds, Waits, Stored
  <2>. QED BY <1>6, <2>2, <2>3, <2>4 DEF StoredBeat
<1>7. ASSUME BadEnds
      PROVE  stateBuffer' = "FlushFrame" /\ Stored' = Stored + 1 /\ Stored + 1 <= frame.len
  <2>1. /\ cntFrame' = BytesPerWord * IndexBeat /\ stateBuffer' = "FlushFrame"
        /\ stateBuffer = "BadFrame" /\ beat > IndexBeat
    BY <1>7 DEF BadEnds, FilterInv
  <2>2. Stored' = IndexBeat + 1 /\ Stored = IndexBeat BY <1>1, <1>3, <1>4, <2>1 DEF Stored
  <2>. QED BY <1>1, <1>2, <2>1, <2>2
<1>8. ASSUME HeaderCycle
      PROVE  /\ stateBuffer = "AddHeader" /\ Stored = frame.len
             /\ cntFrame = BytesPerWord * (frame.len - 1)
             /\ Stored = ToWords(cntFrame) + 1
  <2>1. /\ stateBuffer = "AddHeader" /\ beat = frame.len /\ Stored = beat
        /\ cntFrame = BytesPerWord * (beat - 1)
    BY <1>8 DEF HeaderCycle, FilterInv, IsLast, Stored
  <2>2. beat - 1 \in Nat BY <1>2, <2>1
  <2>. QED BY <1>2, <1>3, <2>1, <2>2
<1>9. HeaderCycle \/ FlushCycle => Stored' = 0 /\ stateBuffer' = "Idle"
  BY DEF HeaderCycle, FlushCycle, Stored
<1>10. FlushCycle => Stored = ToWords(cntFrame) + 1 BY DEF FlushCycle, Stored
<1>. QED BY <1>5, <1>6, <1>7, <1>8, <1>9, <1>10, Zenon

(* What is read moves the slots and the pending words alike, by one or not at all. *)
LEMMA Shift ==
  ASSUME RxTypeOK, ContentsInv, ReadInv, HandsOn \/ (Rests /\ stateBuffer # "AddHeader")
  PROVE  \E r \in {0, 1} :
           /\ r = 1 <=> readFrom
           /\ \A k \in Int : Slot(tail', k) = Slot(tail, k + r)
           /\ pending' \in Seq(Word) /\ Len(pending') = Len(pending) - r
           /\ \A k \in 1 .. Len(pending') : pending'[k] = pending[k + r]
           /\ tail' \in 0 .. Size - 1
<1>1. tail \in 0 .. Size - 1 /\ Size \in Nat \ {0} /\ pending \in Seq(Word)
  BY SizeAssumption DEF RxTypeOK, BufferTypeOK, ContentsInv
<1>2. CASE HandsOn
  <2>1. readFrom /\ tail' = (tail + 1) % Size /\ pending' = Tail(pending) BY <1>2 DEF HandsOn
  <2>2. \A k \in Int : Slot(tail', k) = Slot(tail, k + 1) BY <1>1, <2>1, SlotsMove
  <2>3. Len(pending) >= 1
    <3>1. counter \in Nat /\ readValue \in Nat BY DEF RxTypeOK, BufferTypeOK
    <3>. QED BY <2>1, <3>1 DEF ReadInv
  <2>4. /\ pending' \in Seq(Word) /\ Len(pending') = Len(pending) - 1
        /\ \A k \in 1 .. Len(pending') : pending'[k] = pending[k + 1]
    BY <1>1, <2>1, <2>3
  <2>5. tail' \in 0 .. Size - 1 BY <1>1, <2>1
  <2>. QED BY <2>1, <2>2, <2>4, <2>5
<1>3. CASE Rests /\ stateBuffer # "AddHeader"
  <2>1. ~readFrom /\ tail' = tail /\ pending' = << >> /\ pending = << >>
    BY <1>3 DEF Rests, ReadInv
  <2>2. \A k \in Int : Slot(tail', k) = Slot(tail, k + 0) BY <2>1 DEF Slot
  <2>. QED BY <1>1, <2>1, <2>2
<1>. QED BY <1>2, <1>3, Zenon

(* A cycle in which no frame is completed keeps the contents in order. *)
LEMMA ShiftKeepsContents ==
  ASSUME RxTypeOK, FilterInv, ContentsInv, ReadInv, TrafficFits, Cycle,
         HandsOn \/ (Rests /\ stateBuffer # "AddHeader")
  PROVE  ContentsInv' /\ head' \in 0 .. Size - 1 /\ DOMAIN mem' = 0 .. Size - 1
<1>. DEFINE L == Len(pending)
            S == Stored
<1>1. /\ SourceTypeOK /\ FilterTypeOK /\ tail \in 0 .. Size - 1 /\ DOMAIN mem = 0 .. Size - 1
      /\ head \in 0 .. Size - 1
  BY DEF RxTypeOK, BufferTypeOK
<1>2. /\ pending \in Seq(Word) /\ L \in Nat /\ head = Slot(tail, 1 + L + S) /\ L + S + 2 <= Size
      /\ \A k \in 1 .. L : mem[Slot(tail, k - 1)] = pending[k]
      /\ stateBuffer \in {"Evaluate", "GoodFrame", "AddHeader"} =>
           \A k \in 1 .. S : mem[Slot(tail, L + k)] = Beat(tag, k)
  BY DEF ContentsInv
<1>3. /\ \A k \in Int : Slot(tail, k) \in 0 .. Size - 1
      /\ \A j, k \in Int : j < k /\ k - j < Size => Slot(tail, j) # Slot(tail, k)
      /\ \A k, d \in Int : (Slot(tail, k) + d) % Size = Slot(tail, k + d)
  BY <1>1, SlotFacts
<1>4. PICK r \in {0, 1} :
           /\ r = 1 <=> readFrom
           /\ \A k \in Int : Slot(tail', k) = Slot(tail, k + r)
           /\ pending' \in Seq(Word) /\ Len(pending') = L - r
           /\ \A k \in 1 .. Len(pending') : pending'[k] = pending[k + r]
  BY Shift, Zenon
<1>5. S \in Nat /\ Size \in Nat BY <1>1, StoredFacts, SizeAssumption
<1>10. /\ Unstored => /\ Stored' = S
                      /\ stateBuffer' \in {"Evaluate", "GoodFrame", "AddHeader"} => S = 0
       /\ StoredBeat => /\ S = beat - 1 /\ tag' = tag
                        /\ stateBuffer \in {"Evaluate", "GoodFrame", "AddHeader"}
       /\ BadEnds => stateBuffer' = "FlushFrame"
       /\ StoredBeat \/ BadEnds => Stored' = S + 1 /\ S + 1 <= frame.len
       /\ FlushCycle => Stored' = 0 /\ stateBuffer' = "Idle" /\ S = ToWords(cntFrame) + 1
  BY <1>1, StoredMoves
<1>11. ~readFrom => L = 0 BY DEF ReadInv
<1>12. /\ head' = Slot(tail', 1 + Len(pending') + Stored')
       /\ Len(pending') + Stored' + 2 <= Size
       /\ \A k \in 1 .. Len(pending') : mem'[Slot(tail', k - 1)] = pending'[k]
       /\ stateBuffer' \in {"Evaluate", "GoodFrame", "AddHeader"} =>
            \A k \in 1 .. Stored' : mem'[Slot(tail', Len(pending') + k)] = Beat(tag', k)
       => ContentsInv'
  <2>1. pending' \in Seq(Word) BY <1>4
  <2>. QED BY <2>1 DEF ContentsInv, Slot, Beat
<1>. HIDE DEF L, S
<1>13. /\ L \in Nat /\ S \in Nat /\ r \in {0, 1} /\ Len(pending') = L - r
       /\ Len(pending') \in Nat
       /\ L + S + 2 <= Size /\ Size \in Nat
  BY <1>2, <1>4, <1>5
<1>6. CASE Unstored /\ KeepsBuffer
  <2>1. /\ mem' = mem /\ head' = head /\ Stored' = S
        /\ stateBuffer' \in {"Evaluate", "GoodFrame", "AddHeader"} => S = 0
    BY <1>6, <1>10 DEF KeepsBuffer
  <2>2. (1 + Len(pending') + Stored') + r = 1 + L + S /\ Len(pending') + Stored' + 2 <= Size
    BY <1>13, <2>1
  <2>3. head' = Slot(tail', 1 + Len(pending') + Stored')
    <3>1. 1 + Len(pending') + Stored' \in Int BY <1>13, <2>1
    <3>. QED BY <1>2, <1>4, <2>1, <2>2, <3>1, Zenon
  <2>4. ASSUME NEW k \in 1 .. Len(pending') PROVE mem'[Slot(tail', k - 1)] = pending'[k]
    <3>1. k + r \in 1 .. L /\ (k - 1) + r = (k + r) - 1 /\ k - 1 \in Int BY <1>13
    <3>2. Slot(tail', k - 1) = Slot(tail, (k + r) - 1) BY <1>4, <3>1, Zenon
    <3>. QED BY <1>2, <1>4, <2>1, <3>1, <3>2, Zenon
  <2>5. stateBuffer' \in {"Evaluate", "GoodFrame", "AddHeader"} => 1 .. Stored' = {} BY <2>1
  <2>6. head' \in 0 .. Size - 1 /\ DOMAIN mem' = 0 .. Size - 1 BY <1>1, <2>1
  <2>. QED BY <1>12, <2>2, <2>3, <2>4, <2>5, <2>6, Zenon
<1>7. CASE (StoredBeat /\ Puts(Beat(tag, beat))) \/ (BadEnds /\ Puts(Number(0)))
  <2>1. PICK w : /\ mem' = [mem EXCEPT ![head] = w] /\ head' = (head + 1) % Size
                 /\ StoredBeat => w = Beat(tag, beat)
    BY <1>7
       DEF Puts, StoredBeat, BeforeIndex, AtIndexBeat, EndsTooShort, GoodGoesOn, GoodEnds,
           BadEnds
  <2>2. Stored' = S + 1 /\ S + 1 <= frame.len BY <1>7, <1>10
  <2>3. Len(pending') + Stored' + 2 <= Size
    <3>1. CASE r = 1 BY <1>13, <2>2, <3>1
    <3>2. CASE r = 0
      <4>1. L = 0 BY <1>4, <1>11, <3>2
      <4>2. stateBuffer # "Idle"
        BY <1>7
           DEF StoredBeat, BeforeIndex, AtIndexBeat, EndsTooShort, GoodGoesOn, GoodEnds, BadEnds
      <4>3. frame.len \in FrameLens /\ frame.len \in Nat BY <1>1, <4>2, FrameFacts DEF FilterInv
      <4>4. frame.len + 3 <= Size BY <4>3 DEF TrafficFits
      <4>. QED BY <1>13, <2>2, <3>2, <4>1, <4>3, <4>4
    <3>. QED BY <1>13, <3>1, <3>2
  <2>4. head' = Slot(tail', 1 + Len(pending') + Stored')
    <3>1. /\ 1 + L + S \in Int /\ (1 + Len(pending') + Stored') + r = (1 + L + S) + 1
          /\ 1 + Len(pending') + Stored' \in Int
      BY <1>13, <2>2
    <3>2. 1 \in Int OBVIOUS
    <3>3. head' = Slot(tail, (1 + L + S) + 1) BY <1>2, <1>3, <2>1, <3>1, <3>2, Zenon
    <3>. QED BY <1>4, <3>1, <3>3, Zenon
  <2>5. ASSUME NEW k \in 1 .. Len(pending') PROVE mem'[Slot(tail', k - 1)] = pending'[k]
    <3>1. /\ k + r \in 1 .. L /\ (k - 1) + r = (k + r) - 1 /\ k - 1 \in Int
          /\ (k + r) - 1 < 1 + L + S /\ (1 + L + S) - ((k + r) - 1) < Size
          /\ (k + r) - 1 \in Int /\ 1 + L + S \in Int
      BY <1>13
    <3>2. Slot(tail', k - 1) = Slot(tail, (k + r) - 1) BY <1>4, <3>1, Zenon
    <3>3. Slot(tail, (k + r) - 1) # head BY <1>2, <1>3, <3>1, Zenon
    <3>4. Slot(tail, (k + r) - 1) \in DOMAIN mem BY <1>1, <1>3, <3>1, Zenon
    <3>5. mem'[Slot(tail, (k + r) - 1)] = mem[Slot(tail, (k + r) - 1)] BY <2>1, <3>3, <3>4
    <3>. QED BY <1>2, <1>4, <3>1, <3>2, <3>5, Zenon
  <2>6. ASSUME stateBuffer' \in {"Evaluate", "GoodFrame", "AddHeader"}, NEW k \in 1 .. Stored'
        PROVE  mem'[Slot(tail', Len(pending') + k)] = Beat(tag', k)
    <3>1. ~BadEnds BY <1>10, <2>6
    <3>2. /\ StoredBeat /\ S = beat - 1 /\ tag' = tag /\ w = Beat(tag, beat)
          /\ stateBuffer \in {"Evaluate", "GoodFrame", "AddHeader"}
      BY <1>7, <1>10, <2>1, <3>1
    <3>3. beat \in Nat BY <1>1 DEF SourceTypeOK
    <3>4. Slot(tail', Len(pending') + k) = Slot(tail, L + k)
      <4>1. Len(pending') + k \in Int /\ (Len(pending') + k) + r = L + k BY <1>13, <2>2
      <4>. QED BY <1>4, <4>1, Zenon
    <3>5. CASE k = S + 1
      <4>1. L + k = 1 + L + S /\ k = beat BY <1>13, <3>2, <3>3, <3>5
      <4>2. mem'[head] = Beat(tag, beat) BY <1>1, <2>1, <3>2
      <4>. QED BY <1>2, <3>2, <3>4, <4>1, <4>2, Zenon
    <3>6. CASE k # S + 1
      <4>1. /\ k \in 1 .. S /\ L + k \in Int /\ 1 + L + S \in Int /\ L + k < 1 + L + S
            /\ (1 + L + S) - (L + k) < Size
        BY <1>13, <2>2, <3>6
      <4>2. Slot(tail, L + k) # head /\ Slot(tail, L + k) \in DOMAIN mem
        BY <1>1, <1>2, <1>3, <4>1, Zenon
      <4>3. mem'[Slot(tail, L + k)] = mem[Slot(tail, L + k)] BY <2>1, <4>2
      <4>. QED BY <1>2, <3>2, <3>4, <4>1, <4>3, Zenon
    <3>. QED BY <3>5, <3>6
  <2>7. head' \in 0 .. Size - 1 /\ DOMAIN mem' = 0 .. Size - 1
    BY <1>1, <1>5, <2>1, SizeAssumption
  <2>. QED BY <1>12, <2>3, <2>4, <2>5, <2>6, <2>7
<1>8. CASE FlushCycle /\ TakesBack
  <2>1. /\ S = ToWords(cntFrame) + 1 /\ Stored' = 0 /\ stateBuffer' = "Idle" BY <1>8, <1>10
  <2>2. PICK w : mem' = [mem EXCEPT ![(head - S) % Size] = w] /\ head' = (head - S) % Size
    BY <1>8, <2>1, Zenon DEF TakesBack
  <2>3. (head - S) % Size = Slot(tail, 1 + L)
    <3>1. /\ 1 + L + S \in Int /\ -S \in Int /\ (1 + L + S) + (-S) = 1 + L
          /\ head - S = head + (-S)
      BY <1>1, <1>13
    <3>2. (head + (-S)) % Size = Slot(tail, (1 + L + S) + (-S)) BY <1>2, <1>3, <3>1, Zenon
    <3>. QED BY <3>1, <3>2
  <2>4. Len(pending') + Stored' + 2 <= Size BY <1>13, <2>1
  <2>5. head' = Slot(tail', 1 + Len(pending') + Stored')
    <3>1. 1 + Len(pending') + Stored' \in Int /\ (1 + Len(pending') + Stored') + r = 1 + L
      BY <1>13, <2>1
    <3>. QED BY <1>4, <2>2, <2>3, <3>1, Zenon
  <2>6. ASSUME NEW k \in 1 .. Len(pending') PROVE mem'[Slot(tail', k - 1)] = pending'[k]
    <3>1. /\ k + r \in 1 .. L /\ (k - 1) + r = (k + r) - 1 /\ k - 1 \in Int
          /\ (k + r) - 1 < 1 + L /\ (1 + L) - ((k + r) - 1) < Size
          /\ (k + r) - 1 \in Int /\ 1 + L \in Int
      BY <1>13
    <3>2. Slot(tail', k - 1) = Slot(tail, (k + r) - 1) BY <1>4, <3>1, Zenon
    <3>3. Slot(tail, (k + r) - 1) # Slot(tail, 1 + L) /\ Slot(tail, (k + r) - 1) \in DOMAIN mem
      BY <1>1, <1>3, <3>1, Zenon
    <3>4. mem'[Slot(tail, (k + r) - 1)] = mem[Slot(tail, (k + r) - 1)] BY <2>2, <2>3, <3>3
    <3>. QED BY <1>2, <1>4, <3>1, <3>2, <3>4, Zenon
  <2>7. head' \in 0 .. Size - 1 /\ DOMAIN mem' = 0 .. Size - 1
    BY <1>1, <1>2, <1>3, <2>2, <2>3
  <2>. QED BY <1>12, <2>1, <2>4, <2>5, <2>6, <2>7
<1>9. ~HeaderCycle BY DEF HeaderCycle, HandsOn
<1>. QED BY <1>6, <1>7, <1>8, <1>9, Zenon DEF Cycle

(* The header goes to the slot in front of its frame, which thereby is pending. *)
LEMMA HeaderKeepsContents ==
  ASSUME RxTypeOK, FilterInv, ContentsInv, ReadInv, TrafficFits, Cycle, HeaderCycle, Rests
  PROVE  /\ ContentsInv' /\ head' \in 0 .. Size - 1 /\ DOMAIN mem' = 0 .. Size - 1
         /\ Len(pending') = frame.len + 1 /\ readValue' = frame.len - 1
         /\ frame.len \in FrameLens /\ frame.len \in Nat /\ Reaches(frame.len)
         /\ readFrom' /\ counter' = 0 /\ Stored' = 0
<1>. DEFINE n == frame.len
<1>1. /\ SourceTypeOK /\ FilterTypeOK /\ tail \in 0 .. Size - 1 /\ DOMAIN mem = 0 .. Size - 1
      /\ head \in 0 .. Size - 1 /\ Size \in Nat
  BY SizeAssumption DEF RxTypeOK, BufferTypeOK
<1>2. /\ stateBuffer = "AddHeader" /\ Stored = n /\ cntFrame = BytesPerWord * (n - 1)
      /\ n = ToWords(cntFrame) + 1 /\ Stored' = 0 /\ stateBuffer' = "Idle"
  BY <1>1, StoredMoves, Zenon
<1>3. /\ beat > IndexBeat /\ beat = n /\ beat # 0 BY <1>2 DEF FilterInv, IsLast
<1>4. /\ n \in FrameLens /\ n \in Nat \ {0} /\ n + 3 <= Size /\ tag \in {0, 1}
  <2>1. n \in FrameLens /\ n \in Nat /\ n >= 2 BY <1>1, <1>3, FrameFacts
  <2>. QED BY <1>1, <2>1 DEF TrafficFits, SourceTypeOK
<1>5. Reaches(n)
  <2>1. FilterIndex \div BytesPerWord \in Int BY IndexAssumption DEF BytesPerWord
  <2>. QED BY <1>3, <1>4, <2>1 DEF IndexBeat, Reaches
<1>6. /\ pending = << >> /\ counter' = 0 /\ readFrom' /\ readValue' = ToWords(cntFrame)
      /\ pending' = FrameWords(tag, n) /\ tail' = tail
  BY <1>2, Zenon DEF Rests, ReadInv
<1>7. ToWords(cntFrame) = n - 1
  <2>1. ToWords(cntFrame) \in Int BY <1>2, <1>4 DEF ToWords, BytesPerWord
  <2>. QED BY <1>2, <1>4, <2>1
<1>8. /\ FrameWords(tag, n) \in Seq(Word) /\ Len(FrameWords(tag, n)) = n + 1
      /\ FrameWords(tag, n)[1] = HeaderOf(n)
      /\ \A k \in 1 .. n : FrameWords(tag, n)[k + 1] = Beat(tag, k)
  BY <1>4, FrameWordsFacts, Zenon
<1>9. /\ \A k \in Int : Slot(tail, k) \in 0 .. Size - 1
      /\ \A j, k \in Int : j < k /\ k - j < Size => Slot(tail, j) # Slot(tail, k)
      /\ \A k, d \in Int : (Slot(tail, k) + d) % Size = Slot(tail, k + d)
  BY <1>1, SlotFacts
<1>10. Len(pending) = 0 BY <1>6
<1>11. head = Slot(tail, n + 1) /\ \A k \in 1 .. n : mem[Slot(tail, k)] = Beat(tag, k)
  <2>1. head = Slot(tail, 1 + 0 + n) /\ \A k \in 1 .. n : mem[Slot(tail, 0 + k)] = Beat(tag, k)
    BY <1>2, <1>10, Zenon DEF ContentsInv
  <2>2. 1 + 0 + n = n + 1 /\ \A k \in 1 .. n : 0 + k = k BY <1>4
  <2>. QED BY <2>1, <2>2, Zenon
<1>. HIDE DEF n
<1>12. mem' = [mem EXCEPT ![Slot(tail, 0)] = HeaderOf(n)] /\ head' = Slot(tail, n + 2)
  <2>1. PutsHeader BY DEF Cycle, HeaderCycle, Unstored, IdleCycle, FirstCycle, BadGoesOn,
          StoredBeat, BeforeIndex, AtIndexBeat, EndsTooShort, GoodGoesOn, GoodEnds, BadEnds, FlushCycle
  <2>2. /\ n + 1 \in Int /\ -(n + 1) \in Int /\ (n + 1) + (-(n + 1)) = 0 /\ 1 \in Int
        /\ (n + 1) + 1 = n + 2
        /\ head - (n - 1 + 2) = head + (-(n + 1))
    BY <1>1, <1>4
  <2>3. (head - (ToWords(cntFrame) + 2)) % Size = (head + (-(n + 1))) % Size BY <1>7, <2>2
  <2>4. (head + (-(n + 1))) % Size = Slot(tail, (n + 1) + (-(n + 1)))
    BY <1>9, <1>11, <2>2, Zenon
  <2>5. (head + 1) % Size = Slot(tail, (n + 1) + 1) BY <1>9, <1>11, <2>2, Zenon
  <2>. QED BY <1>2, <2>1, <2>2, <2>3, <2>4, <2>5, Zenon DEF PutsHeader, HeaderOf
<1>13. head' \in 0 .. Size - 1 /\ DOMAIN mem' = 0 .. Size - 1
  <2>1. n + 2 \in Int BY <1>4
  <2>. QED BY <1>1, <1>9, <1>12, <2>1
<1>14. ASSUME NEW k \in 1 .. n + 1 PROVE mem'[Slot(tail, k - 1)] = FrameWords(tag, n)[k]
  <2>1. CASE k = 1
    <3>1. Slot(tail, 0) \in DOMAIN mem BY <1>1, <1>9
    <3>2. mem'[Slot(tail, 0)] = HeaderOf(n) BY <1>12, <3>1
    <3>. QED BY <1>8, <2>1, <3>2
  <2>2. CASE k # 1
    <3>1. /\ k - 1 \in 1 .. n /\ k - 1 \in Int /\ 0 < k - 1 /\ (k - 1) - 0 < Size
          /\ (k - 1) + 1 = k /\ 0 \in Int
      BY <1>1, <1>4, <2>2
    <3>2. Slot(tail, 0) # Slot(tail, k - 1) /\ Slot(tail, k - 1) \in DOMAIN mem
      BY <1>1, <1>9, <3>1, Zenon
    <3>3. mem'[Slot(tail, k - 1)] = mem[Slot(tail, k - 1)] BY <1>12, <3>2
    <3>. QED BY <1>8, <1>11, <3>1, <3>3, Zenon
  <2>. QED BY <2>1, <2>2
<1>15. ContentsInv'
  <2>1. /\ pending' \in Seq(Word) /\ Len(pending') = n + 1 /\ tail' = tail /\ Stored' = 0
    BY <1>2, <1>6, <1>8
  <2>2. head' = Slot(tail', 1 + Len(pending') + Stored') /\ Len(pending') + Stored' + 2 <= Size
    <3>1. 1 + (n + 1) + 0 = n + 2 /\ (n + 1) + 0 + 2 <= Size BY <1>1, <1>4
    <3>. QED BY <1>12, <2>1, <3>1, Zenon
  <2>3. \A k \in 1 .. Len(pending') : mem'[Slot(tail', k - 1)] = pending'[k]
    BY <1>6, <1>14, <2>1, Zenon
  <2>. QED BY <1>2, <2>1, <2>2, <2>3, Zenon DEF ContentsInv, Slot
<1>16. Len(pending') = n + 1 /\ readValue' = n - 1 /\ n \in Nat BY <1>4, <1>6, <1>7, <1>8
<1>. QED BY <1>2, <1>4, <1>5, <1>6, <1>13, <1>15, <1>16, Zenon DEF n

(* The registers of the side that reads stay within their ranges. *)
LEMMA ReadingKeepsTypes ==
  ASSUME RxTypeOK, FilterInv, ContentsInv, ReadInv, Rests \/ HandsOn
  PROVE  /\ tail' \in 0 .. Size - 1 /\ readFrom' \in BOOLEAN
         /\ readValue' \in 0 .. 2 ^ 15 /\ counter' \in 0 .. Size - 1
<1>1. /\ tail \in 0 .. Size - 1 /\ readFrom \in BOOLEAN /\ readValue \in 0 .. 2 ^ 15
      /\ counter \in 0 .. Size - 1 /\ cntFrame \in 0 .. 2 ^ CntWidth - 1
  BY DEF RxTypeOK, BufferTypeOK, FilterTypeOK
<1>2. Size \in Nat \ {0} BY SizeAssumption
<1>3. \A x \in Int : x % Size \in 0 .. Size - 1 BY <1>2
<1>4. /\ (tail + 1) % Size \in 0 .. Size - 1 /\ (counter + 1) % Size \in 0 .. Size - 1
      /\ 0 \in 0 .. Size - 1
  BY <1>1, <1>2, <1>3
<1>5. ToWords(cntFrame) \in 0 .. 2 ^ 15 BY <1>1, LengthAssumption
<1>6. 0 \in 0 .. 2 ^ 15 BY <1>1
<1>7. CASE Rests BY <1>1, <1>5, <1>7, Zenon DEF Rests
<1>8. CASE HandsOn BY <1>1, <1>4, <1>6, <1>8, Zenon DEF HandsOn
<1>. QED BY <1>7, <1>8

(* A word that is handed on is one of those pending, and the last one ends the frame. *)
LEMMA HandsOnFacts ==
  ASSUME RxTypeOK, ContentsInv, ReadInv, TrafficFits, HandsOn
  PROVE  /\ Len(pending) \in Nat /\ Len(pending) >= 1 /\ Len(pending') = Len(pending) - 1
         /\ readFrom' => /\ readValue' = readValue /\ counter' = counter + 1
                         /\ counter + 1 <= readValue + 1
         /\ ~readFrom' => pending' = << >> /\ counter' = 0
         /\ Len(pending) = 1 => ~readFrom'
<1>1. counter \in Nat /\ readValue \in Nat /\ Size \in Nat \ {0} /\ pending \in Seq(Word)
  BY SizeAssumption DEF RxTypeOK, BufferTypeOK, ContentsInv
<1>2. /\ readValue + 1 \in FrameLens /\ counter <= readValue + 1
      /\ Len(pending) = readValue + 2 - counter
  BY DEF ReadInv, HandsOn
<1>3. (readValue + 1) + 3 <= Size BY <1>2 DEF TrafficFits
<1>4. Len(pending) \in Nat /\ Len(pending) >= 1 BY <1>1, <1>2
<1>5. pending' = Tail(pending) BY DEF HandsOn
<1>6. Len(pending') = Len(pending) - 1 /\ (Len(pending) = 1 => pending' = << >>)
  BY <1>1, <1>4, <1>5
<1>7. CASE counter = readValue + 1
  BY <1>1, <1>2, <1>4, <1>6, <1>7 DEF HandsOn
<1>8. CASE counter # readValue + 1
  <2>1. counter + 1 <= readValue + 1 /\ counter + 1 < Size /\ counter + 1 \in Nat
    BY <1>1, <1>2, <1>3, <1>8
  <2>2. (counter + 1) % Size = counter + 1 BY <1>1, <2>1, ModSmall
  <2>3. Len(pending) # 1 BY <1>1, <1>2, <1>8
  <2>. QED BY <1>4, <1>6, <1>8, <2>1, <2>2, <2>3, Zenon DEF HandsOn
<1>. QED BY <1>7, <1>8

(* Reading keeps to the frame that is pending. *)
LEMMA KeepsReadInv ==
  ASSUME RxTypeOK, FilterInv, ContentsInv, ReadInv, TrafficFits, Cycle, Rests \/ HandsOn
  PROVE  ReadInv'
<1>1. SourceTypeOK /\ FilterTypeOK /\ counter \in Nat /\ readValue \in Nat
  BY DEF RxTypeOK, BufferTypeOK
<1>2. Stored \in Nat BY <1>1, StoredFacts
<1>3. Stored' \in Nat /\ Stored' <= Stored + 1
  <2>1. Stored' = Stored \/ Stored' = Stored + 1 \/ Stored' = 0
    BY <1>1, StoredMoves, Zenon DEF Cycle
  <2>. QED BY <1>2, <2>1
<1>4. CASE HandsOn
  <2>1. /\ Len(pending) \in Nat /\ Len(pending) >= 1 /\ Len(pending') = Len(pending) - 1
        /\ readFrom' => /\ readValue' = readValue /\ counter' = counter + 1
                        /\ counter + 1 <= readValue + 1
        /\ ~readFrom' => pending' = << >> /\ counter' = 0
    BY <1>4, HandsOnFacts
  <2>2. /\ readValue + 1 \in FrameLens /\ Reaches(readValue + 1)
        /\ Len(pending) = readValue + 2 - counter /\ Len(pending) + Stored <= readValue + 2
    BY <1>4 DEF ReadInv, HandsOn
  <2>3. CASE readFrom'
    <3>3. readValue' = readValue /\ counter' = counter + 1 /\ counter + 1 <= readValue + 1
      BY <2>1, <2>3
    <3>4. /\ Len(pending') = Len(pending) - 1 /\ Len(pending) \in Nat
          /\ Len(pending) = readValue + 2 - counter /\ Len(pending) + Stored <= readValue + 2
      BY <2>1, <2>2
    <3>5. Len(pending') = readValue + 2 - counter' BY <1>1, <3>3, <3>4
    <3>6. Len(pending') + Stored' <= readValue + 2
      <4>1. PICK s \in Nat, t \in Nat, l \in Nat, v \in Nat :
              s = Stored /\ t = Stored' /\ l = Len(pending) /\ v = readValue
        BY <1>1, <1>2, <1>3, <3>4
      <4>2. t <= s + 1 /\ l + s <= v + 2 /\ Len(pending') = l - 1 BY <1>3, <3>4, <4>1
      <4>3. (l - 1) + t <= v + 2 BY <4>2
      <4>. QED BY <4>1, <4>2, <4>3, Zenon
    <3>1. /\ readValue' = readValue /\ counter' <= readValue + 1
          /\ Len(pending') = readValue + 2 - counter'
          /\ Len(pending') + Stored' <= readValue + 2
      BY <3>3, <3>5, <3>6
    <3>2. Reaches(readValue + 1)' BY <2>2, <3>1 DEF Reaches
    <3>. QED BY <2>2, <2>3, <3>1, <3>2 DEF ReadInv
  <2>4. CASE ~readFrom' BY <2>1, <2>4 DEF ReadInv
  <2>. QED BY <2>3, <2>4
<1>5. CASE Rests /\ stateBuffer # "AddHeader" BY <1>5, Zenon DEF Rests, ReadInv
<1>6. CASE Rests /\ stateBuffer = "AddHeader"
  <2>1. HeaderCycle
    BY <1>6 DEF Cycle, Unstored, IdleCycle, FirstCycle, BadGoesOn, StoredBeat, BeforeIndex,
                AtIndexBeat, EndsTooShort, GoodGoesOn, GoodEnds, BadEnds, FlushCycle
  <2>2. /\ Len(pending') = frame.len + 1 /\ readValue' = frame.len - 1
        /\ frame.len \in FrameLens /\ frame.len \in Nat /\ Reaches(frame.len)
        /\ readFrom' /\ counter' = 0 /\ Stored' = 0
    BY <1>6, <2>1, HeaderKeepsContents
  <2>3. /\ readValue' + 1 = frame.len /\ counter' <= readValue' + 1
        /\ Len(pending') = readValue' + 2 - counter'
        /\ Len(pending') + Stored' <= readValue' + 2
    BY <2>2
  <2>4. Reaches(readValue + 1)' BY <2>2, <2>3 DEF Reaches
  <2>. QED BY <2>2, <2>3, <2>4 DEF ReadInv
<1>. QED BY <1>4, <1>5, <1>6

(* A frame that is wanted reaches the index. *)
LEMMA WantedReaches ==
  ASSUME NEW fr \in Frames, fr.mark = FilterIndex + 1
  PROVE  fr.len \in FrameLens /\ fr.len \in Nat /\ Reaches(fr.len)
<1>1. fr \in [len : FrameLens, odd : Odd, mark : Marks] /\ fr.mark <= Bytes(fr)
  BY Zenon DEF Frames
<1>2. fr.len \in FrameLens BY <1>1
<1>3. fr.len \in Nat BY <1>2, SourceAssumption, Zenon
<1>4. FilterIndex + 1 <= BytesPerWord * fr.len /\ FilterIndex \in Nat
  BY <1>1, <1>3, IndexAssumption DEF Bytes, BytesPerWord
<1>5. fr.len > FilterIndex \div BytesPerWord BY <1>3, <1>4 DEF BytesPerWord
<1>. QED BY <1>2, <1>3, <1>5 DEF Reaches

(* When a frame has gone from the bus, the words that may still be pending are fewer
   than the cycles before the next header. *)
LEMMA PaceBetween ==
  ASSUME NEW g \in 0 .. MinGap, Between(g), tag' \in {0, 1}, stateBuffer' = "Idle",
         NEW p \in Int, p = Len(pending'),
         \A m \in FrameLens : Reaches(m) => p <= g + m + 1
  PROVE  PaceInv'
<1>1. MinGap \in Nat /\ FrameLens \subseteq Nat BY SourceAssumption
<1>2. /\ beat' \in {0, 1}
      /\ beat' = 0 => g = 0 \/ gap' = g - 1
      /\ beat' = 1 => g = 0 /\ gap' = 0 /\ frame' \in Frames
  BY BetweenFacts, Zenon
<1>3. gap' = IF g = 0 THEN 0 ELSE g - 1 BY DEF Between
<1>4. ASSUME NEW m \in FrameLens, Reaches(m) PROVE p <= gap' + m + 2
  <2>1. p <= g + m + 1 /\ m \in Nat BY <1>1, <1>4
  <2>. QED BY <1>1, <1>3, <2>1
<1>5. ASSUME beat' # 0, Wanted(FilterIndex)' PROVE p <= frame'.len + 1
  <2>1. frame' \in Frames /\ g = 0 BY <1>2, <1>5
  <2>2. frame'.mark = FilterIndex + 1 BY <1>5 DEF Wanted
  <2>3. frame'.len \in FrameLens /\ frame'.len \in Nat /\ Reaches(frame'.len)
    BY <2>1, <2>2, WantedReaches
  <2>4. p <= g + frame'.len + 1 BY <2>3
  <2>. QED BY <2>1, <2>3, <2>4
<1>6. \A m : Reaches(m)' <=> Reaches(m) BY DEF Reaches
<1>. QED BY <1>4, <1>5, <1>6, Zenon DEF PaceInv

(* The words of a frame are gone before the next header comes. *)
LEMMA KeepsPaceInv ==
  ASSUME RxTypeOK, FilterInv, FilterInv', ContentsInv, ReadInv, PaceInv, TrafficFits, Cycle,
         Rests \/ HandsOn
  PROVE  PaceInv'
<1>1. SourceTypeOK /\ FilterTypeOK BY DEF RxTypeOK
<1>2. MinGap \in Nat /\ FrameLens \subseteq Nat BY SourceAssumption
<1>3. CASE ~readFrom'
  BY <1>3 DEF PaceInv
<1>4. CASE HeaderCycle
  <2>1. Rests BY <1>4 DEF HeaderCycle, HandsOn
  <2>2. /\ Len(pending') = frame.len + 1 /\ frame.len \in FrameLens /\ frame.len \in Nat
        /\ Reaches(frame.len)
    BY <1>4, <2>1, HeaderKeepsContents
  <2>3. ASSUME NEW m \in FrameLens, Reaches(m) PROVE frame.len + 1 <= MinGap + m + 1
    <3>1. frame.len <= m + MinGap BY <2>2, <2>3 DEF TrafficFits
    <3>. QED BY <1>2, <2>2, <3>1
  <2>4. /\ Between(MinGap) /\ stateBuffer' = "Idle" /\ tag' \in {0, 1} /\ MinGap \in 0 .. MinGap
        /\ frame.len + 1 \in Int
    BY <1>1, <1>2, <1>4, <2>2 DEF HeaderCycle, SourceTypeOK
  <2>. QED BY <2>2, <2>3, <2>4, PaceBetween, Zenon
<1>5. CASE readFrom' /\ ~HeaderCycle
  <2>1. HandsOn
    <3>1. stateBuffer # "AddHeader"
      BY <1>5 DEF Cycle, Unstored, IdleCycle, FirstCycle, BadGoesOn, StoredBeat, BeforeIndex,
                  AtIndexBeat, EndsTooShort, GoodGoesOn, GoodEnds, BadEnds, FlushCycle
    <3>. QED BY <1>5, <3>1, Zenon DEF Rests
  <2>2. /\ Len(pending) \in Nat /\ Len(pending) > 1 /\ Len(pending') = Len(pending) - 1
    <3>1. /\ Len(pending) \in Nat /\ Len(pending) >= 1 /\ Len(pending') = Len(pending) - 1
          /\ Len(pending) # 1
      BY <1>5, <2>1, HandsOnFacts
    <3>. QED BY <3>1
  <2>3. readFrom BY <2>1 DEF HandsOn
  <2>4. CASE IdleCycle
    <3>1. /\ beat = 0 /\ stateBuffer' = "Idle" /\ Between(gap) /\ tag' \in {0, 1}
          /\ gap \in 0 .. MinGap
      BY <1>1, <2>4 DEF IdleCycle, SourceTypeOK
    <3>2. ASSUME NEW m \in FrameLens, Reaches(m) PROVE Len(pending) - 1 <= gap + m + 1
      <4>1. Len(pending) <= gap + m + 2 BY <2>3, <3>1, <3>2 DEF PaceInv
      <4>. QED BY <1>2, <2>2, <3>1, <4>1
    <3>3. Len(pending) - 1 \in Int BY <2>2
    <3>. QED BY <2>2, <3>1, <3>2, <3>3, PaceBetween, Zenon
  <2>5. CASE FlushCycle
    <3>1. Between(MinGap) /\ stateBuffer' = "Idle" /\ tag' \in {0, 1} /\ MinGap \in 0 .. MinGap
      BY <1>1, <1>2, <2>5 DEF FlushCycle, SourceTypeOK
    <3>2. /\ readValue + 1 \in FrameLens /\ Reaches(readValue + 1)
          /\ Len(pending) + Stored <= readValue + 2
      BY <2>3 DEF ReadInv
    <3>3. Stored \in Nat /\ readValue \in Nat BY <1>1, StoredFacts DEF RxTypeOK, BufferTypeOK
    <3>4. ASSUME NEW m \in FrameLens, Reaches(m) PROVE Len(pending) - 1 <= MinGap + m + 1
      <4>1. readValue + 1 <= m + MinGap BY <3>2, <3>4 DEF TrafficFits
      <4>. QED BY <1>2, <2>2, <3>2, <3>3, <4>1
    <3>5. Len(pending) - 1 \in Int BY <2>2
    <3>. QED BY <2>2, <3>1, <3>4, <3>5, PaceBetween, Zenon
  <2>6. CASE ~IdleCycle /\ ~FlushCycle
    <3>1. beat # 0 /\ beat' # 0
      <4>1. beat # 0
        BY <1>5, <2>6
           DEF Cycle, Unstored, IdleCycle, FirstCycle, BadGoesOn, StoredBeat, BeforeIndex,
               AtIndexBeat, EndsTooShort, GoodGoesOn, GoodEnds, BadEnds, FilterInv
      <4>2. stateBuffer' # "Idle"
        BY <1>5, <2>6
           DEF Cycle, Unstored, FirstCycle, BadGoesOn, StoredBeat, BeforeIndex, AtIndexBeat,
               EndsTooShort, GoodGoesOn, GoodEnds, BadEnds
      <4>. QED BY <4>1, <4>2 DEF FilterInv
    <3>2. frame.len \in Nat /\ beat \in Nat BY <1>1, <3>1, FrameFacts
    <3>3. ASSUME Wanted(FilterIndex)'
          PROVE  /\ stateBuffer' \in {"Evaluate", "GoodFrame"}
                 /\ Len(pending') <= frame'.len - beat' + 1
      <4>1. frame' = frame /\ Wanted(FilterIndex)
        BY <1>5, <2>6, <3>3 DEF Cycle, Unstored, FirstCycle, BadGoesOn, StoredBeat, BeforeIndex,
             AtIndexBeat, EndsTooShort, GoodGoesOn, GoodEnds, BadEnds, Waits, GoesOn, Wanted
      <4>2. /\ stateBuffer = "Idle" => Len(pending) <= frame.len + 1
            /\ stateBuffer \in {"Evaluate", "GoodFrame"} => Len(pending) <= frame.len - beat + 1
        BY <2>3, <3>1, <4>1 DEF PaceInv
      <4>3. stateBuffer' \notin {"BadFrame", "FlushFrame"} BY <3>3 DEF FilterInv
      <4>4. CASE FirstCycle
        <5>1. stateBuffer = "Idle" /\ beat' = 1 /\ stateBuffer' = "Evaluate"
          BY <4>4 DEF FirstCycle, Waits
        <5>. QED BY <2>2, <3>2, <4>1, <4>2, <5>1
      <4>5. CASE BeforeIndex \/ AtIndexBeat \/ GoodGoesOn
        <5>1. /\ stateBuffer \in {"Evaluate", "GoodFrame"} /\ beat' = beat + 1
              /\ stateBuffer' \in {"Evaluate", "GoodFrame", "BadFrame"}
          BY <4>5 DEF BeforeIndex, AtIndexBeat, GoodGoesOn, GoesOn
        <5>2. Len(pending') <= frame'.len - beat' + 1 BY <2>2, <3>2, <4>1, <4>2, <5>1
        <5>. QED BY <4>3, <5>1, <5>2
      <4>6. CASE GoodEnds
        <5>1. stateBuffer = "GoodFrame" /\ beat = frame.len BY <4>6 DEF GoodEnds, IsLast
        <5>. QED BY <2>2, <3>2, <4>2, <5>1
      <4>7. ~(EndsTooShort \/ BadGoesOn \/ BadEnds) BY <4>3 DEF EndsTooShort, BadGoesOn, BadEnds
      <4>. QED BY <1>5, <2>6, <4>4, <4>5, <4>6, <4>7, Zenon DEF Cycle, Unstored, StoredBeat
    <3>. QED BY <3>1, <3>3 DEF PaceInv
  <2>. QED BY <2>4, <2>5, <2>6
<1>. QED BY <1>3, <1>4, <1>5

-----------------------------------------------------------------------------
(* The receive path as a whole. *)

(* Reset leaves the bus idle and the buffer empty. *)
LEMMA RxStart ==
  ASSUME RxInit, TrafficFits
  PROVE  RxInv
<1>1. /\ frame = NoFrame /\ beat = 0 /\ gap = 0 /\ tag = 0 /\ stateBuffer = "Idle"
      /\ mem = [s \in 0 .. Size - 1 |-> Undefined] /\ head = 1 /\ tail = 0
      /\ readFrom = FALSE /\ readValue = 0 /\ counter = 0 /\ pending = << >>
  BY DEF RxInit, SourceInit, FilterInit, BufferInit
<1>2. SourceTypeOK
  <2>1. frame.len = 0 /\ MinGap \in Nat BY <1>1, SourceAssumption DEF NoFrame
  <2>. QED BY <1>1, <2>1 DEF SourceTypeOK
<1>3. FilterTypeOK BY WidthAssumption DEF RxInit, FilterInit, FilterTypeOK, BytesPerWord
<1>4. BufferTypeOK
  <2>1. 0 \in 0 .. 2 ^ 15
    <3>1. 0 \in 0 .. 2 ^ CntWidth - 1 BY WidthAssumption
    <3>2. ToWords(0) \in 0 .. 2 ^ 15 BY <3>1, LengthAssumption
    <3>3. ToWords(0) = 0 BY DEF ToWords, BytesPerWord
    <3>. QED BY <3>2, <3>3
  <2>2. Size \in Nat /\ Size >= 4 BY SizeAssumption
  <2>3. /\ DOMAIN mem = 0 .. Size - 1 /\ head \in 0 .. Size - 1 /\ tail \in 0 .. Size - 1
        /\ counter \in 0 .. Size - 1
    BY <1>1, <2>2
  <2>. QED BY <1>1, <2>1, <2>3, Zenon DEF BufferTypeOK
<1>5. FilterInv BY <1>1 DEF FilterInv
<1>6. ContentsInv
  <2>1. pending \in Seq(Word) /\ Len(pending) = 0 /\ Stored = 0 BY <1>1 DEF Stored
  <2>2. Size \in Nat /\ Size >= 4 BY SizeAssumption
  <2>3. (0 + 1) % Size = 1 BY <2>2, ModSmall
  <2>4. head = Slot(tail, 1 + Len(pending) + Stored) /\ Len(pending) + Stored + 2 <= Size
    BY <1>1, <2>1, <2>2, <2>3 DEF Slot
  <2>. QED BY <1>1, <2>1, <2>4 DEF ContentsInv
<1>7. ReadInv /\ PaceInv BY <1>1 DEF ReadInv, PaceInv
<1>. QED BY <1>2, <1>3, <1>4, <1>5, <1>6, <1>7 DEF RxInv, RxTypeOK

(* What a clock edge is, in the state it finds. *)
LEMMA RxStep ==
  ASSUME RxInv, TrafficFits, Next
  PROVE  RxInv' /\ (Rests \/ HandsOn)
<1>1. PICK axis \in Axis : ~bufferFull /\ ReadyCycle(axis) BY NextIsReady
<1>2. /\ Cycle /\ indexHighLow' = FilterIndex % BytesPerWord
      /\ cntFrame' \in 0 .. 2 ^ CntWidth - 1 /\ cntBytes' \in 0 .. BytesPerWord
  BY <1>1, Control
<1>3. Rests \/ HandsOn BY <1>1, Reading
<1>4. /\ RxTypeOK /\ SourceTypeOK /\ FilterTypeOK /\ FilterInv /\ ContentsInv /\ ReadInv
      /\ PaceInv
  BY DEF RxInv, RxTypeOK
<1>5. SourceTypeOK' /\ FilterTypeOK' /\ FilterInv' BY <1>2, <1>4, CycleKeepsFilter
<1>6. ContentsInv' /\ head' \in 0 .. Size - 1 /\ DOMAIN mem' = 0 .. Size - 1
  <2>1. CASE HandsOn \/ (Rests /\ stateBuffer # "AddHeader")
    BY <1>2, <1>4, <2>1, ShiftKeepsContents
  <2>2. CASE Rests /\ stateBuffer = "AddHeader"
    <3>1. HeaderCycle
      BY <1>2, <2>2
         DEF Cycle, Unstored, IdleCycle, FirstCycle, BadGoesOn, StoredBeat, BeforeIndex,
             AtIndexBeat, EndsTooShort, GoodGoesOn, GoodEnds, BadEnds, FlushCycle
    <3>. QED BY <1>2, <1>4, <2>2, <3>1, HeaderKeepsContents
  <2>. QED BY <1>3, <2>1, <2>2
<1>7. BufferTypeOK'
  <2>1. /\ tail' \in 0 .. Size - 1 /\ readFrom' \in BOOLEAN
        /\ readValue' \in 0 .. 2 ^ 15 /\ counter' \in 0 .. Size - 1
    BY <1>3, <1>4, ReadingKeepsTypes
  <2>. QED BY <1>6, <2>1, Zenon DEF BufferTypeOK
<1>8. ReadInv' BY <1>2, <1>3, <1>4, KeepsReadInv
<1>9. PaceInv' BY <1>2, <1>3, <1>4, <1>5, KeepsPaceInv
<1>. QED BY <1>3, <1>5, <1>6, <1>7, <1>8, <1>9, Zenon DEF RxInv, RxTypeOK

(* The filter, the buffer and the bus stay in step: for every size of the buffer, width
   of the counter, filter index, set of frames and gap for which TrafficFits holds. *)
THEOREM ReceivePathInvariant ==
  ASSUME TrafficFits PROVE Spec => []RxInv
<1>1. RxInit => RxInv BY RxStart
<1>2. RxInv /\ [Next]_rxVars => RxInv'
  <2>1. CASE Next BY <2>1, RxStep
  <2>2. ASSUME RxInv, UNCHANGED rxVars PROVE RxInv'
    <3>1. UNCHANGED <<sourceVars, filterVars, bufferVars, pending, out>>
      BY <2>2, Zenon DEF rxVars
    <3>2. RxTypeOK'
      BY <2>2, <3>1, Zenon
         DEF RxInv, RxTypeOK, sourceVars, filterVars, bufferVars, SourceTypeOK, FilterTypeOK,
             BufferTypeOK, Frames
    <3>3. FilterInv'
      BY <2>2, <3>1, Zenon
         DEF RxInv, FilterInv, sourceVars, filterVars, bufferVars, IsLast,
             IndexBeat, Reaches, Wanted
    <3>4. ContentsInv'
      BY <2>2, <3>1, Zenon
         DEF RxInv, ContentsInv, sourceVars, filterVars, bufferVars, Stored, Wanted,
             IsLast, IndexBeat, Reaches, Slot, ToWords, Beat, Word
    <3>5. ReadInv'
      BY <2>2, <3>1, Zenon
         DEF RxInv, ReadInv, sourceVars, filterVars, bufferVars, Stored, Wanted,
             IsLast, IndexBeat, Reaches, Slot, ToWords, Beat, Word
    <3>6. PaceInv'
      BY <2>2, <3>1, Zenon
         DEF RxInv, PaceInv, sourceVars, filterVars, bufferVars, Stored, Wanted,
             IsLast, IndexBeat, Reaches, Slot, ToWords, Beat, Word
    <3>. QED BY <3>2, <3>3, <3>4, <3>5, <3>6 DEF RxInv
  <2>. QED BY <2>1, <2>2
<1>. QED BY <1>1, <1>2, PTL DEF Spec

(* The registers of the filter, the pointers and counters of the buffer and the signals
   of the bus stay within their ranges (RxTypeOK). *)
THEOREM TypesHold ==
  ASSUME TrafficFits PROVE Spec => []RxTypeOK
<1>1. RxInv => RxTypeOK BY DEF RxInv
<1>. QED BY <1>1, ReceivePathInvariant, PTL

(* The counter of the filter lags one beat behind the bus, whatever the frame
   (CounterFollowsBus). *)
THEOREM CounterFollows ==
  ASSUME TrafficFits PROVE Spec => []CounterFollowsBus
<1>1. RxInv => CounterFollowsBus BY DEF RxInv, FilterInv, CounterFollowsBus
<1>. QED BY <1>1, ReceivePathInvariant, PTL

(* The buffer holds the words that are due and, between frames, nothing else
   (BufferHoldsPending). *)
THEOREM BufferHolds ==
  ASSUME TrafficFits PROVE Spec => []BufferHoldsPending
<1>1. RxInv => BufferHoldsPending
  <2>. SUFFICES ASSUME RxInv PROVE BufferHoldsPending OBVIOUS
  <2>1. RxTypeOK /\ SourceTypeOK /\ FilterTypeOK /\ FilterInv /\ ContentsInv
    BY DEF RxInv, RxTypeOK
  <2>2. /\ pending \in Seq(Word) /\ Len(pending) \in Nat
        /\ \A k \in 1 .. Len(pending) : mem[Slot(tail, k - 1)] = pending[k]
    BY <2>1 DEF ContentsInv
  <2>3. \A k \in 1 .. Len(pending) : mem[(tail + k - 1) % Size] = pending[k]
    <3>1. tail \in Int BY <2>1 DEF RxTypeOK, BufferTypeOK
    <3>2. \A k \in 1 .. Len(pending) : tail + (k - 1) = tail + k - 1 BY <2>2, <3>1
    <3>. QED BY <2>2, <3>2, Zenon DEF Slot
  <2>4. stateBuffer = "Idle" => bufferLength = Len(pending)
    <3>1. Stored \in Nat BY <2>1, StoredFacts
    <3>2. bufferLength = Len(pending) + Stored BY <2>1, <3>1, Occupancy
    <3>3. stateBuffer = "Idle" => Stored = 0 BY DEF Stored
    <3>. QED BY <2>2, <3>2, <3>3
  <2>. QED BY <2>3, <2>4 DEF BufferHoldsPending
<1>. QED BY <1>1, ReceivePathInvariant, PTL

(* The receive path implements FrameStream: the consumer gets the header and the beats of
   every wanted frame, each once, in order, and nothing else (HandsOnWantedFrames). *)
THEOREM ImplementsFrameStream ==
  ASSUME TrafficFits PROVE Spec => HandsOnWantedFrames
<1>1. RxInit => Stream!Init
  BY DEF RxInit, Stream!Init, Undefined, Stream!Undefined
<1>2. RxInv /\ [Next]_rxVars => [Stream!Next]_<<pending, out>>
  <2>1. CASE UNCHANGED rxVars BY <2>1 DEF rxVars
  <2>2. ASSUME RxInv, Next PROVE [Stream!Next]_<<pending, out>>
    <3>1. Rests \/ HandsOn BY <2>2, RxStep
    <3>2. RxTypeOK /\ SourceTypeOK /\ FilterInv /\ ContentsInv /\ ReadInv
      BY <2>2 DEF RxInv, RxTypeOK
    <3>3. CASE HandsOn
      <4>1. /\ readFrom /\ pending' = Tail(pending)
            /\ out' = [word |-> mem[tail], turn |-> 1 - out.turn]
        BY <3>3 DEF HandsOn
      <4>2. pending \in Seq(Word) /\ Len(pending) \in Nat /\ Len(pending) >= 1
        BY <3>2, <3>3, HandsOnFacts DEF ContentsInv
      <4>3. mem[Slot(tail, 1 - 1)] = pending[1] BY <3>2, <4>2 DEF ContentsInv
      <4>4. Slot(tail, 1 - 1) = tail
        <5>1. tail \in 0 .. Size - 1 /\ Size \in Nat \ {0}
          BY <3>2, SizeAssumption DEF RxTypeOK, BufferTypeOK
        <5>2. tail % Size = tail BY <5>1, ModSmall
        <5>3. tail + (1 - 1) = tail BY <5>1
        <5>. QED BY <5>2, <5>3 DEF Slot
      <4>5. mem[tail] = Head(pending) /\ pending # << >> BY <4>2, <4>3, <4>4
      <4>6. Stream!HandOn BY <4>1, <4>5 DEF Stream!HandOn, Stream!Emit
      <4>. QED BY <4>6 DEF Stream!Next
    <3>4. CASE Rests /\ stateBuffer = "AddHeader"
      <4>1. /\ pending = << >> /\ UNCHANGED out /\ pending' = FrameWords(tag, frame.len)
        BY <3>2, <3>4, Zenon DEF Rests, ReadInv
      <4>2. tag \in {0, 1} /\ frame.len \in FrameLens /\ frame.len \in Nat \ {0}
        <5>1. beat # 0 BY <3>2, <3>4 DEF FilterInv
        <5>2. frame.len \in FrameLens /\ frame.len \in Nat /\ frame.len >= 2
          BY <3>2, <5>1, FrameFacts
        <5>. QED BY <3>2, <5>2 DEF SourceTypeOK
      <4>3. PICK words : words = FrameWords(tag, frame.len) OBVIOUS
      <4>4. words \in Seq(Word) BY <4>2, <4>3, FrameWordsFacts
      <4>5. Stream!FrameWords(tag, frame.len) = words
        BY <4>3 DEF FrameWords, HeaderOf, Number, Beat, BytesPerWord, Stream!FrameWords,
           Stream!HeaderOf, Stream!Number, Stream!Beat, Stream!BytesPerWord
      <4>6. words \in Stream!WantedFrames BY <4>2, <4>5 DEF Stream!WantedFrames
      <4>7. pending' = pending \o words BY <4>1, <4>3, <4>4
      <4>8. Stream!Receive(words) BY <4>1, <4>7 DEF Stream!Receive
      <4>. QED BY <4>6, <4>8, Zenon DEF Stream!Next
    <3>5. CASE Rests /\ stateBuffer # "AddHeader"
      BY <3>2, <3>5, Zenon DEF Rests, ReadInv
    <3>. QED BY <3>1, <3>3, <3>4, <3>5
  <2>. QED BY <2>1, <2>2
<1>. QED BY <1>1, <1>2, ReceivePathInvariant, PTL DEF Spec, HandsOnWantedFrames, Stream!Spec
=============================================================================
