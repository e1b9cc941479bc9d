---------------------------- MODULE FSharkProofs ----------------------------
(* What is proved about the device and its driver, for every traffic on the wire, every
   size of the buffer and of the FIFO and every filter index: the device answers only
   what it was asked, and its registers stay within their ranges. *)
EXTENDS FShark, TLAPS

(* No leaf is given up too soon on a busy machine. *)
USE SMTT(60), ZenonT(60)

(* The command that waits: a read is held only while the driver waits for it. *)
HoldInv ==
  /\ ResponseHasCommand
  /\ readHolder => inflight = "read"

(* A cycle of the device and of the driver keeps it so: the hold is renewed only for the
   read that waits, and the driver sends nothing else before the response. *)
LEMMA HoldStep ==
  ASSUME HoldInv, Next
  PROVE  HoldInv'
<1>1. PICK axis \in Axis, cmd \in Commands : Clock(axis, cmd) BY Zenon DEF Next
<1>2. Ocp(cmd) /\ Driver(cmd) BY <1>1, Zenon DEF Clock
<1>3. /\ respReg' = "DVA" => cmd \in {"index", "value", "trigger"} \/ sendToPatmos(cmd)
      /\ readHolder' = sendToPatmos(cmd)
  BY <1>2 DEF Ocp, fifo_deq_ready
<1>4. inflight' = IF cmd = "none" /\ respReg # "DVA" THEN inflight ELSE cmd BY <1>2 DEF Driver
<1>5. inflight = "read" /\ respReg # "DVA" => cmd = "none" BY <1>1 DEF Commands
<1>6. sendToPatmos(cmd) => inflight' = "read" BY <1>4, <1>5 DEF sendToPatmos, HoldInv
<1>. QED BY <1>3, <1>4, <1>6 DEF HoldInv, ResponseHasCommand

(* The device never answers without having been asked: respReg is DVA only while the
   driver waits for the response to a command it sent. *)
THEOREM AnswersOnlyCommands == Spec => []ResponseHasCommand
<1>1. Init => HoldInv BY DEF Init, HoldInv, ResponseHasCommand
<1>2. HoldInv /\ [Next]_vars => HoldInv'
  <2>1. HoldInv /\ UNCHANGED vars => HoldInv'
    BY DEF HoldInv, ResponseHasCommand, vars, deviceVars, driverVars
  <2>. QED BY <2>1, HoldStep
<1>3. HoldInv => ResponseHasCommand BY DEF HoldInv
<1>. QED BY <1>1, <1>2, <1>3, PTL DEF Spec

-----------------------------------------------------------------------------
(* The ranges of the registers. *)

(* A word that can be taken for a length says what the filter can count. *)
Short(w) == w.kind = "number" => w.val \in 0 .. 2 ^ CntWidth - 1

(* So do all words in the buffer, in the FIFO and on their way to the processor. *)
WordsInv ==
  /\ \A s \in 0 .. Size - 1 : Short(mem[s])
  /\ DOMAIN fMem = 0 .. FifoDepth - 1 /\ \A s \in 0 .. FifoDepth - 1 : Short(fMem[s])
  /\ Short(fData) /\ Short(fShadow) /\ Short(dataReg)

(* The counter of the filter wraps, and zero fits into it. *)
LEMMA Counted ==
  /\ \A x \in Int : x % 2 ^ CntWidth \in 0 .. 2 ^ CntWidth - 1
  /\ 0 \in 0 .. 2 ^ CntWidth - 1
  /\ Short(Number(0)) /\ Short(Undefined)
<1>1. PICK n \in Nat \ {0} : n = 2 ^ CntWidth BY WidthAssumption
<1>2. \A x \in Int : x % n \in 0 .. n - 1 BY <1>1
<1>3. 0 \in 0 .. n - 1 BY <1>1
<1>4. Number(0).val = 0 /\ Undefined.kind = "undefined" BY DEF Number, Undefined
<1>. QED BY <1>1, <1>2, <1>3, <1>4 DEF Short

(* The bus keeps to its protocol, whether its beats are taken or not. *)
LEMMA SourceTypes ==
  ASSUME SourceTypeOK, NEW tready, NEW index, SourceClock(tready, index)
  PROVE  SourceTypeOK'
<1>1. MinGap \in Nat /\ NoFrame' = NoFrame /\ Frames' = Frames
  BY SourceAssumption DEF NoFrame, Frames
<1>2. ASSUME NEW fr \in Frames PROVE fr.len \in Nat /\ fr.len >= 2
  <2>1. fr \in [len : FrameLens, odd : Odd, mark : Marks] BY Zenon DEF Frames
  <2>2. fr.len \in FrameLens BY <2>1
  <2>3. fr.len \in Nat \ {0, 1} BY <2>2, SourceAssumption, Zenon
  <2>. QED BY <2>3
<1>3. NoFrame.len = 0 BY DEF NoFrame
<1>4. ASSUME NEW g \in 0 .. MinGap, Between(g), tag' \in {0, 1} PROVE SourceTypeOK'
  <2>1. gap' \in 0 .. MinGap BY <1>1, <1>4 DEF Between
  <2>2. CASE frame' \in Frames /\ beat' = 1
    <3>1. frame'.len \in Nat /\ frame'.len >= 2 BY <1>2, <2>2
    <3>2. frame' # NoFrame BY <1>3, <3>1
    <3>3. beat' \in 0 .. frame'.len BY <2>2, <3>1
    <3>. QED BY <1>1, <1>4, <2>1, <2>2, <3>2, <3>3 DEF SourceTypeOK
  <2>3. CASE frame' = NoFrame /\ beat' = 0
    <3>1. beat' \in 0 .. frame'.len BY <1>3, <2>3
    <3>. QED BY <1>1, <1>4, <2>1, <2>3, <3>1 DEF SourceTypeOK
  <2>. QED BY <1>4, <2>2, <2>3, Zenon DEF Between
<1>5. CASE SourceIdle BY <1>4, <1>5 DEF SourceIdle, SourceTypeOK
<1>6. CASE SourceWaits(tready) BY <1>1, <1>6 DEF SourceWaits, SourceTypeOK, sourceVars
<1>7. CASE SourceAdvances(tready)
  <2>1. frame' = frame /\ beat' = beat + 1 /\ beat # 0 /\ beat # frame.len
    BY <1>7 DEF SourceAdvances, IsLast
  <2>2. frame \in Frames BY <2>1 DEF SourceTypeOK
  <2>3. frame.len \in Nat BY <1>2, <2>2
  <2>4. beat' \in 0 .. frame'.len /\ beat' # 0 BY <2>1, <2>3 DEF SourceTypeOK
  <2>. QED BY <1>1, <1>7, <2>1, <2>4 DEF SourceAdvances, SourceTypeOK
<1>8. CASE SourceEnds(tready, index)
  <2>1. Between(MinGap) /\ MinGap \in 0 .. MinGap /\ tag' \in {0, 1}
    BY <1>1, <1>8 DEF SourceEnds, SourceTypeOK
  <2>. QED BY <1>4, <2>1
<1>. QED BY <1>5, <1>6, <1>7, <1>8 DEF SourceClock

(* The registers of the filter hold what fits into them. *)
LEMMA FilterTypes ==
  ASSUME FilterTypeOK, NEW axis \in Axis, NEW index \in Nat, NEW set, NEW ready,
         FilterClock(axis, index, set, ready)
  PROVE  FilterTypeOK'
<1>1. axis.keep \in 1 .. BytesPerWord
  <2>1. CASE beat # 0 BY <2>1 DEF Axis, BytesPerWord
  <2>2. CASE beat = 0
    <3>1. axis \in [tvalid : {FALSE}, tlast : BOOLEAN, keep : 1 .. BytesPerWord,
                    tdata : {Undefined}, hits : {{}, 0 .. BytesPerWord - 1}]
      BY <2>2, Zenon DEF Axis
    <3>. QED BY <3>1
  <2>. QED BY <2>1, <2>2
<1>2. index % BytesPerWord \in 0 .. BytesPerWord - 1 BY DEF BytesPerWord
<1>3. cntFrame \in Int /\ cntBytes \in Int BY WidthAssumption DEF FilterTypeOK
<1>4. (cntFrame + cntBytes) % 2 ^ CntWidth \in 0 .. 2 ^ CntWidth - 1
      /\ 0 \in 0 .. 2 ^ CntWidth - 1
  BY <1>3, Counted
<1>5. cntFrame' \in {0, cntFrame, (cntFrame + cntBytes) % 2 ^ CntWidth}
  BY Zenon DEF FilterClock, BufferIdle, BufferEvaluate, BufferGoodFrame, BufferAddHeader,
     BufferBadFrame, BufferFlushFrame, Stalled, Count
<1>6. stateBuffer' \in {"Idle", "Evaluate", "BadFrame", "GoodFrame", "FlushFrame", "AddHeader"}
  BY DEF FilterTypeOK, FilterClock, BufferIdle, BufferEvaluate, BufferGoodFrame,
         BufferAddHeader, BufferBadFrame, BufferFlushFrame, Stalled
<1>7. cntBytes' \in 0 .. BytesPerWord BY <1>1 DEF FilterClock, BytesPerWord
<1>8. indexHighLow' = index % BytesPerWord BY DEF FilterClock
<1>9. cntFrame' \in 0 .. 2 ^ CntWidth - 1 BY <1>4, <1>5 DEF FilterTypeOK
<1>. QED BY <1>2, <1>6, <1>7, <1>8, <1>9 DEF FilterTypeOK

(* The pointers and counters of the circular buffer stay within the buffer, whatever the
   filter writes and whenever the FIFO takes a word. *)
LEMMA BufferTypes ==
  ASSUME BufferTypeOK, FilterTypeOK, WordsInv, NEW axis \in Axis, NEW set, NEW ready,
         NEW deq_ready, BufferClock(filter_bus(axis, set, ready), deq_ready)
  PROVE  BufferTypeOK' /\ \A s \in 0 .. Size - 1 : Short(mem'[s])
<1>. DEFINE bus == filter_bus(axis, set, ready)
<1>1. Size \in Nat \ {0} /\ 0 \in 0 .. Size - 1 BY SizeAssumption
<1>2. \A x \in Int : x % Size \in 0 .. Size - 1 BY <1>1
<1>3. cntFrame \in 0 .. 2 ^ CntWidth - 1 /\ Number(cntFrame).val = cntFrame
  BY DEF FilterTypeOK, Number
<1>4. Short(axis.tdata)
  <2>1. CASE beat # 0 BY <2>1 DEF Axis, Beat, Short
  <2>2. CASE beat = 0
    <3>1. axis \in [tvalid : {FALSE}, tlast : BOOLEAN, keep : 1 .. BytesPerWord,
                    tdata : {Undefined}, hits : {{}, 0 .. BytesPerWord - 1}]
      BY <2>2, Zenon DEF Axis
    <3>2. axis.tdata = Undefined BY <3>1
    <3>. QED BY <3>2, Counted
  <2>. QED BY <2>1, <2>2
<1>5. /\ bus.tdata \in {Number(0), axis.tdata, Number(cntFrame)}
      /\ bus.addHeader \/ bus.flushFrame => bus.tdata = Number(cntFrame)
  BY Zenon DEF filter_bus
<1>6. Short(bus.tdata)
  <2>1. Short(Number(cntFrame)) BY <1>3 DEF Short
  <2>. QED BY <1>4, <1>5, <2>1, Counted, Zenon
<1>7. WriteSide(bus) /\ (EndRead(deq_ready) \/ ContinueRead(bus, deq_ready)) BY DEF BufferClock
<1>. HIDE DEF bus
<1>8. bus.addHeader \/ bus.flushFrame =>
        /\ ToWords(bus.tdata.val) \in 0 .. 2 ^ 15 /\ ToWords(bus.tdata.val) \in Int
  <2>1. ToWords(cntFrame) \in 0 .. 2 ^ 15 BY <1>3, LengthAssumption
  <2>2. ToWords(cntFrame) \in Int BY <1>3 DEF ToWords, BytesPerWord
  <2>. QED BY <1>3, <1>5, <2>1, <2>2
<1>9. /\ DOMAIN mem = 0 .. Size - 1 /\ head \in 0 .. Size - 1 /\ tail \in 0 .. Size - 1
      /\ counter \in 0 .. Size - 1 /\ readValue \in 0 .. 2 ^ 15 /\ readFrom \in BOOLEAN
      /\ \A s \in 0 .. Size - 1 : Short(mem[s])
  BY DEF BufferTypeOK, WordsInv
<1>10. Flush(bus) \in 0 .. Size - 1 /\ Address(bus) \in 0 .. Size - 1
  <2>1. head \in Int BY <1>1, <1>9
  <2>2. bus.addHeader \/ bus.flushFrame =>
          /\ head - (ToWords(bus.tdata.val) + 1) \in Int
          /\ head - (ToWords(bus.tdata.val) + 2) \in Int
    BY <1>8, <2>1
  <2>3. /\ bus.flushFrame => (head - (ToWords(bus.tdata.val) + 1)) % Size \in 0 .. Size - 1
        /\ bus.addHeader => (head - (ToWords(bus.tdata.val) + 2)) % Size \in 0 .. Size - 1
    BY <1>2, <2>2, Zenon
  <2>. QED BY <1>9, <2>3, Zenon DEF Flush, Address
<1>11. /\ (head + 1) % Size \in 0 .. Size - 1 /\ (tail + 1) % Size \in 0 .. Size - 1
       /\ (counter + 1) % Size \in 0 .. Size - 1
  <2>1. head + 1 \in Int /\ tail + 1 \in Int /\ counter + 1 \in Int BY <1>1, <1>9
  <2>. QED BY <1>2, <2>1, Zenon
<1>12. head' \in 0 .. Size - 1 BY <1>7, <1>9, <1>10, <1>11, Zenon DEF WriteSide
<1>13. DOMAIN mem' = 0 .. Size - 1 /\ \A s \in 0 .. Size - 1 : Short(mem'[s])
  <2>1. CASE mem' = mem BY <1>9, <2>1
  <2>2. CASE mem' = [mem EXCEPT ![Address(bus)] = bus.tdata] BY <1>6, <1>9, <1>10, <2>2
  <2>. QED BY <1>7, <2>1, <2>2 DEF WriteSide
<1>14. 0 \in 0 .. 2 ^ 15 BY <1>9
<1>15. /\ tail' \in 0 .. Size - 1 /\ counter' \in 0 .. Size - 1
       /\ readFrom' \in BOOLEAN /\ readValue' \in 0 .. 2 ^ 15
  <2>1. CASE EndRead(deq_ready) BY <1>1, <1>11, <1>14, <2>1, Zenon DEF EndRead
  <2>2. CASE ContinueRead(bus, deq_ready)
    <3>1. /\ tail' \in {tail, (tail + 1) % Size} /\ counter' \in {counter, (counter + 1) % Size}
          /\ readFrom' \in BOOLEAN
      BY <2>2, Zenon DEF ContinueRead
    <3>2. readValue' \in 0 .. 2 ^ 15 BY <1>8, <1>9, <2>2, Zenon DEF ContinueRead
    <3>. QED BY <1>9, <1>11, <3>1, <3>2
  <2>. QED BY <1>7, <2>1, <2>2
<1>. QED BY <1>12, <1>13, <1>15, Zenon DEF BufferTypeOK

(* The types of the FIFO, and the words in it. *)
FifoTypeOK ==
  /\ fReadPtr \in 0 .. FifoDepth - 1 /\ fWritePtr \in 0 .. FifoDepth - 1
  /\ fState \in {"idle", "valid", "full"} /\ fEmpty \in BOOLEAN /\ fFull \in BOOLEAN

(* The pointers of the FIFO stay within its memory, and it holds what was put in. *)
LEMMA FifoTypes ==
  ASSUME FifoTypeOK, WordsInv, NEW v, NEW w, NEW r, Short(w), Fifo!Clock(v, w, r)
  PROVE  /\ FifoTypeOK'
         /\ DOMAIN fMem' = 0 .. FifoDepth - 1 /\ \A s \in 0 .. FifoDepth - 1 : Short(fMem'[s])
         /\ Short(fData') /\ Short(fShadow')
<1>1. FifoDepth \in Nat /\ FifoDepth >= 2 BY DeviceAssumption
<1>2. \A p \in 0 .. FifoDepth - 1 : Fifo!nextVal(p) \in 0 .. FifoDepth - 1
  BY <1>1 DEF Fifo!nextVal
<1>3. /\ fReadPtr \in 0 .. FifoDepth - 1 /\ fWritePtr \in 0 .. FifoDepth - 1
      /\ DOMAIN fMem = 0 .. FifoDepth - 1 /\ \A s \in 0 .. FifoDepth - 1 : Short(fMem[s])
      /\ Short(fData) /\ Short(fShadow)
  BY DEF FifoTypeOK, WordsInv
<1>4. /\ Fifo!nextVal(fReadPtr) \in 0 .. FifoDepth - 1
      /\ Fifo!nextVal(fWritePtr) \in 0 .. FifoDepth - 1
  BY <1>2, <1>3
<1>5. /\ fWritePtr' \in 0 .. FifoDepth - 1 /\ DOMAIN fMem' = 0 .. FifoDepth - 1
      /\ \A s \in 0 .. FifoDepth - 1 : Short(fMem'[s])
  <2>1. CASE fMem' = fMem /\ fWritePtr' = fWritePtr BY <1>3, <2>1
  <2>2. CASE fMem' = [fMem EXCEPT ![fWritePtr] = w] /\ fWritePtr' = Fifo!nextVal(fWritePtr)
    BY <1>3, <1>4, <2>2
  <2>. QED BY <2>1, <2>2, Zenon DEF Fifo!Clock, Fifo!WritePort
<1>6. Short(fData')
  <2>1. fData' = Undefined \/ fData' = fMem[fReadPtr] BY DEF Fifo!Clock, Fifo!ReadPort
  <2>. QED BY <1>3, <2>1, Counted, Zenon
<1>7. /\ fReadPtr' \in {fReadPtr, Fifo!nextVal(fReadPtr)}
      /\ fState' \in {"idle", "valid", "full"}
      /\ fEmpty' \in BOOLEAN /\ fFull' \in BOOLEAN /\ fShadow' \in {fShadow, fData}
  BY Zenon DEF Fifo!Clock, Fifo!StateIdle, Fifo!StateValid, Fifo!StateFull, Fifo!Refill,
     Fifo!Fetch, Fifo!NoFetch, FifoTypeOK
<1>. QED BY <1>3, <1>4, <1>5, <1>6, <1>7 DEF FifoTypeOK

(* A word that is taken for a length is one that can be counted. *)
LEMMA LengthTypes ==
  ASSUME NEW w, Short(w), NEW v \in Values(w)
  PROVE  ToWords(v) + 1 \in 0 .. 2 ^ 15 + 1 /\ v \div 2 + 1 \in 0 .. 2 ^ 15
<1>1. v \in (0 .. 2 ^ CntWidth - 1) \union BeatValues BY DEF Short, Values
<1>2. v \div 2 + 1 \in 0 .. 2 ^ 15 BY <1>1, LengthsFit
<1>3. v \in Nat BY <1>1 DEF BeatValues
<1>4. ToWords(v) \in Nat /\ ToWords(v) <= v \div 2 + 1 BY <1>3 DEF ToWords, BytesPerWord
<1>5. PICK k \in Nat : k = 2 ^ 15 BY LengthsFit
<1>. QED BY <1>2, <1>3, <1>4, <1>5

(* Every register of the device and of the driver stays within its range. *)
LEMMA DeviceTypes ==
  ASSUME TypeOK, WordsInv, Next
  PROVE  TypeOK' /\ WordsInv'
<1>. DEFINE ready == ~bufferFull
            enq_ready == Fifo!enq_ready(writeToFIFO)
<1>1. PICK axis \in Axis, cmd \in Commands : Clock(axis, cmd) BY Zenon DEF Next
<1>2. /\ SourceClock(axis_tready(axis, filterIndex, filterSet, ready), filterIndex)
      /\ FilterClock(axis, filterIndex, filterSet, ready)
      /\ BufferClock(filter_bus(axis, filterSet, ready), enq_ready)
  BY <1>1, Zenon DEF Clock, RxClock
<1>3. /\ Fifo!Clock(deq_valid(enq_ready), deq_bits(enq_ready), fifo_deq_ready(cmd))
      /\ fullFIFO' = ~enq_ready /\ Ocp(cmd) /\ Driver(cmd)
  BY <1>1, Zenon DEF Clock
<1>4. PICK endOfFrame : \/ Idle(endOfFrame) \/ Fill \/ FillEmpty
                        \/ WaitForEOF(endOfFrame, enq_ready) \/ EmptyToPatmos(cmd)
  BY <1>1, Zenon DEF Clock
<1>. HIDE DEF ready, enq_ready
<1>5. /\ SourceTypeOK /\ FilterTypeOK /\ BufferTypeOK /\ FifoTypeOK
      /\ filterIndex \in 0 .. 2 ^ CntWidth - 1
  BY DEF TypeOK, RxTypeOK, FifoTypeOK
<1>6. filterIndex \in Nat BY <1>5
<1>7. SourceTypeOK' BY <1>2, <1>5, SourceTypes, Zenon
<1>8. FilterTypeOK' BY <1>2, <1>5, <1>6, FilterTypes, Zenon
<1>9. BufferTypeOK' /\ \A s \in 0 .. Size - 1 : Short(mem'[s]) BY <1>2, <1>5, BufferTypes, Zenon
<1>10. Short(deq_bits(enq_ready))
  <2>1. Short(mem[tail]) BY <1>5 DEF WordsInv, BufferTypeOK
  <2>. QED BY <2>1, Counted DEF deq_bits
<1>11. /\ FifoTypeOK'
       /\ DOMAIN fMem' = 0 .. FifoDepth - 1 /\ \A s \in 0 .. FifoDepth - 1 : Short(fMem'[s])
       /\ Short(fData') /\ Short(fShadow')
  BY <1>3, <1>5, <1>10, FifoTypes, Zenon
<1>12. Short(Fifo!deq_bits) /\ Short(dataReg) BY DEF WordsInv, Fifo!deq_bits
<1>13. Short(dataReg') BY <1>3, <1>12 DEF Ocp
<1>14. WordsInv' BY <1>9, <1>11, <1>13, Zenon DEF WordsInv, Short
<1>15. stateReg' \in {"idle", "fill", "fill_empty", "waitForEOF", "emptyToPatmos"}
       /\ writeToFIFO' \in BOOLEAN
  BY <1>4, Zenon DEF TypeOK, Idle, Fill, FillEmpty, WaitForEOF, EmptyToPatmos, FifoRunsDry
<1>16. frameLength' \in 0 .. 2 ^ 15 + 1
  <2>1. PICK k \in Nat : k = 2 ^ 15 BY LengthsFit
  <2>2. frameLength \in 0 .. k + 1 BY <2>1 DEF TypeOK
  <2>3. \/ frameLength' = frameLength
        \/ frameLength # 0 /\ frameLength' = frameLength - 1
        \/ \E v \in Values(Fifo!deq_bits) : frameLength' = ToWords(v) + 1
    BY <1>4, Zenon DEF Idle, Fill, FillEmpty, WaitForEOF, EmptyToPatmos
  <2>4. CASE \E v \in Values(Fifo!deq_bits) : frameLength' = ToWords(v) + 1
    BY <1>12, <2>4, LengthTypes, Zenon
  <2>5. CASE frameLength' = frameLength \/ (frameLength # 0 /\ frameLength' = frameLength - 1)
    BY <2>1, <2>2, <2>5
  <2>. QED BY <2>3, <2>4, <2>5
<1>17. left' \in 0 .. 2 ^ 15
  <2>1. PICK k \in Nat : k = 2 ^ 15 BY LengthsFit
  <2>2. left \in 0 .. k BY <2>1 DEF TypeOK
  <2>3. \/ left' = left
        \/ left # 0 /\ left' = left - 1
        \/ \E v \in Values(dataReg) : left' = v \div 2 + 1
    BY <1>3 DEF Driver, Consume
  <2>4. CASE \E v \in Values(dataReg) : left' = v \div 2 + 1
    BY <1>12, <2>4, LengthTypes, Zenon
  <2>5. CASE left' = left \/ (left # 0 /\ left' = left - 1)
    BY <2>1, <2>2, <2>5
  <2>. QED BY <2>3, <2>4, <2>5
<1>18. /\ fullFIFO' \in BOOLEAN /\ stopFrameRecording' \in BOOLEAN /\ filterSet' \in BOOLEAN
       /\ readHolder' \in BOOLEAN /\ respReg' \in {"NULL", "DVA"}
       /\ filterIndex' \in 0 .. 2 ^ CntWidth - 1
  <2>1. readHolder' \in BOOLEAN BY <1>3, Zenon DEF Ocp, sendToPatmos, TypeOK
  <2>2. fullFIFO' \in BOOLEAN BY <1>3
  <2>. QED BY <1>3, <1>5, <2>1, <2>2, DeviceAssumption, Zenon DEF Ocp
<1>19. /\ pc' \in {"index", "value", "trigger", "read"}
       /\ inflight' \in {"none", "index", "value", "trigger", "read"}
  <2>1. cmd \in {"none", pc} BY <1>1 DEF Commands
  <2>2. pc' = IF cmd = "none" THEN pc ELSE Follow(cmd) BY <1>3 DEF Driver
  <2>3. inflight' \in {inflight, cmd} BY <1>3 DEF Driver
  <2>. QED BY <2>1, <2>2, <2>3 DEF TypeOK, Follow
<1>20. {fEmpty', fFull', fullFIFO', writeToFIFO', stopFrameRecording', filterSet', readHolder'}
         \subseteq BOOLEAN
  BY <1>11, <1>15, <1>18, Zenon DEF FifoTypeOK
<1>21. TypeOK'
  BY <1>7, <1>8, <1>9, <1>11, <1>15, <1>16, <1>17, <1>18, <1>19, <1>20, Zenon
     DEF TypeOK, RxTypeOK, FifoTypeOK
<1>. QED BY <1>14, <1>21

(* The registers of the device stay within their ranges, even where the buffer overruns and
   a word of data is taken for a length: the pointers wrap, every word that says a number
   says one the filter can count, so that the lengths which the device and the driver count
   down are in range, and the countdowns stop at zero. *)
THEOREM TypesHold == Spec => []TypeOK
<1>1. Init => TypeOK /\ WordsInv
  <2>. SUFFICES ASSUME Init PROVE TypeOK /\ WordsInv OBVIOUS
  <2>1. PICK k \in Nat : k = 2 ^ 15 BY LengthsFit
  <2>2. Size \in Nat /\ Size >= 4 /\ FifoDepth \in Nat /\ FifoDepth >= 2 /\ MinGap \in Nat
    BY SizeAssumption, DeviceAssumption, SourceAssumption
  <2>3. 0 \in 0 .. 2 ^ 15 /\ 0 \in 0 .. 2 ^ 15 + 1 BY <2>1
  <2>4. SourceTypeOK
    <3>1. frame = NoFrame /\ beat = 0 /\ gap = 0 /\ tag = 0 BY DEF Init, RxInit, SourceInit
    <3>2. frame.len = 0 BY <3>1 DEF NoFrame
    <3>. QED BY <2>2, <3>1, <3>2 DEF SourceTypeOK
  <2>5. FilterTypeOK
    <3>1. FilterInit BY Zenon DEF Init, RxInit
    <3>2. 0 \in 0 .. BytesPerWord /\ 0 \in 0 .. BytesPerWord - 1 BY DEF BytesPerWord
    <3>. QED BY <3>1, <3>2, Counted, Zenon DEF FilterInit, FilterTypeOK
  <2>6. BufferTypeOK
    <3>1. BufferInit BY Zenon DEF Init, RxInit
    <3>2. 0 \in 0 .. Size - 1 /\ 1 \in 0 .. Size - 1 BY <2>2
    <3>3. DOMAIN mem = 0 .. Size - 1 BY <3>1 DEF BufferInit
    <3>4. head = 1 /\ tail = 0 /\ readFrom = FALSE /\ readValue = 0 /\ counter = 0
      BY <3>1, Zenon DEF BufferInit
    <3>5. readFrom \in BOOLEAN BY <3>4, Zenon
    <3>6. head \in 0 .. Size - 1 /\ tail \in 0 .. Size - 1 /\ counter \in 0 .. Size - 1
      BY <3>2, <3>4, Zenon
    <3>7. readValue \in 0 .. 2 ^ 15 BY <2>3, <3>4, Zenon
    <3>. QED BY <3>3, <3>5, <3>6, <3>7, Zenon DEF BufferTypeOK
  <2>7. FifoTypeOK
    <3>1. fReadPtr = 0 /\ fWritePtr = 0 /\ fEmpty = TRUE /\ fFull = FALSE /\ fState = "idle"
      BY Zenon DEF Init, Fifo!Init
    <3>2. 0 \in 0 .. FifoDepth - 1 BY <2>2
    <3>. QED BY <3>1, <3>2, Zenon DEF FifoTypeOK
  <2>8. TypeOK
    <3>1. /\ stateReg = "idle" /\ frameLength = 0 /\ filterIndex = 0 /\ respReg = "NULL"
          /\ pc = "index" /\ inflight = "none" /\ left = 0
          /\ fullFIFO = FALSE /\ writeToFIFO = TRUE /\ stopFrameRecording = FALSE
          /\ filterSet = FALSE /\ readHolder = FALSE
      BY DEF Init
    <3>2. {fEmpty, fFull, fullFIFO, writeToFIFO, stopFrameRecording, filterSet, readHolder}
            \subseteq BOOLEAN
      BY <2>7, <3>1, Zenon DEF FifoTypeOK
    <3>. QED
      BY <2>3, <2>4, <2>5, <2>6, <2>7, <3>1, <3>2, Counted, Zenon
         DEF TypeOK, RxTypeOK, FifoTypeOK
  <2>9. WordsInv
    <3>1. /\ mem = [s \in 0 .. Size - 1 |-> Undefined] /\ dataReg = Undefined
          /\ fMem \in [0 .. FifoDepth - 1 -> {Undefined}]
          /\ fData = Undefined /\ fShadow = Undefined
      BY DEF Init, RxInit, BufferInit, Fifo!Init, Fifo!Slot
    <3>2. /\ \A s \in 0 .. Size - 1 : mem[s] = Undefined
          /\ DOMAIN fMem = 0 .. FifoDepth - 1
          /\ \A s \in 0 .. FifoDepth - 1 : fMem[s] = Undefined
      BY <3>1
    <3>. QED BY <3>1, <3>2, Counted, Zenon DEF WordsInv
  <2>. QED BY <2>8, <2>9
<1>2. TypeOK /\ WordsInv /\ [Next]_vars => TypeOK' /\ WordsInv'
  <2>1. ASSUME TypeOK, WordsInv, UNCHANGED vars PROVE TypeOK' /\ WordsInv'
    <3>1. UNCHANGED rxVars /\ UNCHANGED fifoVars /\ UNCHANGED deviceVars /\ UNCHANGED driverVars
      BY <2>1 DEF vars
    <3>2. UNCHANGED sourceVars /\ UNCHANGED filterVars /\ UNCHANGED bufferVars
      BY <3>1 DEF rxVars
    <3>3. RxTypeOK'
      BY <2>1, <3>2 DEF TypeOK, sourceVars, filterVars, bufferVars, RxTypeOK, SourceTypeOK,
         FilterTypeOK, BufferTypeOK
    <3>4. TypeOK' BY <2>1, <3>1, <3>3 DEF TypeOK, fifoVars, deviceVars, driverVars
    <3>5. WordsInv' BY <2>1, <3>1, <3>2 DEF WordsInv, bufferVars, fifoVars, deviceVars, Short
    <3>. QED BY <3>4, <3>5
  <2>. QED BY <2>1, DeviceTypes
<1>. QED BY <1>1, <1>2, PTL DEF Spec
=============================================================================
