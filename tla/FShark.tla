------------------------------- MODULE FShark -------------------------------
(* The FShark device (class FShark): the receive path feeds the FIFO, a state
   machine records frames into the FIFO, dropping the oldest ones when it is
   full, until the processor pulls the trigger; then it hands the recorded words
   to the processor, one per read.  The processor runs the driver VeriMAC.c: set
   the filter, wait, pull the trigger, read for ever. *)
EXTENDS RxPath

CONSTANTS FifoDepth,     \* words of the FIFO (20000)
          FilterIndex    \* what the driver writes to the filter index register

ASSUME DeviceAssumption ==
  /\ FifoDepth \in Nat /\ FifoDepth >= 2
  /\ FilterIndex \in 0 .. 2 ^ CntWidth - 1

VARIABLES fMem, fData, fReadPtr, fWritePtr, fEmpty, fFull, fState, fShadow,   \* memFifo
          stateReg,             \* the state machine of the device
          fullFIFO,             \* enq.ready of the FIFO was low in the previous cycle
          frameLength,          \* words still to be dropped
          writeToFIFO,
          stopFrameRecording,   \* the trigger
          filterIndex, filterSet,
          readHolder,           \* a read waits for its answer
          respReg, dataReg,     \* S.Resp and S.Data of the OCP port
          pc,                   \* the next command of the driver
          inflight,             \* the command that waits for its response
          left,                 \* words of the current frame the driver has yet to read
          seen                  \* words of the current frame the driver has read

fifoVars == <<fMem, fData, fReadPtr, fWritePtr, fEmpty, fFull, fState, fShadow>>
deviceVars == <<stateReg, fullFIFO, frameLength, writeToFIFO, stopFrameRecording,
                filterIndex, filterSet, readHolder, respReg, dataReg>>
driverVars == <<pc, inflight, left, seen>>
vars == <<rxVars, fifoVars, deviceVars, driverVars>>

Fifo == INSTANCE MemFifo WITH
          Word <- {Undefined}, Depth <- FifoDepth,
          mem <- fMem, data <- fData, readPtr <- fReadPtr, writePtr <- fWritePtr,
          emptyReg <- fEmpty, fullReg <- fFull, stateReg <- fState, shadowReg <- fShadow

TypeOK ==
  /\ RxTypeOK
  /\ fReadPtr \in 0 .. FifoDepth - 1 /\ fWritePtr \in 0 .. FifoDepth - 1
  /\ fState \in {"idle", "valid", "full"}
  /\ stateReg \in {"idle", "fill", "fill_empty", "waitForEOF", "emptyToPatmos"}
  /\ frameLength \in 0 .. 2 ^ 15 + 1
  /\ {fEmpty, fFull, fullFIFO, writeToFIFO, stopFrameRecording, filterSet, readHolder}
       \subseteq BOOLEAN
  /\ filterIndex \in 0 .. 2 ^ CntWidth - 1
  /\ respReg \in {"NULL", "DVA"}
  /\ pc \in {"index", "value", "trigger", "read"}
  /\ inflight \in {"none", "index", "value", "trigger", "read"}
  /\ left \in 0 .. 2 ^ 15

Init ==
  /\ RxInit
  /\ Fifo!Init
  /\ stateReg = "idle"
  /\ fullFIFO = FALSE
  /\ frameLength = 0
  /\ writeToFIFO = TRUE
  /\ stopFrameRecording = FALSE
  /\ filterIndex = 0
  /\ filterSet = FALSE
  /\ readHolder = FALSE
  /\ respReg = "NULL"
  /\ dataReg = Undefined
  /\ pc = "index"
  /\ inflight = "none"
  /\ left = 0
  /\ seen = << >>

-----------------------------------------------------------------------------
(* The processor.  A command is on the bus for one cycle; the next one may be
   issued, at the earliest, in the cycle of the response. *)

Commands == IF inflight # "none" /\ respReg # "DVA" THEN {"none"} ELSE {"none", pc}

Follow(cmd) ==
  CASE cmd = "index"   -> "value"
    [] cmd = "value"   -> "trigger"
    [] cmd = "trigger" -> "read"
    [] cmd = "read"    -> "read"

(* The value of a word that is taken for a length.  A beat can have any value;
   BeatValues bounds the ones explored. *)
BeatValues == {0, 2, 4}

Values(w) == IF w.kind = "number" THEN {w.val} ELSE BeatValues

(* The words of a frame of any of these lengths can be counted. *)
ASSUME LengthsFit ==
  /\ 2 ^ 15 \in Nat
  /\ \A v \in (0 .. 2 ^ CntWidth - 1) \union BeatValues : v \div 2 + 1 \in 0 .. 2 ^ 15

(* The driver takes the first word of a frame for its length and reads as many
   more as that says, plus one. *)
Consume ==
  IF inflight = "read" /\ respReg = "DVA"
  THEN /\ left' \in IF left = 0 THEN {v \div 2 + 1 : v \in Values(dataReg)} ELSE {left - 1}
       /\ seen' = IF left = 0 THEN <<dataReg>> ELSE Append(seen, dataReg)
  ELSE UNCHANGED <<left, seen>>

Driver(cmd) ==
  /\ pc' = IF cmd = "none" THEN pc ELSE Follow(cmd)
  /\ inflight' = IF cmd = "none" /\ respReg # "DVA" THEN inflight ELSE cmd
  /\ Consume

-----------------------------------------------------------------------------
(* Signals of a cycle. *)

(* Mutant: a read is held beyond its response. *)
sendToPatmosStuck(cmd) == cmd = "read" \/ readHolder

sendToPatmos(cmd) ==
  IF cmd = "read" \/ respReg = "DVA" THEN cmd = "read" ELSE readHolder

(* Mutant: the FIFO is emptied whether or not a read waits. *)
fifo_deq_readyAlways(cmd) == Fifo!deq_valid /\ stateReg \in {"fill_empty", "emptyToPatmos"}

(* The FIFO gives a word away: it is dropped, or answers a read. *)
fifo_deq_ready(cmd) ==
  /\ Fifo!deq_valid
  /\ \/ stateReg = "fill_empty"
     \/ stateReg = "emptyToPatmos" /\ sendToPatmos(cmd)

-----------------------------------------------------------------------------
(* The state machine. *)

Idle(endOfFrame) ==
  /\ stateReg = "idle"
  /\ stateReg' = IF endOfFrame THEN "fill" ELSE "idle"
  /\ UNCHANGED <<frameLength, writeToFIFO>>

(* Mutant: the header is not counted among the words to drop. *)
FillNoHeader ==
  /\ stateReg = "fill"
  /\ \/ /\ fullFIFO
        /\ stateReg' = "fill_empty"
        /\ \/ frameLength # 0 /\ UNCHANGED frameLength
           \/ frameLength = 0 /\ \E v \in Values(Fifo!deq_bits) : frameLength' = ToWords(v)
     \/ /\ ~fullFIFO
        /\ stateReg' = IF stopFrameRecording THEN "waitForEOF" ELSE "fill"
        /\ UNCHANGED frameLength
  /\ UNCHANGED writeToFIFO

(* Mutant: a full FIFO is not relieved. *)
FillNoDrop ==
  /\ stateReg = "fill"
  /\ stateReg' = IF stopFrameRecording THEN "waitForEOF" ELSE "fill"
  /\ UNCHANGED <<frameLength, writeToFIFO>>

(* Frames are recorded until the trigger, or until the FIFO is full: then its
   first word, a header, tells how many words to drop. *)
Fill ==
  /\ stateReg = "fill"
  /\ \/ /\ fullFIFO
        /\ stateReg' = "fill_empty"
        /\ \/ frameLength # 0 /\ UNCHANGED frameLength
           \/ frameLength = 0 /\ \E v \in Values(Fifo!deq_bits) : frameLength' = ToWords(v) + 1
     \/ /\ ~fullFIFO
        /\ stateReg' = IF stopFrameRecording THEN "waitForEOF" ELSE "fill"
        /\ UNCHANGED frameLength
  /\ UNCHANGED writeToFIFO

(* Mutant: the countdown does not stop at zero. *)
FillEmptyUnderflow ==
  /\ stateReg = "fill_empty"
  /\ frameLength' = frameLength - 1
  /\ stateReg' = IF frameLength # 0 THEN stateReg
                 ELSE IF stopFrameRecording THEN "waitForEOF" ELSE "fill"
  /\ UNCHANGED writeToFIFO

(* The FIFO gives a word away in each cycle of this state, the last included. *)
FillEmpty ==
  /\ stateReg = "fill_empty"
  /\ \/ frameLength # 0 /\ frameLength' = frameLength - 1 /\ UNCHANGED stateReg
     \/ /\ frameLength = 0
        /\ stateReg' = IF stopFrameRecording THEN "waitForEOF" ELSE "fill"
        /\ UNCHANGED frameLength
  /\ UNCHANGED writeToFIFO

(* Mutant: only the end of a further frame ends the wait. *)
WaitForEOFOnly(endOfFrame, enq_ready) ==
  /\ stateReg = "waitForEOF"
  /\ stateReg' = IF endOfFrame THEN "emptyToPatmos" ELSE "waitForEOF"
  /\ UNCHANGED <<frameLength, writeToFIFO>>

WaitForEOF(endOfFrame, enq_ready) ==
  /\ stateReg = "waitForEOF"
  /\ stateReg' = IF endOfFrame \/ ~(frameRecieving(enq_ready) \/ deq_valid(enq_ready))
                 THEN "emptyToPatmos" ELSE "waitForEOF"
  /\ UNCHANGED <<frameLength, writeToFIFO>>

(* A read that finds the FIFO empty ends the emptying; it gets no answer. *)
FifoRunsDry(cmd) ==
  stateReg = "emptyToPatmos" /\ sendToPatmos(cmd) /\ ~Fifo!deq_valid

EmptyToPatmos(cmd) ==
  /\ stateReg = "emptyToPatmos"
  /\ stateReg' = IF FifoRunsDry(cmd) THEN "idle" ELSE "emptyToPatmos"
  /\ writeToFIFO' = FifoRunsDry(cmd)
  /\ UNCHANGED frameLength

-----------------------------------------------------------------------------
(* The OCP port. *)

(* Mutant: the trigger is not held. *)
OcpTriggerPulse(cmd) ==
  /\ respReg' = IF \/ cmd \in {"index", "value", "trigger"}
                   \/ stateReg = "emptyToPatmos" /\ fifo_deq_ready(cmd)
                THEN "DVA" ELSE "NULL"
  /\ dataReg' = Fifo!deq_bits
  /\ readHolder' = sendToPatmos(cmd)
  /\ stopFrameRecording' = (cmd = "trigger")
  /\ filterIndex' = IF cmd = "index" THEN FilterIndex ELSE filterIndex
  /\ filterSet' = (cmd = "value" \/ (filterSet /\ cmd # "index"))

(* A write is answered at once, a read when the FIFO gives it a word.  Writing the
   index switches the filter off until the value is written. *)
Ocp(cmd) ==
  /\ respReg' = IF \/ cmd \in {"index", "value", "trigger"}
                   \/ stateReg = "emptyToPatmos" /\ fifo_deq_ready(cmd)
                THEN "DVA" ELSE "NULL"
  /\ dataReg' = Fifo!deq_bits
  /\ readHolder' = sendToPatmos(cmd)
  /\ stopFrameRecording' = (cmd = "trigger" \/ (stopFrameRecording /\ ~FifoRunsDry(cmd)))
  /\ filterIndex' = IF cmd = "index" THEN FilterIndex ELSE filterIndex
  /\ filterSet' = (cmd = "value" \/ (filterSet /\ cmd # "index"))

-----------------------------------------------------------------------------
Clock(axis, cmd) ==
  LET enq_ready == Fifo!enq_ready(writeToFIFO)
      endOfFrame == filter_bus(axis, filterSet, ~bufferFull).addHeader
  IN  /\ RxClock(axis, filterIndex, filterSet, enq_ready)
      /\ Fifo!Clock(deq_valid(enq_ready), deq_bits(enq_ready), fifo_deq_ready(cmd))
      /\ \/ Idle(endOfFrame)
         \/ Fill
         \/ FillEmpty
         \/ WaitForEOF(endOfFrame, enq_ready)
         \/ EmptyToPatmos(cmd)
      /\ fullFIFO' = ~enq_ready
      /\ Ocp(cmd)
      /\ Driver(cmd)

Next == \E axis \in Axis, cmd \in Commands : Clock(axis, cmd)

Spec == Init /\ [][Next]_vars

(* The clock never stops, and the driver goes on when it can. *)
FairSpec == Spec /\ WF_vars(Next /\ NoNewFrame)

-----------------------------------------------------------------------------
(* The driver has not pulled the trigger. *)
Recording == pc # "read"

(* While frames are recorded and dropped, the first word of the FIFO is the header
   of a whole frame whenever the device may take it for a length (FShark lines
   195-200): each drop removes exactly the words of one frame (203-217). *)
FrontIsHeader ==
  Recording /\ stateReg = "fill" /\ Fifo!Contents # << >> => Head(Fifo!Contents).kind = "number"

(* What the driver prints as a frame is one (VeriMAC lines 42-52): what it has read
   since it last took a word for a length is the beginning of a wanted frame,
   header first, however often the FIFO overflowed and whenever the trigger came. *)
DriverReadsWholeFrames ==
  \E t \in {0, 1}, n \in FrameLens :
     Len(seen) <= n + 1 /\ seen = SubSeq(FrameWords(t, n), 1, Len(seen))

(* The device never answers without having been asked (FShark lines 247-252:
   readHolder is dropped with the response; 163: the default). *)
ResponseHasCommand == respReg = "DVA" => inflight # "none"

(* Before the trigger the circular buffer never fills up, so that the MAC is never
   held: dropping old frames keeps up with new ones (FShark lines 195, 203). *)
RecordingNeverStalls == Recording => ~bufferFull

(* When the emptying starts, the frame that was being handed to the FIFO is
   complete ("Wait for the current frame to be filled", FShark line 220). *)
FrameIsFilled == stateReg = "emptyToPatmos" /\ ~writeToFIFO => counter = 0

(* Once something was recorded, a trigger ends the recording even if no further
   frame arrives (FShark lines 192, 211, 223-227). *)
TriggerEndsRecording ==
  (stopFrameRecording /\ stateReg # "idle") ~> stateReg = "emptyToPatmos"

(* Wanted frames keep arriving. *)
WantedTraffic == []<>(tag = 0) /\ []<>(tag = 1)

(* While wanted frames keep arriving, a trigger is always served, also when it
   comes before the first frame (FShark lines 184-188, 259). *)
TriggerServed == WantedTraffic => (stopFrameRecording ~> stateReg = "emptyToPatmos")

(* While wanted frames keep arriving, every read is answered (FShark lines
   230-243). *)
ReadsAnswered == WantedTraffic => (inflight = "read" ~> respReg = "DVA")
=============================================================================
