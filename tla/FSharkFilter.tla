---------------------------- MODULE FSharkFilter ----------------------------
(* The frame filter (class FShark_filter, 16 bits wide).  It passes the beats of
   a frame on to the circular buffer while it counts bytes; when the counter
   reaches the word of filterIndex it compares one byte with filterValue.  After
   the last beat of a wanted frame it writes the count as a header, after an
   unwanted frame it makes the buffer flush what was written.

   Inputs of a cycle: axis, the signals of the AXI-Stream bus; filterIndex and
   filterSet, registers of the top level; ready, from the buffer.  The value
   comparison is abstracted to axis.hits, the byte lanes that equal filterValue. *)
EXTENDS Words

CONSTANT CntWidth   \* width of cntFrame and filterIndex in bits (12)

ASSUME WidthAssumption == CntWidth \in Nat /\ 2 ^ CntWidth \in Nat \ {0}

VARIABLES stateBuffer,
          cntFrame,      \* byte counter of the current frame
          cntBytes,      \* number of valid bytes of the previous cycle's beat
          indexHighLow   \* byte lane selected by filterIndex

filterVars == <<stateBuffer, cntFrame, cntBytes, indexHighLow>>

FilterTypeOK ==
  /\ stateBuffer \in {"Idle", "Evaluate", "BadFrame", "GoodFrame", "FlushFrame", "AddHeader"}
  /\ cntFrame \in 0 .. 2 ^ CntWidth - 1
  /\ cntBytes \in 0 .. BytesPerWord
  /\ indexHighLow \in 0 .. BytesPerWord - 1

FilterInit ==
  /\ stateBuffer = "Idle"
  /\ cntFrame = 0
  /\ cntBytes = 0
  /\ indexHighLow = 0

-----------------------------------------------------------------------------
(* Conditions and outputs of a cycle. *)

AtIndex(filterIndex) == cntFrame \div BytesPerWord = filterIndex \div BytesPerWord

(* The frame ends before the word of filterIndex. *)
TooShort(axis, filterIndex) ==
  ~AtIndex(filterIndex) /\ cntFrame < filterIndex /\ axis.tlast

axis_tready(axis, filterIndex, filterSet, ready) ==
  /\ ready /\ filterSet
  /\ \/ stateBuffer = "Evaluate" /\ ~TooShort(axis, filterIndex)
     \/ stateBuffer \in {"GoodFrame", "BadFrame"} /\ ~axis.tlast
     \/ stateBuffer \in {"AddHeader", "FlushFrame"}

filter_bus(axis, filterSet, ready) ==
  LET active == ready /\ filterSet
  IN  [valid |-> active /\ \/ stateBuffer \notin {"Idle", "BadFrame"}
                           \/ stateBuffer = "BadFrame" /\ axis.tlast,
       flushFrame |-> active /\ stateBuffer = "FlushFrame",
       addHeader  |-> active /\ stateBuffer = "AddHeader",
       tdata |-> IF ~active THEN Number(0)
                 ELSE IF stateBuffer \in {"Evaluate", "GoodFrame"} THEN axis.tdata
                 ELSE IF stateBuffer \in {"AddHeader", "FlushFrame"} THEN Number(cntFrame)
                 ELSE Number(0)]

-----------------------------------------------------------------------------
(* The clock edge. *)

(* The counter runs whenever a beat is on the bus, taken or not. *)
Count(axis, filterSet) ==
  cntFrame' = IF axis.tvalid /\ filterSet
              THEN (cntFrame + cntBytes) % 2 ^ CntWidth
              ELSE cntFrame

(* Mutant: the counter is not reset between frames. *)
BufferIdleNoReset(axis) ==
  /\ stateBuffer = "Idle"
  /\ Count(axis, TRUE)
  /\ stateBuffer' = IF axis.tvalid THEN "Evaluate" ELSE "Idle"

BufferIdle(axis) ==
  /\ stateBuffer = "Idle"
  /\ cntFrame' = 0
  /\ stateBuffer' = IF axis.tvalid THEN "Evaluate" ELSE "Idle"

BufferEvaluate(axis, filterIndex, filterSet) ==
  /\ stateBuffer = "Evaluate"
  /\ \/ /\ AtIndex(filterIndex)
        /\ stateBuffer' = IF indexHighLow \in axis.hits THEN "GoodFrame" ELSE "BadFrame"
        /\ Count(axis, filterSet)
     \/ /\ TooShort(axis, filterIndex)
        /\ stateBuffer' = "FlushFrame"
        /\ UNCHANGED cntFrame
     \/ /\ ~AtIndex(filterIndex) /\ ~TooShort(axis, filterIndex)
        /\ Count(axis, filterSet)
        /\ UNCHANGED stateBuffer

BufferGoodFrame(axis, filterSet) ==
  /\ stateBuffer = "GoodFrame"
  /\ \/ axis.tlast /\ stateBuffer' = "AddHeader" /\ UNCHANGED cntFrame
     \/ ~axis.tlast /\ Count(axis, filterSet) /\ UNCHANGED stateBuffer

BufferAddHeader(axis, filterSet) ==
  /\ stateBuffer = "AddHeader"
  /\ stateBuffer' = "Idle"
  /\ Count(axis, filterSet)

BufferBadFrame(axis) ==
  /\ stateBuffer = "BadFrame"
  /\ stateBuffer' = IF axis.tlast THEN "FlushFrame" ELSE "BadFrame"
  /\ UNCHANGED cntFrame

BufferFlushFrame ==
  /\ stateBuffer = "FlushFrame"
  /\ stateBuffer' = "Idle"
  /\ UNCHANGED cntFrame

(* The buffer is full or the filter is not set: only the counter may move. *)
Stalled(axis, filterSet) == Count(axis, filterSet) /\ UNCHANGED stateBuffer

FilterClock(axis, filterIndex, filterSet, ready) ==
  /\ IF ready /\ filterSet
     THEN \/ BufferIdle(axis)
          \/ BufferEvaluate(axis, filterIndex, filterSet)
          \/ BufferGoodFrame(axis, filterSet)
          \/ BufferAddHeader(axis, filterSet)
          \/ BufferBadFrame(axis)
          \/ BufferFlushFrame
     ELSE Stalled(axis, filterSet)
  /\ cntBytes' = axis.keep
  /\ indexHighLow' = filterIndex % BytesPerWord
=============================================================================
