------------------------------- MODULE RxPath -------------------------------
(* The receive path: the MAC's stream, the filter and the circular buffer, wired
   as in class FShark.  All of them take a step at each clock edge.  The consumer
   of the words is open: deq_ready is an input. *)
EXTENDS AxisSource, FSharkFilter, CircularBuffer

(* The counter of the filter fits into the words of the buffer. *)
ASSUME LengthAssumption == \A v \in 0 .. 2 ^ CntWidth - 1 : ToWords(v) \in 0 .. 2 ^ 15

VARIABLES pending,   \* words of wanted frames received, not yet handed on
          out        \* the word handed on last, with a bit that flips for each word

rxVars == <<sourceVars, filterVars, bufferVars, pending, out>>

RxTypeOK ==
  /\ SourceTypeOK
  /\ FilterTypeOK
  /\ BufferTypeOK

RxInit ==
  /\ SourceInit
  /\ FilterInit
  /\ BufferInit
  /\ pending = << >>
  /\ out = [word |-> Undefined, turn |-> 0]

-----------------------------------------------------------------------------
(* History: the words due, and the words handed on. *)

Arrived(tready, filterIndex) ==
  IF beat # 0 /\ tready /\ IsLast /\ Wanted(filterIndex)
  THEN FrameWords(tag, frame.len)
  ELSE << >>

HandedOn(deq_ready) ==
  IF deq_valid(deq_ready)
  THEN out' = [word |-> deq_bits(deq_ready), turn |-> 1 - out.turn]
  ELSE UNCHANGED out

History(tready, filterIndex, deq_ready) ==
  /\ HandedOn(deq_ready)
  /\ pending' = (IF deq_valid(deq_ready) /\ pending # << >> THEN Tail(pending) ELSE pending)
                 \o Arrived(tready, filterIndex)

-----------------------------------------------------------------------------
(* The clock edge, with the combinational signals of the cycle before it. *)

RxClock(axis, filterIndex, filterSet, deq_ready) ==
  LET ready  == ~bufferFull
      tready == axis_tready(axis, filterIndex, filterSet, ready)
      bus    == filter_bus(axis, filterSet, ready)
  IN  /\ SourceClock(tready, filterIndex)
      /\ FilterClock(axis, filterIndex, filterSet, ready)
      /\ BufferClock(bus, deq_ready)
      /\ History(tready, filterIndex, deq_ready)
=============================================================================
