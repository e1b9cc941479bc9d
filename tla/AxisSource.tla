----------------------------- MODULE AxisSource -----------------------------
(* The receive side of the Ethernet MAC as its AXI-Stream port shows it: frames
   of 16-bit beats out of a frame FIFO.  tvalid does not fall within a frame, a
   beat stays on the bus until tready, and while tvalid is low the other signals
   are what the output registers happen to hold. *)
EXTENDS Words

CONSTANTS FrameLens,   \* the lengths of frames, in beats
          Odd,         \* may the last beat have one byte only: a subset of BOOLEAN
          Marks,       \* where the filter value may stand in a frame
          MinGap       \* least number of idle cycles between two frames

ASSUME SourceAssumption ==
  /\ FrameLens \subseteq Nat \ {0, 1}
  /\ Odd \subseteq BOOLEAN
  /\ Marks \subseteq Nat
  /\ MinGap \in Nat

VARIABLES frame,   \* the frame on the bus, or NoFrame
          beat,    \* the number of its beat on the bus, 0 when the bus is idle
          gap,     \* idle cycles still to come before the next frame
          tag      \* the tag of the next wanted frame

sourceVars == <<frame, beat, gap, tag>>

(* A frame: its number of beats, whether its last beat has one byte only, and
   the position of the byte that equals the filter value (0: no byte does). *)
Bytes(fr) == BytesPerWord * fr.len - (IF fr.odd THEN 1 ELSE 0)

Frames ==
  {fr \in [len : FrameLens, odd : Odd, mark : Marks] : fr.mark <= Bytes(fr)}

NoFrame == [len |-> 0, odd |-> FALSE, mark |-> 0]

SourceTypeOK ==
  /\ frame \in Frames \union {NoFrame}
  /\ beat \in 0 .. frame.len
  /\ beat = 0 <=> frame = NoFrame
  /\ gap \in 0 .. MinGap
  /\ tag \in {0, 1}

(* Does a filter on the byte with this index, counted from 0, keep the frame? *)
Wanted(index) == frame.mark = index + 1

SourceInit == frame = NoFrame /\ beat = 0 /\ gap = 0 /\ tag = 0

-----------------------------------------------------------------------------
IsLast == beat = frame.len

(* The byte lanes of the beat on the bus that hold the filter value. *)
Hits == {lane \in 0 .. BytesPerWord - 1 :
           frame.mark = BytesPerWord * (beat - 1) + lane + 1}

(* The signals in a cycle; keep is the number of bits set in tkeep. *)
Axis ==
  IF beat # 0
  THEN {[tvalid |-> TRUE,
         tlast  |-> IsLast,
         keep   |-> IF IsLast /\ frame.odd THEN 1 ELSE BytesPerWord,
         tdata  |-> Beat(tag, beat),
         hits   |-> Hits]}
  ELSE [tvalid : {FALSE}, tlast : BOOLEAN, keep : 1 .. BytesPerWord,
        tdata : {Undefined}, hits : {{}, 0 .. BytesPerWord - 1}]

-----------------------------------------------------------------------------
(* What the bus shows when g more idle cycles are due. *)
Between(g) ==
  IF g = 0
  THEN /\ gap' = 0
       /\ \/ frame' \in Frames /\ beat' = 1
          \/ frame' = NoFrame /\ beat' = 0
  ELSE gap' = g - 1 /\ frame' = NoFrame /\ beat' = 0

SourceIdle == beat = 0 /\ Between(gap) /\ UNCHANGED tag

SourceWaits(tready) == beat # 0 /\ ~tready /\ UNCHANGED sourceVars

SourceAdvances(tready) ==
  /\ beat # 0 /\ tready /\ ~IsLast
  /\ beat' = beat + 1
  /\ UNCHANGED <<frame, gap, tag>>

SourceEnds(tready, index) ==
  /\ beat # 0 /\ tready /\ IsLast
  /\ tag' = IF Wanted(index) THEN 1 - tag ELSE tag
  /\ Between(MinGap)

SourceClock(tready, index) ==
  \/ SourceIdle
  \/ SourceWaits(tready)
  \/ SourceAdvances(tready)
  \/ SourceEnds(tready, index)

(* No frame starts on an idle bus.  Fairness is asked of such steps only: the
   clock never stops, but nobody has to send a frame. *)
NoNewFrame == beat = 0 => beat' = 0
=============================================================================
