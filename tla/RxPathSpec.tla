----------------------------- MODULE RxPathSpec -----------------------------
(* The receive path by itself, with the filter set and a consumer that is always
   ready, or ready whenever it likes. *)
EXTENDS RxPath

CONSTANTS FilterIndex,   \* index of the byte that the filter compares
          MayStall       \* may the consumer be not ready

ASSUME IndexAssumption ==
  /\ FilterIndex \in 0 .. 2 ^ CntWidth - 1
  /\ MayStall \in BOOLEAN

(* What the traffic and the consumer must keep to for the receive path to work: the
   consumer takes a word in every cycle; a frame fits into the buffer and its bytes
   into the counter; the byte that is compared is not in a frame's last beat; and two
   frames that can be wanted differ in length by no more than the gap between them. *)
Reaches(n) == n > FilterIndex \div BytesPerWord

TrafficFits ==
  /\ ~MayStall
  /\ \A n \in FrameLens : /\ n + 3 <= Size
                         /\ BytesPerWord * (n - 1) < 2 ^ CntWidth
                         /\ n # FilterIndex \div BytesPerWord + 1
  /\ \A m, n \in FrameLens : Reaches(m) /\ Reaches(n) => n <= m + MinGap

Next ==
  \E axis \in Axis, deq_ready \in {TRUE, ~MayStall} :
     RxClock(axis, FilterIndex, TRUE, deq_ready)

Spec == RxInit /\ [][Next]_rxVars

(* The clock never stops. *)
FairSpec == Spec /\ WF_rxVars(Next /\ NoNewFrame)

-----------------------------------------------------------------------------
Stream == INSTANCE FrameStream

(* The consumer gets exactly the wanted frames, each whole, with its header in
   front and in the order of arrival: the filter's decision (FShark_filter lines
   79-108), the flush of what an unwanted frame left in the buffer (CircularBuffer
   lines 54, 115-118), the header put back in front (56, 71-76) and the count of
   the words to hand on (94-113) together. *)
HandsOnWantedFrames == Stream!Spec

(* Every word of a wanted frame is handed on in the end, without waiting for a
   further frame (CircularBuffer lines 71-76 and 103-107: readFrom). *)
WantedFramesArrive ==
  \A t \in {0, 1} : (pending # << >> /\ out.turn = t) ~> out.turn # t

(* While a frame is being written, the counter is the number of bytes of the
   beats before the one on the bus: the index comparison, the header and the
   length of a flush all rely on it (FShark_filter lines 48 and 54-57: the sum
   lags one cycle behind the bus). *)
CounterFollowsBus ==
  stateBuffer \in {"Evaluate", "GoodFrame", "AddHeader"} /\ beat # 0
    => cntFrame = BytesPerWord * (beat - 1)

(* From tail on the buffer holds the words that are due, in order, and between
   two frames it holds nothing else: what an unwanted frame wrote is gone (the
   arithmetic on head in CircularBuffer lines 54-56, 85-92, 115-118). *)
BufferHoldsPending ==
  /\ \A i \in 1 .. Len(pending) : mem[(tail + i - 1) % Size] = pending[i]
  /\ stateBuffer = "Idle" => bufferLength = Len(pending)
=============================================================================
