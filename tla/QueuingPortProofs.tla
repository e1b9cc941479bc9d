------------------------- MODULE QueuingPortProofs -------------------------
(* Facts about the queuing port for every number of slots, size of a message, width of
   the counters and number of messages: an inductive invariant that ties the wrapping
   counters, the slots with their flags and the message under way together, and that
   every step of the port keeps it and is a step, or none, of a bounded queue. *)
EXTENDS QueuingPort, TLAPS

(* No leaf is given up too soon on a busy machine. *)
USE SMTT(60), ZenonT(60)

-----------------------------------------------------------------------------
(* Counters that wrap. *)

(* Multiples of n are at least n apart. *)
LEMMA MulPos == \A n \in Nat \ {0}, d \in Int : d >= 1 => n * d >= n
  OBVIOUS

(* The same below zero. *)
LEMMA MulNeg == \A n \in Nat \ {0}, d \in Int : d <= -1 => n * d <= -n
  OBVIOUS

(* Division with a remainder, and that it is the only one. *)
LEMMA Euclid ==
  ASSUME NEW n \in Nat \ {0}, NEW a \in Int
  PROVE  \E q \in Int, r \in 0 .. n - 1 : a = n * q + r /\ a % n = r
<1>1. a % n \in 0 .. n - 1 /\ a \div n \in Int /\ a = n * (a \div n) + (a % n)
  OBVIOUS
<1> QED
  BY <1>1

(* The remainder of a number that is written as a multiple plus a rest. *)
LEMMA ModIs ==
  ASSUME NEW n \in Nat \ {0}, NEW q \in Int, NEW r \in 0 .. n - 1
  PROVE  (n * q + r) % n = r
<1>1. n * q + r \in Int
  OBVIOUS
<1>2. PICK p \in Int, s \in 0 .. n - 1 : n * q + r = n * p + s /\ (n * q + r) % n = s
  BY <1>1, Euclid, Zenon
<1>3. n * (q - p) = s - r
  BY <1>2
<1>4. ~(q - p >= 1)
  BY <1>3, MulPos
<1>5. ~(q - p <= -1)
  BY <1>3, MulNeg
<1>6. q = p
  BY <1>4, <1>5
<1> QED
  BY <1>2, <1>6

(* The next slot, as mp_nbsend and mp_nbrecv compute it. *)
LEMMA ModNext ==
  ASSUME NEW n \in Nat \ {0}, NEW a \in Int
  PROVE  (a + 1) % n = IF a % n = n - 1 THEN 0 ELSE (a % n) + 1
<1>1. PICK q \in Int, r \in 0 .. n - 1 : a = n * q + r /\ a % n = r
  BY Euclid, Zenon
<1>2. CASE r = n - 1
  <2>1. a + 1 = n * (q + 1) + 0
    BY <1>1, <1>2
  <2>2. q + 1 \in Int /\ 0 \in 0 .. n - 1
    OBVIOUS
  <2> QED
    BY <1>1, <1>2, <2>1, <2>2, ModIs
<1>3. CASE r # n - 1
  <2>1. a + 1 = n * q + (r + 1) /\ r + 1 \in 0 .. n - 1
    BY <1>1, <1>3
  <2> QED
    BY <1>1, <1>3, <2>1, ModIs
<1> QED
  BY <1>2, <1>3

(* A counter that wraps counts modulo n. *)
LEMMA ModAdd ==
  ASSUME NEW n \in Nat \ {0}, NEW a \in Int, NEW k \in Int
  PROVE  ((a % n) + k) % n = (a + k) % n
<1>1. PICK q \in Int, r \in 0 .. n - 1 : a = n * q + r /\ a % n = r
  BY Euclid, Zenon
<1>2. r + k \in Int
  BY <1>1
<1>3. PICK p \in Int, s \in 0 .. n - 1 : r + k = n * p + s /\ (r + k) % n = s
  BY <1>2, Euclid, Zenon
<1>4. a + k = n * (q + p) + s /\ q + p \in Int
  BY <1>1, <1>3
<1>5. (n * (q + p) + s) % n = s
  BY <1>3, <1>4, ModIs
<1> QED
  BY <1>1, <1>3, <1>4, <1>5

(* Numbers less than n apart are told apart by their remainders ... *)
LEMMA ModInjective ==
  ASSUME NEW n \in Nat \ {0}, NEW a \in Int, NEW b \in Int,
         a <= b, b - a < n, a % n = b % n
  PROVE  a = b
<1>1. PICK q \in Int, r \in 0 .. n - 1 : a = n * q + r /\ a % n = r
  BY Euclid, Zenon
<1>2. PICK p \in Int, s \in 0 .. n - 1 : b = n * p + s /\ b % n = s
  BY Euclid
<1>3. b - a = n * (p - q)
  BY <1>1, <1>2
<1>4. ~(p - q >= 1)
  BY <1>3, MulPos
<1>5. ~(p - q <= -1)
  BY <1>3, MulNeg
<1> QED
  BY <1>1, <1>2, <1>4, <1>5

(* ... and their distance is that of the remainders: the test for a full queue. *)
LEMMA ModDistance ==
  ASSUME NEW n \in Nat \ {0}, NEW a \in Int, NEW b \in Int, a <= b, b - a < n
  PROVE  ((b % n) - (a % n)) % n = b - a
<1>1. PICK q \in Int, r \in 0 .. n - 1 : a = n * q + r /\ a % n = r
  BY Euclid, Zenon
<1>2. PICK p \in Int, s \in 0 .. n - 1 : b = n * p + s /\ b % n = s
  BY Euclid, Zenon
<1>3. b - a \in 0 .. n - 1 /\ q - p \in Int
  BY <1>1, <1>2
<1>4. s - r = n * (q - p) + (b - a)
  BY <1>1, <1>2
<1>5. (n * (q - p) + (b - a)) % n = b - a
  BY <1>3, ModIs
<1> QED
  BY <1>1, <1>2, <1>4, <1>5

-----------------------------------------------------------------------------
(* The inductive invariant. *)

DataIndex == 1 .. MsgWords

QueueTypeOK ==
  /\ pcSrc \in {"create", "ports", "run"} /\ pcSink \in {"create", "clear", "ports", "run"}
  /\ cleared \in 0 .. NumBuf /\ wb \in {0, 1}
  /\ write_bufs \in [{0, 1} -> [DataIndex -> Nat]]
  /\ slots \in [Slot -> [DataIndex -> Nat]] /\ flags \in [Slot -> BOOLEAN]
  /\ sent \in 0 .. MaxMsgs /\ received \in Nat /\ acked \in Nat
  /\ dma = [e \in Ends |-> dma[e]]

(* Nothing moves before both ports exist and the flags are cleared. *)
QueueIsSetUp ==
  /\ pcSrc # "run" => sent = 0
  /\ pcSrc = "run" => pcSink \in {"ports", "run"}

(* The source knows of some number of acknowledgements: acked, unless a newer count is
   on its way.  The counters are the numbers of messages, wrapped. *)
CountersAgree ==
  \E known \in 0 .. acked :
    /\ acked <= received /\ received <= sent /\ sent <= known + NumBuf
    /\ send_count = sent % CountMod /\ send_recv_count = known % CountMod
    /\ recv_count = acked % CountMod
    /\ send_ptr = sent % NumBuf /\ recv_ptr = received % NumBuf

InFlight == dma["src"].kind = "data"
Arrived == IF InFlight THEN sent - 1 ELSE sent
SlotOf(k) == (k - 1) % NumBuf

(* The message under way is the last one sent; it is moved from the write buffer that the
   application does not fill to its slot. *)
TransferIsSane ==
  /\ received <= Arrived
  /\ InFlight =>
       /\ dma["src"] = Transfer(1 - wb, SlotOf(sent), dma["src"].at)
       /\ dma["src"].at \in 1 .. MsgWords + 1
       /\ write_bufs[1 - wb] = Message(sent)
       /\ \A j \in 1 .. dma["src"].at - 1 : slots[SlotOf(sent)][j] = sent

SlotsHold == \A k \in acked + 1 .. Arrived : slots[SlotOf(k)] = Message(k)

(* A flag is set exactly when a message has arrived in its slot and was not received. *)
FlagsTell ==
  /\ pcSink = "clear" => \A s \in Slot : s < cleared => ~flags[s]
  /\ pcSink \in {"ports", "run"} =>
       \A s \in Slot : flags[s] <=> \E k \in received + 1 .. Arrived : s = SlotOf(k)

QueueInv == QueueTypeOK /\ QueueIsSetUp /\ CountersAgree /\ TransferIsSane /\ SlotsHold /\ FlagsTell

(* chan_info tells the truth about the ports of this channel. *)
QueueRegistered ==
  ("src" \in registered => pcSrc # "create") /\ ("sink" \in registered => pcSink # "create")

-----------------------------------------------------------------------------
(* The entries of the queue are told from the others by their kind. *)
LEMMA KindFacts ==
  /\ Idle.kind = "idle" /\ Other.kind = "other" /\ Ack.kind = "ack"
  /\ \A b, s, at : /\ Transfer(b, s, at).kind = "data" /\ Transfer(b, s, at).buf = b
                   /\ Transfer(b, s, at).slot = s /\ Transfer(b, s, at).at = at
  /\ "src" \in Ends /\ "sink" \in Ends
  BY DEF Idle, Other, Ack, Transfer, Ends

(* A message's number, modulo the number of buffers, names a slot. *)
LEMMA SlotType == \A k \in Int : SlotOf(k) \in Slot
  BY QueueAssumption DEF SlotOf, Slot

(* Messages that were not acknowledged have slots of their own. *)
LEMMA SlotsDiffer ==
  ASSUME QueueTypeOK, CountersAgree,
         NEW k \in acked + 1 .. sent, NEW l \in acked + 1 .. sent, SlotOf(k) = SlotOf(l)
  PROVE  k = l
<1>1. sent - acked <= NumBuf /\ acked \in Nat /\ sent \in Nat /\ NumBuf \in Nat \ {0}
  BY QueueAssumption DEF CountersAgree, QueueTypeOK
<1>2. CASE k <= l
  <2>1. k - 1 \in Int /\ l - 1 \in Int /\ k - 1 <= l - 1 /\ (l - 1) - (k - 1) < NumBuf
    BY <1>1, <1>2
  <2>2. k - 1 = l - 1
    BY <1>1, <2>1, ModInjective, Zenon DEF SlotOf
  <2> QED
    BY <2>2
<1>3. CASE l <= k
  <2>1. k - 1 \in Int /\ l - 1 \in Int /\ l - 1 <= k - 1 /\ (k - 1) - (l - 1) < NumBuf
    BY <1>1, <1>3
  <2>2. l - 1 = k - 1
    BY <1>1, <2>1, ModInjective, Zenon DEF SlotOf
  <2> QED
    BY <2>2
<1> QED
  BY <1>2, <1>3

(* mp_create_qport at the source: nothing was sent. *)
LEMMA SourceCreateKeeps ==
  ASSUME QueueInv, QueueRegistered, SourceCreate
  PROVE  QueueInv'
<1>1. QueueTypeOK'
  BY QueueAssumption, KindFacts, SlotType
     DEF SourceCreate, Register, srcVars, sinkVars, QueueInv, QueueRegistered, QueueTypeOK,
         QueueIsSetUp, Slot, DataIndex
<1>2. QueueIsSetUp'
  BY QueueAssumption, KindFacts, SlotType
     DEF SourceCreate, Register, srcVars, sinkVars, QueueInv, QueueRegistered, QueueTypeOK,
         QueueIsSetUp, OtherIsRegistered, Remote, SinkIsTimely
<1>3. CountersAgree'
  <2>1. sent = 0 /\ received = 0 /\ acked = 0
    BY DEF SourceCreate, QueueInv, QueueTypeOK, QueueIsSetUp, CountersAgree
  <2>2. 0 % CountMod = 0 /\ 0 % NumBuf = 0
    BY QueueAssumption
  <2> QED
    BY <2>1, <2>2, QueueAssumption DEF SourceCreate, QueueInv, CountersAgree, sinkVars
<1>4. TransferIsSane'
  BY QueueAssumption, KindFacts, SlotType
     DEF SourceCreate, Register, srcVars, sinkVars, QueueInv, QueueRegistered, QueueTypeOK,
         QueueIsSetUp, TransferIsSane, InFlight, Arrived, SlotOf
<1>5. SlotsHold'
  BY QueueAssumption, KindFacts, SlotType
     DEF SourceCreate, Register, srcVars, sinkVars, QueueInv, QueueRegistered, QueueTypeOK,
         QueueIsSetUp, SlotsHold, InFlight, Arrived, SlotOf, TransferIsSane
<1>6. FlagsTell'
  BY QueueAssumption, KindFacts, SlotType
     DEF SourceCreate, Register, srcVars, sinkVars, QueueInv, QueueRegistered, QueueTypeOK,
         QueueIsSetUp, FlagsTell, CountersAgree, InFlight, Arrived, SlotOf, TransferIsSane
<1> QED
  BY <1>1, <1>2, <1>3, <1>4, <1>5, <1>6 DEF QueueInv

(* mp_create_qport at the sink: nothing was sent, and the flags are arbitrary. *)
LEMMA SinkCreateKeeps ==
  ASSUME QueueInv, QueueRegistered, SinkCreate
  PROVE  QueueInv'
<1>1. QueueTypeOK'
  BY QueueAssumption, KindFacts, SlotType
     DEF SinkCreate, Register, srcVars, sinkVars, QueueInv, QueueRegistered, QueueTypeOK,
         QueueIsSetUp, Slot, DataIndex
<1>2. QueueIsSetUp'
  BY QueueAssumption, KindFacts, SlotType
     DEF SinkCreate, Register, srcVars, sinkVars, QueueInv, QueueRegistered, QueueTypeOK,
         QueueIsSetUp, OtherIsRegistered, Remote, SinkIsTimely
<1>3. CountersAgree'
  <2>1. sent = 0 /\ received = 0 /\ acked = 0
    BY DEF SinkCreate, QueueInv, QueueTypeOK, QueueIsSetUp, CountersAgree
  <2>2. 0 % CountMod = 0 /\ 0 % NumBuf = 0
    BY QueueAssumption
  <2> QED
    BY <2>1, <2>2, QueueAssumption DEF SinkCreate, QueueInv, CountersAgree, srcVars
<1>4. TransferIsSane'
  BY QueueAssumption, KindFacts, SlotType
     DEF SinkCreate, Register, srcVars, sinkVars, QueueInv, QueueRegistered, QueueTypeOK,
         QueueIsSetUp, TransferIsSane, InFlight, Arrived, SlotOf
<1>5. SlotsHold'
  BY QueueAssumption, KindFacts, SlotType
     DEF SinkCreate, Register, srcVars, sinkVars, QueueInv, QueueRegistered, QueueTypeOK,
         QueueIsSetUp, SlotsHold, InFlight, Arrived, SlotOf, TransferIsSane
<1>6. FlagsTell'
  BY DEF SinkCreate, FlagsTell, Slot
<1> QED
  BY <1>1, <1>2, <1>3, <1>4, <1>5, <1>6 DEF QueueInv

(* The sink clears a flag; after the last one none is set. *)
LEMMA SinkClearsKeeps ==
  ASSUME QueueInv, QueueRegistered, SinkClears
  PROVE  QueueInv'
<1>1. QueueTypeOK'
  <2>1. cleared' \in 0 .. NumBuf
    BY QueueAssumption DEF SinkClears, QueueInv, QueueTypeOK
  <2>2. flags' \in [Slot -> BOOLEAN]
    <3>1. flags' = flags \/ flags' = [flags EXCEPT ![cleared] = FALSE]
      BY DEF SinkClears
    <3> QED
      BY <3>1, Zenon DEF QueueInv, QueueTypeOK
  <2> QED
    BY <2>1, <2>2 DEF SinkClears, QueueInv, QueueTypeOK, srcVars
<1>2. QueueIsSetUp'
  BY QueueAssumption, KindFacts, SlotType
     DEF SinkClears, srcVars, sinkVars, QueueInv, QueueRegistered, QueueTypeOK, QueueIsSetUp,
         OtherIsRegistered, Remote, SinkIsTimely
<1>3. CountersAgree'
  BY QueueAssumption, KindFacts, SlotType
     DEF SinkClears, srcVars, sinkVars, QueueInv, QueueRegistered, QueueTypeOK, QueueIsSetUp,
         CountersAgree
<1>4. TransferIsSane'
  BY QueueAssumption, KindFacts, SlotType
     DEF SinkClears, srcVars, sinkVars, QueueInv, QueueRegistered, QueueTypeOK, QueueIsSetUp,
         TransferIsSane, InFlight, Arrived, SlotOf
<1>5. SlotsHold'
  BY QueueAssumption, KindFacts, SlotType
     DEF SinkClears, srcVars, sinkVars, QueueInv, QueueRegistered, QueueTypeOK, QueueIsSetUp,
         SlotsHold, InFlight, Arrived, SlotOf, TransferIsSane
<1>6. FlagsTell'
  <2>0. sent = 0 /\ received \in Nat /\ pcSink = "clear" /\ \A s \in Slot : s < cleared => ~flags[s]
    BY DEF SinkClears, QueueInv, QueueTypeOK, QueueIsSetUp, FlagsTell
  <2>1. CASE cleared < NumBuf
    <3>1. /\ pcSink' = "clear" /\ cleared \in Slot /\ cleared' = cleared + 1
          /\ flags' = [flags EXCEPT ![cleared] = FALSE]
      BY <2>0, <2>1, QueueAssumption DEF SinkClears, QueueInv, QueueTypeOK, Slot
    <3>2. \A s \in Slot : s < cleared' => ~flags'[s]
      BY <2>0, <3>1, QueueAssumption DEF QueueInv, QueueTypeOK, Slot
    <3> QED
      BY <3>1, <3>2 DEF FlagsTell
  <2>2. CASE ~(cleared < NumBuf)
    <3>1. \A s \in Slot : ~flags'[s]
      BY <2>0, <2>2, QueueAssumption DEF SinkClears, QueueInv, QueueTypeOK, Slot
    <3>2. ~\E k \in received' + 1 .. Arrived' : TRUE
      BY <2>0 DEF SinkClears, srcVars, Arrived
    <3> QED
      BY <2>2, <3>1, <3>2 DEF SinkClears, FlagsTell
  <2> QED
    BY <2>1, <2>2
<1> QED
  BY <1>1, <1>2, <1>3, <1>4, <1>5, <1>6 DEF QueueInv

(* mp_init_ports at the source returns once the sink is registered. *)
LEMMA SourceInitPortsKeeps ==
  ASSUME QueueInv, QueueRegistered, SourceInitPorts
  PROVE  QueueInv'
<1>1. QueueTypeOK'
  BY QueueAssumption, KindFacts, SlotType
     DEF SourceInitPorts, srcVars, sinkVars, QueueInv, QueueRegistered, QueueTypeOK,
         QueueIsSetUp, Slot, DataIndex
<1>2. QueueIsSetUp'
  BY QueueAssumption, KindFacts, SlotType
     DEF SourceInitPorts, srcVars, sinkVars, QueueInv, QueueRegistered, QueueTypeOK,
         QueueIsSetUp, OtherIsRegistered, Remote, SinkIsTimely
<1>3. CountersAgree'
  BY QueueAssumption, KindFacts, SlotType
     DEF SourceInitPorts, srcVars, sinkVars, QueueInv, QueueRegistered, QueueTypeOK,
         QueueIsSetUp, CountersAgree
<1>4. TransferIsSane'
  BY QueueAssumption, KindFacts, SlotType
     DEF SourceInitPorts, srcVars, sinkVars, QueueInv, QueueRegistered, QueueTypeOK,
         QueueIsSetUp, TransferIsSane, InFlight, Arrived, SlotOf
<1>5. SlotsHold'
  BY QueueAssumption, KindFacts, SlotType
     DEF SourceInitPorts, srcVars, sinkVars, QueueInv, QueueRegistered, QueueTypeOK,
         QueueIsSetUp, SlotsHold, InFlight, Arrived, SlotOf, TransferIsSane
<1>6. FlagsTell'
  BY QueueAssumption, KindFacts, SlotType
     DEF SourceInitPorts, srcVars, sinkVars, QueueInv, QueueRegistered, QueueTypeOK,
         QueueIsSetUp, FlagsTell, CountersAgree, InFlight, Arrived, SlotOf, TransferIsSane
<1> QED
  BY <1>1, <1>2, <1>3, <1>4, <1>5, <1>6 DEF QueueInv

(* mp_init_ports at the sink returns once the source is registered. *)
LEMMA SinkInitPortsKeeps ==
  ASSUME QueueInv, QueueRegistered, SinkInitPorts
  PROVE  QueueInv'
<1>1. QueueTypeOK'
  BY QueueAssumption, KindFacts, SlotType
     DEF SinkInitPorts, srcVars, sinkVars, QueueInv, QueueRegistered, QueueTypeOK, QueueIsSetUp,
         Slot, DataIndex
<1>2. QueueIsSetUp'
  BY QueueAssumption, KindFacts, SlotType
     DEF SinkInitPorts, srcVars, sinkVars, QueueInv, QueueRegistered, QueueTypeOK, QueueIsSetUp,
         OtherIsRegistered, Remote, SinkIsTimely
<1>3. CountersAgree'
  BY QueueAssumption, KindFacts, SlotType
     DEF SinkInitPorts, srcVars, sinkVars, QueueInv, QueueRegistered, QueueTypeOK, QueueIsSetUp,
         CountersAgree
<1>4. TransferIsSane'
  BY QueueAssumption, KindFacts, SlotType
     DEF SinkInitPorts, srcVars, sinkVars, QueueInv, QueueRegistered, QueueTypeOK, QueueIsSetUp,
         TransferIsSane, InFlight, Arrived, SlotOf
<1>5. SlotsHold'
  BY QueueAssumption, KindFacts, SlotType
     DEF SinkInitPorts, srcVars, sinkVars, QueueInv, QueueRegistered, QueueTypeOK, QueueIsSetUp,
         SlotsHold, InFlight, Arrived, SlotOf, TransferIsSane
<1>6. FlagsTell'
  BY QueueAssumption, KindFacts, SlotType
     DEF SinkInitPorts, srcVars, sinkVars, QueueInv, QueueRegistered, QueueTypeOK, QueueIsSetUp,
         FlagsTell, CountersAgree, InFlight, Arrived, SlotOf, TransferIsSane
<1> QED
  BY <1>1, <1>2, <1>3, <1>4, <1>5, <1>6 DEF QueueInv

(* The application fills the write buffer that is not being sent. *)
LEMMA FillKeeps ==
  ASSUME QueueInv, QueueRegistered, Fill
  PROVE  QueueInv'
<1>1. QueueTypeOK'
  <2>1. Message(sent + 1) \in [DataIndex -> Nat]
    BY DEF Message, DataIndex, QueueInv, QueueTypeOK
  <2> QED
    BY <2>1 DEF Fill, QueueInv, QueueTypeOK, sinkVars
<1>2. QueueIsSetUp'
  BY QueueAssumption, KindFacts, SlotType
     DEF Fill, srcVars, sinkVars, Message, QueueInv, QueueRegistered, QueueTypeOK, QueueIsSetUp,
         OtherIsRegistered, Remote, SinkIsTimely
<1>3. CountersAgree'
  BY QueueAssumption, KindFacts, SlotType
     DEF Fill, srcVars, sinkVars, Message, QueueInv, QueueRegistered, QueueTypeOK, QueueIsSetUp,
         CountersAgree
<1>4. TransferIsSane'
  <2>1. write_bufs'[1 - wb] = write_bufs[1 - wb]
    BY DEF Fill, QueueInv, QueueTypeOK
  <2> QED
    BY <2>1 DEF Fill, QueueInv, TransferIsSane, InFlight, Arrived, SlotOf, sinkVars
<1>5. SlotsHold'
  BY QueueAssumption, KindFacts, SlotType, Zenon
     DEF Fill, srcVars, sinkVars, Message, QueueInv, QueueRegistered, QueueTypeOK, QueueIsSetUp,
         SlotsHold, InFlight, Arrived, SlotOf, TransferIsSane
<1>6. FlagsTell'
  BY QueueAssumption, KindFacts, SlotType
     DEF Fill, srcVars, sinkVars, Message, QueueInv, QueueRegistered, QueueTypeOK, QueueIsSetUp,
         FlagsTell, CountersAgree, InFlight, Arrived, SlotOf, TransferIsSane
<1> QED
  BY <1>1, <1>2, <1>3, <1>4, <1>5, <1>6 DEF QueueInv

(* mp_nbsend: the queue is not full in the numbers themselves, not only modulo CountMod,
   and the transfer starts from the buffer that was filled. *)
LEMMA SendFits ==
  ASSUME QueueTypeOK, NEW known \in Nat, known <= sent, sent <= known + NumBuf,
         send_count = sent % CountMod, send_recv_count = known % CountMod, ~QueueFull
  PROVE  sent < known + NumBuf
<1>1. CountMod \in Nat \ {0} /\ sent \in Int /\ known \in Int /\ sent - known < CountMod
  BY QueueAssumption DEF QueueTypeOK
<1>2. ((sent % CountMod) - (known % CountMod)) % CountMod = sent - known
  BY <1>1, ModDistance, Zenon
<1>3. sent - known # NumBuf
  BY <1>2 DEF QueueFull
<1> QED
  BY <1>1, <1>3, QueueAssumption

(* mp_nbsend hands a message to the network interface; it is one more sent, and its
   slot is free. *)
LEMMA Mp_nbsendKeeps ==
  ASSUME QueueInv, mp_nbsend
  PROVE  QueueInv'
<1>0. /\ ~InFlight /\ dma' = [dma EXCEPT !["src"] = Transfer(wb, send_ptr, 1)]
      /\ dma'["src"] = Transfer(wb, send_ptr, 1) /\ InFlight'
      /\ sent \in Nat /\ sent' = sent + 1 /\ wb' = 1 - wb /\ wb \in {0, 1} /\ sent < MaxMsgs
      /\ UNCHANGED <<pcSrc, write_bufs, sinkVars, send_recv_count, slots, flags>>
  BY KindFacts DEF mp_nbsend, k_noc_dma_write, k_noc_dma_done, InFlight, QueueInv, QueueTypeOK
<1>a. Arrived = sent /\ Arrived' = sent
  BY <1>0 DEF Arrived
<1>1. QueueTypeOK'
  BY <1>0, QueueAssumption DEF QueueInv, QueueTypeOK, sinkVars
<1>2. QueueIsSetUp'
  BY <1>0 DEF mp_nbsend, QueueInv, QueueIsSetUp, sinkVars
<1>3. CountersAgree'
  <2>1. PICK known \in 0 .. acked :
          /\ acked <= received /\ received <= sent /\ sent <= known + NumBuf
          /\ send_count = sent % CountMod /\ send_recv_count = known % CountMod
          /\ recv_count = acked % CountMod
          /\ send_ptr = sent % NumBuf /\ recv_ptr = received % NumBuf
    BY DEF QueueInv, CountersAgree
  <2>2. acked \in Nat /\ received \in Nat /\ known \in Nat
    BY DEF QueueInv, QueueTypeOK
  <2>3. sent < known + NumBuf
    BY <1>0, <2>1, <2>2, SendFits DEF mp_nbsend, QueueInv
  <2>4. send_count' = (sent + 1) % CountMod
    BY <1>0, <2>1, ModAdd, QueueAssumption DEF mp_nbsend
  <2>5. send_ptr' = (sent + 1) % NumBuf
    BY <1>0, <2>1, ModNext, QueueAssumption DEF mp_nbsend
  <2>6. /\ acked' <= received' /\ received' <= sent' /\ sent' <= known + NumBuf
        /\ known \in 0 .. acked'
    BY <1>0, <2>1, <2>2, <2>3, QueueAssumption DEF sinkVars
  <2> QED
    BY <1>0, <2>1, <2>4, <2>5, <2>6 DEF CountersAgree, sinkVars
<1>4. TransferIsSane'
  <2>1. send_ptr = SlotOf(sent + 1)
    BY <1>0 DEF QueueInv, CountersAgree, SlotOf
  <2>2. wb = 1 - wb'
    BY <1>0
  <2>3. dma'["src"] = Transfer(1 - wb', SlotOf(sent'), 1) /\ dma'["src"].at = 1
    BY <1>0, <2>1, <2>2, KindFacts
  <2>4. write_bufs'[1 - wb'] = Message(sent')
    BY <1>0, <2>2 DEF mp_nbsend
  <2>5. received' <= Arrived'
    BY <1>0, <1>a DEF QueueInv, CountersAgree, sinkVars
  <2> QED
    BY <2>3, <2>4, <2>5, QueueAssumption DEF TransferIsSane
<1>5. SlotsHold'
  BY <1>0, <1>a DEF QueueInv, SlotsHold, sinkVars, SlotOf
<1>6. FlagsTell'
  BY <1>0, <1>a DEF QueueInv, FlagsTell, sinkVars, SlotOf
<1> QED
  BY <1>1, <1>2, <1>3, <1>4, <1>5, <1>6 DEF QueueInv

(* mp_nbrecv: the flag at recv_ptr is that of the next message, which has arrived. *)
LEMMA Mp_nbrecvKeeps ==
  ASSUME QueueInv, mp_nbrecv
  PROVE  QueueInv' /\ received < Arrived
<1>0. /\ pcSink = "run" /\ flags[recv_ptr] /\ flags' = [flags EXCEPT ![recv_ptr] = FALSE]
      /\ received' = received + 1 /\ received \in Nat /\ acked \in Nat /\ sent \in Nat
      /\ UNCHANGED <<pcSink, cleared, recv_count, acked, srcVars, send_recv_count, slots, dma>>
      /\ Arrived' = Arrived /\ InFlight' = InFlight /\ Arrived \in Int /\ Arrived <= sent
  BY DEF mp_nbrecv, QueueInv, QueueTypeOK, Arrived, InFlight, srcVars
<1>1. /\ recv_ptr = SlotOf(received + 1) /\ recv_ptr \in Slot
      /\ acked <= received /\ received <= sent
  <2>1. recv_ptr = received % NumBuf /\ acked <= received /\ received <= sent
    BY DEF QueueInv, CountersAgree
  <2>2. received % NumBuf = SlotOf(received + 1)
    BY <1>0 DEF SlotOf
  <2> QED
    BY <1>0, <2>1, <2>2, SlotType
<1>2. \A k \in received + 1 .. Arrived : SlotOf(k) = recv_ptr => k = received + 1
  <2>1. \A k \in received + 1 .. Arrived :
          k \in acked + 1 .. sent /\ received + 1 \in acked + 1 .. sent
    BY <1>0, <1>1
  <2> QED
    BY <1>1, <2>1, SlotsDiffer DEF QueueInv
<1>3. received + 1 <= Arrived
  <2>1. PICK k \in received + 1 .. Arrived : recv_ptr = SlotOf(k)
    BY <1>0, <1>1 DEF QueueInv, FlagsTell
  <2> QED
    BY <1>0, <2>1
<1>4. QueueTypeOK'
  <2>1. flags' \in [Slot -> BOOLEAN]
    BY <1>0, Zenon DEF QueueInv, QueueTypeOK
  <2> QED
    BY <1>0, <2>1 DEF QueueInv, QueueTypeOK, srcVars
<1>5. QueueIsSetUp'
  BY <1>0 DEF QueueInv, QueueIsSetUp, srcVars
<1>6. CountersAgree'
  <2>1. PICK known \in 0 .. acked :
          /\ acked <= received /\ received <= sent /\ sent <= known + NumBuf
          /\ send_count = sent % CountMod /\ send_recv_count = known % CountMod
          /\ recv_count = acked % CountMod
          /\ send_ptr = sent % NumBuf /\ recv_ptr = received % NumBuf
    BY DEF QueueInv, CountersAgree
  <2>2. recv_ptr' = (received + 1) % NumBuf
    <3>1. (received + 1) % NumBuf
            = IF received % NumBuf = NumBuf - 1 THEN 0 ELSE (received % NumBuf) + 1
      <4>1. received \in Int /\ NumBuf \in Nat \ {0}
        BY <1>0, QueueAssumption
      <4> QED
        BY <4>1, ModNext, Zenon
    <3> QED
      BY <2>1, <3>1 DEF mp_nbrecv
  <2>3. acked' <= received' /\ received' <= sent' /\ sent' = sent
    BY <1>0, <1>1, <1>3 DEF srcVars
  <2> QED
    BY <1>0, <2>1, <2>2, <2>3 DEF CountersAgree, srcVars
<1>7. TransferIsSane'
  BY <1>0, <1>3 DEF QueueInv, TransferIsSane, srcVars, SlotOf
<1>8. SlotsHold'
  BY <1>0 DEF QueueInv, SlotsHold, SlotOf
<1>9. FlagsTell'
  <2>1. ASSUME NEW s \in Slot
        PROVE  flags'[s] <=> \E k \in received + 2 .. Arrived : s = SlotOf(k)
    <3>1. CASE s = recv_ptr
      <4>1. ~flags'[s]
        BY <1>0, <1>1, <3>1 DEF QueueInv, QueueTypeOK
      <4>2. \A k \in received + 2 .. Arrived : s # SlotOf(k)
        BY <1>0, <1>2, <3>1
      <4> QED
        BY <4>1, <4>2
    <3>2. CASE s # recv_ptr
      <4>1. flags'[s] <=> flags[s]
        BY <1>0, <3>2 DEF QueueInv, QueueTypeOK
      <4>2. flags[s] <=> \E k \in received + 1 .. Arrived : s = SlotOf(k)
        BY <1>0 DEF QueueInv, FlagsTell
      <4>3. \A k \in received + 1 .. Arrived : s = SlotOf(k) => k \in received + 2 .. Arrived
        BY <1>0, <1>1, <3>2
      <4>4. received + 2 .. Arrived \subseteq received + 1 .. Arrived
        BY <1>0
      <4> QED
        BY <4>1, <4>2, <4>3, <4>4
    <3> QED
      BY <3>1, <3>2
  <2>2. received' + 1 = received + 2
    BY <1>0
  <2> QED
    BY <1>0, <2>1, <2>2 DEF FlagsTell, SlotOf
<1> QED
  BY <1>0, <1>3, <1>4, <1>5, <1>6, <1>7, <1>8, <1>9 DEF QueueInv

(* mp_ack_n: fewer messages have to stay in their slots. *)
LEMMA Mp_ack_nKeeps ==
  ASSUME QueueInv, NEW n \in Int, mp_ack_n(n)
  PROVE  QueueInv'
<1>0. /\ n \in 1 .. received - acked /\ acked' = acked + n /\ received \in Nat /\ acked \in Nat
      /\ dma["sink"] = Idle /\ dma' = [dma EXCEPT !["sink"] = Ack] /\ dma'["src"] = dma["src"]
      /\ UNCHANGED <<pcSink, cleared, recv_ptr, received, srcVars, send_recv_count, slots, flags>>
  BY DEF mp_ack_n, k_noc_dma_write, k_noc_dma_done, QueueInv, QueueTypeOK
<1>a. InFlight' = InFlight /\ Arrived' = Arrived
  BY <1>0 DEF InFlight, Arrived, srcVars
<1>1. QueueTypeOK'
  BY <1>0 DEF QueueInv, QueueTypeOK, srcVars
<1>2. QueueIsSetUp'
  BY <1>0 DEF QueueInv, QueueIsSetUp, srcVars
<1>3. CountersAgree'
  <2>1. PICK known \in 0 .. acked :
          /\ acked <= received /\ received <= sent /\ sent <= known + NumBuf
          /\ send_count = sent % CountMod /\ send_recv_count = known % CountMod
          /\ recv_count = acked % CountMod
          /\ send_ptr = sent % NumBuf /\ recv_ptr = received % NumBuf
    BY DEF QueueInv, CountersAgree
  <2>2. recv_count' = (acked + n) % CountMod
    <3>1. acked \in Int /\ CountMod \in Nat \ {0}
      BY <1>0, QueueAssumption
    <3>2. ((acked % CountMod) + n) % CountMod = (acked + n) % CountMod
      BY <3>1, ModAdd, Zenon
    <3> QED
      BY <2>1, <3>2 DEF mp_ack_n
  <2>3. known \in 0 .. acked' /\ acked' <= received'
    BY <1>0, <2>1
  <2> QED
    BY <1>0, <2>1, <2>2, <2>3 DEF CountersAgree, srcVars
<1>4. TransferIsSane'
  BY <1>0, <1>a DEF QueueInv, TransferIsSane, srcVars, SlotOf
<1>5. SlotsHold'
  <2>1. acked' + 1 .. Arrived' \subseteq acked + 1 .. Arrived
    BY <1>0, <1>a DEF Arrived, QueueInv, QueueTypeOK
  <2> QED
    BY <1>0, <2>1 DEF QueueInv, SlotsHold, SlotOf
<1>6. FlagsTell'
  BY <1>0, <1>a DEF QueueInv, FlagsTell, SlotOf
<1> QED
  BY <1>1, <1>2, <1>3, <1>4, <1>5, <1>6 DEF QueueInv

(* The count of the sink arrives: the source knows of all acknowledgements. *)
LEMMA MoveAckKeeps ==
  ASSUME QueueInv, MoveAck
  PROVE  QueueInv'
<1>0. /\ dma' = [dma EXCEPT !["sink"] = Idle] /\ dma'["src"] = dma["src"] /\ send_recv_count' = recv_count
      /\ UNCHANGED <<srcVars, sinkVars, slots, flags>>
  BY DEF MoveAck, QueueInv, QueueTypeOK
<1>a. InFlight' = InFlight /\ Arrived' = Arrived
  BY <1>0 DEF InFlight, Arrived, srcVars
<1>1. QueueTypeOK' /\ QueueIsSetUp'
  BY <1>0 DEF QueueInv, QueueTypeOK, QueueIsSetUp, srcVars, sinkVars
<1>2. CountersAgree'
  <2>1. /\ acked <= received /\ received <= sent /\ sent <= acked + NumBuf /\ acked \in 0 .. acked
        /\ send_count = sent % CountMod /\ recv_count = acked % CountMod
        /\ send_ptr = sent % NumBuf /\ recv_ptr = received % NumBuf
    BY QueueAssumption DEF QueueInv, QueueTypeOK, CountersAgree
  <2> QED
    BY <1>0, <2>1 DEF CountersAgree, srcVars, sinkVars
<1>3. TransferIsSane' /\ SlotsHold' /\ FlagsTell'
  BY <1>0, <1>a DEF QueueInv, TransferIsSane, SlotsHold, FlagsTell, srcVars, sinkVars, SlotOf
<1> QED
  BY <1>1, <1>2, <1>3 DEF QueueInv

(* A word of a message arrives in a slot of its own, last the flag. *)
LEMMA MoveDataKeeps ==
  ASSUME QueueInv, MoveData
  PROVE  QueueInv'
<1> DEFINE at == dma["src"].at
           slot == SlotOf(sent)
<1>0. /\ InFlight /\ dma["src"] = Transfer(1 - wb, slot, at) /\ at \in 1 .. MsgWords + 1
      /\ write_bufs[1 - wb] = Message(sent) /\ received <= sent - 1 /\ Arrived = sent - 1
      /\ \A j \in 1 .. at - 1 : slots[slot][j] = sent
      /\ sent \in Nat /\ received \in Nat /\ acked \in Nat /\ acked <= received
      /\ slot \in Slot /\ slots[slot] \in [DataIndex -> Nat]
      /\ UNCHANGED <<srcVars, sinkVars, send_recv_count>>
  <2>1. InFlight /\ UNCHANGED <<srcVars, sinkVars, send_recv_count>>
    BY DEF MoveData, InFlight
  <2>2. /\ sent \in Nat /\ received \in Nat /\ acked \in Nat /\ acked <= received
        /\ slots \in [Slot -> [DataIndex -> Nat]]
    BY DEF QueueInv, QueueTypeOK, CountersAgree
  <2>3. slot \in Slot
    BY <2>2, SlotType
  <2> QED
    BY <2>1, <2>2, <2>3 DEF QueueInv, TransferIsSane, Arrived
<1>1. dma["src"].slot = slot /\ dma["src"].buf = 1 - wb
  BY <1>0, KindFacts
<1>2. QueueIsSetUp' /\ CountersAgree'
  BY <1>0 DEF QueueInv, QueueIsSetUp, CountersAgree, srcVars, sinkVars
<1>3. \A k \in acked + 1 .. sent - 1 : SlotOf(k) # slot
  <2>1. \A k \in acked + 1 .. sent - 1 : k \in acked + 1 .. sent /\ sent \in acked + 1 .. sent /\ k # sent
    BY <1>0
  <2> QED
    BY <2>1, SlotsDiffer DEF QueueInv
<1>4. CASE at <= MsgWords
  <2>1. /\ slots' = [slots EXCEPT ![slot] = [slots[slot] EXCEPT ![at] = sent]]
        /\ UNCHANGED flags
    <3>1. write_bufs[1 - wb][at] = sent
      BY <1>0, <1>4 DEF Message
    <3> QED
      BY <1>1, <1>4, <3>1 DEF MoveData
  <2>2. dma' = [dma EXCEPT !["src"] = Transfer(1 - wb, slot, at + 1)]
    <3>1. [dma["src"] EXCEPT !.at = at + 1] = Transfer(1 - wb, slot, at + 1)
      BY <1>0 DEF Transfer
    <3> QED
      BY <1>4, <3>1 DEF MoveData
  <2> HIDE DEF at, slot
  <2>3. dma'["src"] = Transfer(1 - wb, slot, at + 1) /\ dma'["src"].at = at + 1 /\ InFlight'
    BY <2>2, KindFacts DEF QueueInv, QueueTypeOK, InFlight
  <2>4. Arrived' = sent - 1
    BY <1>0, <2>3 DEF Arrived, srcVars
  <2>5. /\ \A s \in Slot : s # slot => slots'[s] = slots[s]
        /\ slots'[slot] = [slots[slot] EXCEPT ![at] = sent]
    BY <1>0, <2>1 DEF QueueInv, QueueTypeOK
  <2>6. \A j \in 1 .. at : slots'[slot][j] = sent
    <3>1. at \in DataIndex /\ \A j \in 1 .. at : j \in DataIndex /\ (j = at \/ j \in 1 .. at - 1)
      BY <1>0, <1>4, QueueAssumption DEF DataIndex
    <3> QED
      BY <1>0, <2>5, <3>1
  <2>7. QueueTypeOK'
    <3>1. [slots[slot] EXCEPT ![at] = sent] \in [DataIndex -> Nat]
      BY <1>0, Zenon
    <3>2. slots' \in [Slot -> [DataIndex -> Nat]]
      BY <1>0, <2>1, <3>1 DEF QueueInv, QueueTypeOK
    <3> QED
      BY <1>0, <2>1, <2>2, <3>2 DEF QueueInv, QueueTypeOK, srcVars, sinkVars
  <2>8. TransferIsSane'
    <3>1. slot' = slot /\ (at + 1) - 1 = at /\ at + 1 \in 1 .. MsgWords + 1
      BY <1>0, <1>4, QueueAssumption DEF slot, SlotOf, srcVars
    <3>2. /\ UNCHANGED <<wb, sent, write_bufs, received>> /\ received <= sent - 1
          /\ write_bufs[1 - wb] = Message(sent)
      BY <1>0 DEF srcVars, sinkVars
    <3>3. /\ dma'["src"] = Transfer(1 - wb, slot, dma'["src"].at)
          /\ dma'["src"].at \in 1 .. MsgWords + 1
          /\ \A j \in 1 .. dma'["src"].at - 1 : slots'[slot][j] = sent
      BY <2>3, <2>6, <3>1
    <3> QED
      BY <2>4, <3>1, <3>2, <3>3, Zenon DEF TransferIsSane, slot
  <2>9. SlotsHold'
    <3>1. \A k \in acked + 1 .. sent - 1 : SlotOf(k) \in Slot
      BY <1>0, SlotType
    <3> QED
      BY <1>0, <1>3, <2>4, <2>5, <3>1 DEF QueueInv, SlotsHold, sinkVars, SlotOf
  <2>10. FlagsTell'
    BY <1>0, <2>1, <2>4 DEF QueueInv, FlagsTell, sinkVars, SlotOf
  <2> QED
    BY <1>2, <2>7, <2>8, <2>9, <2>10 DEF QueueInv
<1>5. CASE at = MsgWords + 1
  <2>1. /\ flags' = [flags EXCEPT ![slot] = TRUE] /\ dma' = [dma EXCEPT !["src"] = Idle]
        /\ UNCHANGED slots
    BY <1>1, <1>5, QueueAssumption DEF MoveData
  <2>2. slots[slot] = Message(sent)
    <3>1. \A j \in DataIndex : slots[slot][j] = sent
      BY <1>0, <1>5, QueueAssumption DEF DataIndex
    <3> QED
      BY <1>0, <3>1, Zenon DEF Message, DataIndex
  <2> HIDE DEF at, slot
  <2>3. ~InFlight' /\ Arrived' = sent
    BY <1>0, <2>1, KindFacts DEF QueueInv, QueueTypeOK, InFlight, Arrived, srcVars
  <2>4. QueueTypeOK'
    <3>1. flags' \in [Slot -> BOOLEAN]
      <4>1. flags \in [Slot -> BOOLEAN]
        BY DEF QueueInv, QueueTypeOK
      <4> QED
        BY <2>1, <4>1
    <3> QED
      BY <1>0, <2>1, <3>1 DEF QueueInv, QueueTypeOK, srcVars, sinkVars
  <2>5. TransferIsSane'
    <3>1. received' <= Arrived'
      BY <1>0, <2>3 DEF sinkVars
    <3> QED
      BY <2>3, <3>1, Zenon DEF TransferIsSane
  <2>6. SlotsHold'
    <3>1. \A k \in acked + 1 .. sent : k = sent \/ k \in acked + 1 .. Arrived
      BY <1>0
    <3> QED
      BY <1>0, <2>1, <2>2, <2>3, <3>1 DEF QueueInv, SlotsHold, sinkVars, slot, SlotOf
  <2>7. FlagsTell'
    <3>1. pcSink \in {"ports", "run"}
      BY <1>0 DEF QueueInv, QueueIsSetUp, QueueTypeOK
    <3>2. \A k \in received + 1 .. sent : k = sent \/ k \in received + 1 .. Arrived
      BY <1>0
    <3>3. sent \in received + 1 .. sent /\ received + 1 .. Arrived \subseteq received + 1 .. sent
      BY <1>0
    <3>4. ASSUME NEW s \in Slot
          PROVE  flags'[s] <=> \E k \in received + 1 .. sent : s = SlotOf(k)
      <4>1. CASE s = slot
        BY <1>0, <2>1, <3>3, <4>1 DEF QueueInv, QueueTypeOK, slot
      <4>2. CASE s # slot
        <5>1. flags'[s] <=> flags[s]
          BY <1>0, <2>1, <4>2 DEF QueueInv, QueueTypeOK
        <5>2. flags[s] <=> \E k \in received + 1 .. Arrived : s = SlotOf(k)
          BY <3>1 DEF QueueInv, FlagsTell
        <5> QED
          BY <3>2, <3>3, <4>2, <5>1, <5>2 DEF slot
      <4> QED
        BY <4>1, <4>2
    <3> QED
      BY <1>0, <2>3, <3>1, <3>4 DEF FlagsTell, sinkVars, SlotOf
  <2> QED
    BY <1>2, <2>4, <2>5, <2>6, <2>7 DEF QueueInv
<1> QED
  BY <1>0, <1>4, <1>5, QueueAssumption

-----------------------------------------------------------------------------
(* Transfers come and go that are not the queue's: those of other channels. *)
LEMMA OtherEntriesKeepQueue ==
  ASSUME QueueInv, UNCHANGED queueVars, dma' = [e \in Ends |-> dma'[e]],
         dma'["src"] = dma["src"] \/ (dma["src"].kind # "data" /\ dma'["src"].kind # "data")
  PROVE  QueueInv'
<1>1. UNCHANGED <<srcVars, sinkVars, send_recv_count, slots, flags>>
  BY DEF queueVars
<1>2. InFlight' = InFlight /\ Arrived' = Arrived /\ (InFlight => dma'["src"] = dma["src"])
  BY <1>1 DEF InFlight, Arrived, srcVars
<1>3. QueueTypeOK' /\ QueueIsSetUp' /\ CountersAgree'
  BY <1>1 DEF QueueInv, QueueTypeOK, QueueIsSetUp, CountersAgree, srcVars, sinkVars
<1>4. TransferIsSane' /\ SlotsHold' /\ FlagsTell'
  BY <1>1, <1>2 DEF QueueInv, TransferIsSane, SlotsHold, FlagsTell, srcVars, sinkVars, SlotOf
<1> QED
  BY <1>3, <1>4 DEF QueueInv

(* After power-up. *)
LEMMA QueueStarts == QueueInit /\ dma = [e \in Ends |-> Idle] => QueueInv
<1> SUFFICES ASSUME QueueInit, dma = [e \in Ends |-> Idle]
             PROVE  QueueInv
  OBVIOUS
<1>1. 0 % CountMod = 0 /\ 0 % NumBuf = 0
  BY QueueAssumption
<1>2. Message(0) \in [DataIndex -> Nat]
  BY DEF Message, DataIndex
<1>3. QueueTypeOK
  BY <1>2, QueueAssumption DEF QueueInit, QueueTypeOK
<1>4. QueueIsSetUp /\ CountersAgree
  BY <1>1, QueueAssumption DEF QueueInit, QueueIsSetUp, CountersAgree
<1>5. TransferIsSane /\ SlotsHold /\ FlagsTell
  BY KindFacts DEF QueueInit, TransferIsSane, SlotsHold, FlagsTell, InFlight, Arrived
<1> QED
  BY <1>3, <1>4, <1>5 DEF QueueInv

(* A new program. *)
LEMMA NewQueueStarts == NewQueue /\ dma' = [e \in Ends |-> Idle] => QueueInv'
<1> SUFFICES ASSUME NewQueue, dma' = [e \in Ends |-> Idle]
             PROVE  QueueInv'
  OBVIOUS
<1>1. 0 % CountMod = 0 /\ 0 % NumBuf = 0
  BY QueueAssumption
<1>2. Message(0) \in [DataIndex -> Nat]
  BY DEF Message, DataIndex
<1>3. QueueTypeOK'
  BY <1>2, QueueAssumption DEF NewQueue, QueueTypeOK
<1>4. QueueIsSetUp' /\ CountersAgree'
  BY <1>1, QueueAssumption DEF NewQueue, QueueIsSetUp, CountersAgree
<1>5. TransferIsSane' /\ SlotsHold' /\ FlagsTell'
  BY KindFacts DEF NewQueue, TransferIsSane, SlotsHold, FlagsTell, InFlight, Arrived
<1> QED
  BY <1>3, <1>4, <1>5 DEF QueueInv

(* Every step of either end keeps the invariant, and chan_info true. *)
LEMMA QueueStepKeeps ==
  ASSUME QueueInv, QueueRegistered, Source \/ Sink \/ (\E n \in 1 .. NumBuf : mp_ack_n(n))
  PROVE  QueueInv' /\ QueueRegistered'
<1>1. QueueInv'
  BY SourceCreateKeeps, SourceInitPortsKeeps, FillKeeps, Mp_nbsendKeeps, SinkCreateKeeps,
     SinkClearsKeeps, SinkInitPortsKeeps, Mp_nbrecvKeeps, Mp_ack_nKeeps DEF Source, Sink
<1>2. QueueRegistered'
  BY DEF QueueRegistered, Source, Sink, SourceCreate, SourceInitPorts, Fill, mp_nbsend,
         SinkCreate, SinkClears, SinkInitPorts, mp_nbrecv, mp_ack_n, Register, srcVars, sinkVars
<1> QED
  BY <1>1, <1>2

(* Once all messages are received, they stay so. *)
LEMMA AllReceivedStays ==
  ASSUME QueueInv, QueueInv', Source \/ Sink \/ (\E n \in 1 .. NumBuf : mp_ack_n(n)), received = MaxMsgs
  PROVE  received' = MaxMsgs
<1>1. received' = received \/ received' = received + 1
  <2>1. Source => received' = received
    BY DEF Source, SourceCreate, SourceInitPorts, Fill, mp_nbsend, sinkVars
  <2>2. Sink => received' = received \/ received' = received + 1
    BY DEF Sink, SinkCreate, SinkClears, SinkInitPorts, mp_nbrecv
  <2>3. (\E n \in 1 .. NumBuf : mp_ack_n(n)) => received' = received
    BY DEF mp_ack_n
  <2> QED
    BY <2>1, <2>2, <2>3
<1>2. received' \in Nat /\ sent' \in Nat /\ received' <= sent' /\ sent' <= MaxMsgs
  BY DEF QueueInv, QueueTypeOK, CountersAgree
<1> QED
  BY <1>1, <1>2, QueueAssumption

(* So does every step of the network interfaces. *)
LEMMA QueueNetworkKeeps ==
  ASSUME QueueInv, NEW e \in Ends, MoveData \/ MoveAck \/ OtherEnds(e) \/ OtherBegins(e)
  PROVE  QueueInv'
<1>1. ASSUME OtherEnds(e) \/ OtherBegins(e)
      PROVE  QueueInv'
  <2>1. /\ dma' = [x \in Ends |-> dma'[x]] /\ UNCHANGED queueVars
        /\ dma'["src"] = dma["src"] \/ (dma["src"].kind # "data" /\ dma'["src"].kind # "data")
    BY <1>1, KindFacts
       DEF OtherEnds, OtherBegins, k_noc_dma_write, k_noc_dma_done, queueVars, QueueInv,
           QueueTypeOK, Ends
  <2> QED
    BY <2>1, OtherEntriesKeepQueue
<1> QED
  BY <1>1, MoveDataKeeps, MoveAckKeeps

(* The steps of a queuing channel, and those of other channels like it, touch no transfer
   of a sampling channel. *)
LEMMA QueueEntries ==
  ASSUME QueueInv, NEW e \in Ends,
         \/ Source \/ Sink \/ (\E n \in 1 .. NumBuf : mp_ack_n(n))
         \/ MoveData \/ MoveAck \/ OtherEnds(e) \/ OtherBegins(e)
  PROVE  /\ dma' = [x \in Ends |-> dma'[x]]
         /\ \A x \in Ends :
              \/ dma'[x] = dma[x]
              \/ /\ dma[x].kind \in {"idle", "data", "ack", "other"}
                 /\ dma'[x].kind \in {"idle", "data", "ack", "other"}
<1>0. dma = [x \in Ends |-> dma[x]]
  BY DEF QueueInv, QueueTypeOK
<1>1. CASE Source \/ Sink \/ (\E n \in 1 .. NumBuf : mp_ack_n(n))
  <2>1. CASE mp_nbsend \/ (\E n \in 1 .. NumBuf : mp_ack_n(n))
    <3>1. PICK c \in {"src", "sink"}, entry \in {Transfer(wb, send_ptr, 1), Ack} :
            dma[c] = Idle /\ dma' = [dma EXCEPT ![c] = entry]
      BY <2>1, Zenon DEF mp_nbsend, mp_ack_n, k_noc_dma_write, k_noc_dma_done
    <3>2. entry.kind \in {"data", "ack"} /\ Idle.kind = "idle" /\ c \in Ends
      BY KindFacts
    <3>3. dma' = [x \in Ends |-> dma'[x]] /\ dma'[c] = entry /\ \A x \in Ends : x # c => dma'[x] = dma[x]
      BY <1>0, <3>1, <3>2
    <3> QED
      BY <3>1, <3>2, <3>3
  <2>2. CASE ~mp_nbsend /\ ~(\E n \in 1 .. NumBuf : mp_ack_n(n))
    <3>1. UNCHANGED dma
      BY <1>1, <2>2, Zenon DEF Source, Sink, SourceCreate, SourceInitPorts, Fill, SinkCreate,
         SinkClears, SinkInitPorts, mp_nbrecv
    <3> QED
      BY <1>0, <3>1
  <2> QED
    BY <2>1, <2>2
<1>2. CASE MoveData
  <2>1. [dma EXCEPT !["src"].at = dma["src"].at + 1]["src"].kind = dma["src"].kind
    BY <1>0, <1>2, KindFacts DEF MoveData, QueueInv, TransferIsSane, InFlight, Transfer
  <2> QED
    BY <1>0, <1>2, <2>1, KindFacts DEF MoveData
<1>3. CASE MoveAck \/ OtherEnds(e) \/ OtherBegins(e)
  BY <1>0, <1>3, KindFacts DEF MoveAck, OtherEnds, OtherBegins, k_noc_dma_write, k_noc_dma_done
<1> QED
  BY <1>1, <1>2, <1>3

(* The slots of the messages that are worked on hold them. *)
LEMMA QueueInvHolds == QueueInv => HeldMessagesIntact
<1> SUFFICES ASSUME QueueInv, NEW k \in acked + 1 .. received
             PROVE  slots[(k - 1) % NumBuf] = Message(k)
  BY DEF HeldMessagesIntact
<1>1. k \in acked + 1 .. Arrived
  BY DEF QueueInv, QueueTypeOK, TransferIsSane, Arrived
<1> QED
  BY <1>1 DEF QueueInv, SlotsHold, SlotOf

-----------------------------------------------------------------------------
(* The queue between the two ends. *)

(* What is under way is the messages sent and not received, in order. *)
Pending == [j \in 1 .. sent - received |-> Message(received + j)]

(* The abstract queue of the refinement, in closed form. *)
LEMMA UnderWayIsPending == QueueInv => UnderWay = Pending
<1> SUFFICES ASSUME QueueInv
             PROVE  UnderWay = Pending
  OBVIOUS
<1>0. sent \in Nat /\ received \in Nat /\ acked \in Nat /\ acked <= received
  BY DEF QueueInv, QueueTypeOK, CountersAgree
<1>1. ASSUME NEW k \in acked + 1 .. sent
      PROVE  Content(k) = Message(k)
  <2>1. CASE InFlight /\ k = sent
    BY <2>1, KindFacts DEF Content, InFlight, QueueInv, TransferIsSane
  <2>2. CASE ~(InFlight /\ k = sent)
    <3>1. k \in acked + 1 .. Arrived
      BY <1>0, <2>2 DEF Arrived
    <3> QED
      BY <2>2, <3>1 DEF Content, InFlight, QueueInv, SlotsHold, SlotOf
  <2> QED
    BY <2>1, <2>2
<1>2. \A j \in 1 .. sent - received : received + j \in acked + 1 .. sent
  BY <1>0
<1> QED
  BY <1>1, <1>2 DEF UnderWay, Pending

(* Steps that neither send nor receive leave the queue as it is. *)
LEMMA QuietStepStutters ==
  ASSUME QueueInv, QueueInv', UNCHANGED <<sent, received>>
  PROVE  UNCHANGED UnderWay
<1>1. UnderWay = Pending /\ (UnderWay = Pending)'
  BY UnderWayIsPending, PTL
<1> QED
  BY <1>1 DEF Pending, Message

(* mp_nbsend appends a message to a queue that is not full. *)
LEMMA SendPuts ==
  ASSUME QueueInv, mp_nbsend
  PROVE  sent + 1 \in 1 .. MaxMsgs /\ Fifo!Put(Message(sent + 1))
<1>0. UnderWay = Pending /\ (UnderWay = Pending)'
  BY UnderWayIsPending, Mp_nbsendKeeps, PTL
<1>1. /\ sent \in Nat /\ received \in Nat /\ received <= sent /\ sent' = sent + 1 /\ received' = received
      /\ sent < MaxMsgs
  BY DEF mp_nbsend, sinkVars, QueueInv, QueueTypeOK, CountersAgree
<1>2. sent - received < NumBuf
  <2>1. PICK known \in 0 .. acked :
          /\ acked <= received /\ sent <= known + NumBuf
          /\ send_count = sent % CountMod /\ send_recv_count = known % CountMod
    BY DEF QueueInv, CountersAgree
  <2>2. known \in Nat /\ known <= received /\ known <= sent
    BY <1>1, <2>1 DEF QueueInv, QueueTypeOK
  <2>3. sent < known + NumBuf
    BY <2>1, <2>2, SendFits DEF mp_nbsend, QueueInv
  <2> QED
    BY <1>1, <2>2, <2>3, QueueAssumption
<1>3. Len(Pending) = sent - received
  BY <1>1 DEF Pending
<1>4. Pending' = Append(Pending, Message(sent + 1))
  BY <1>1 DEF Pending, Message
<1> QED
  BY <1>0, <1>1, <1>2, <1>3, <1>4, QueueAssumption DEF Fifo!Put

(* mp_nbrecv takes the oldest message. *)
LEMMA ReceiveTakes ==
  ASSUME QueueInv, mp_nbrecv
  PROVE  Fifo!Take
<1>0. UnderWay = Pending /\ (UnderWay = Pending)'
  BY UnderWayIsPending, Mp_nbrecvKeeps, PTL
<1>1. sent \in Nat /\ received \in Nat /\ received < sent /\ sent' = sent /\ received' = received + 1
  BY Mp_nbrecvKeeps DEF mp_nbrecv, srcVars, QueueInv, QueueTypeOK, Arrived
<1>2. Len(Pending) = sent - received /\ Pending # << >>
  BY <1>1 DEF Pending
<1>3. Pending' = Tail(Pending)
  <2> DEFINE S == {Message(k) : k \in Nat}
  <2>1. Pending \in Seq(S)
    BY <1>1 DEF Pending
  <2>2. Pending' \in Seq(S) /\ Len(Pending') = Len(Pending) - 1
    BY <1>1, <1>2 DEF Pending, Message
  <2>3. ASSUME NEW j \in 1 .. Len(Pending) - 1
        PROVE  Pending[j + 1] = Pending'[j]
    <3>1. /\ j + 1 \in 1 .. sent - received /\ received + (j + 1) = received' + j
          /\ j \in 1 .. sent' - received'
      BY <1>1, <1>2
    <3>2. Pending[j + 1] = Message(received' + j)
      BY <3>1 DEF Pending
    <3> QED
      BY <3>1, <3>2 DEF Pending, Message
  <2> HIDE DEF S
  <2>4. /\ Tail(Pending) \in Seq(S) /\ Len(Tail(Pending)) = Len(Pending) - 1
        /\ \A j \in 1 .. Len(Pending) - 1 : Tail(Pending)[j] = Pending[j + 1]
    BY <1>2, <2>1
  <2>5. \A q, r \in Seq(S) : Len(q) = Len(r) /\ (\A j \in 1 .. Len(q) : q[j] = r[j]) => q = r
    OBVIOUS
  <2> QED
    BY <2>2, <2>3, <2>4, <2>5
<1> QED
  BY <1>0, <1>2, <1>3 DEF Fifo!Take

(* An empty queue is like another one. *)
LEMMA EmptyStutters ==
  ASSUME QueueInv, QueueInv', sent = received, sent' = received'
  PROVE  UNCHANGED UnderWay
<1>1. UnderWay = Pending /\ (UnderWay = Pending)'
  BY UnderWayIsPending, PTL
<1>2. sent - received = 0 /\ sent' - received' = 0
  BY DEF QueueInv, QueueTypeOK
<1>3. Pending = << >> /\ Pending' = << >>
  BY <1>2 DEF Pending
<1> QED
  BY <1>1, <1>3

(* At the start the queue is empty. *)
LEMMA QueueStartsEmpty ==
  ASSUME QueueInv, QueueInit
  PROVE  Fifo!Init
<1>1. sent - received = 0
  BY DEF QueueInit
<1>2. Pending = << >>
  BY <1>1 DEF Pending
<1> QED
  BY <1>2, UnderWayIsPending DEF Fifo!Init

(* What the ends of a channel do is what a bounded queue may do, or nothing to it. *)
LEMMA QueueStepIsFifo ==
  ASSUME QueueInv, QueueInv', Source \/ Sink \/ (\E n \in 1 .. NumBuf : mp_ack_n(n))
  PROVE  Fifo!Next \/ UNCHANGED UnderWay
<1>1. CASE mp_nbsend
  BY <1>1, SendPuts DEF Fifo!Next
<1>2. CASE mp_nbrecv
  BY <1>2, ReceiveTakes DEF Fifo!Next
<1>3. CASE ~mp_nbsend /\ ~mp_nbrecv
  <2>1. UNCHANGED <<sent, received>>
    BY <1>3 DEF Source, Sink, SourceCreate, SourceInitPorts, Fill, SinkCreate, SinkClears,
       SinkInitPorts, mp_ack_n, srcVars, sinkVars
  <2> QED
    BY <2>1, QuietStepStutters
<1> QED
  BY <1>1, <1>2, <1>3
=============================================================================
