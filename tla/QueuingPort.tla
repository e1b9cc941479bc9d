---------------------------- MODULE QueuingPort ----------------------------
(* A queuing channel of the message passing library (libmp): a source core, a
   sink core, and the DMA entries of their network interfaces (libnoc), which
   copy one word at a time from one scratchpad to the other while both cores
   run.  A message is a sequence of data words followed by a flag word.

   The source and the sink register the channel in chan_info, wait for each
   other in mp_init_ports, and then send, receive and acknowledge.  The blocking
   calls repeat the non-blocking ones and change nothing when they time out. *)
EXTENDS Channel, Sequences

CONSTANTS NumBuf,     \* num_buf, the message slots at the sink
          MsgWords,   \* data words of a message
          CountMod,   \* the counters are unsigned: they wrap at CountMod
          MaxMsgs     \* bound: how many messages are sent

ASSUME QueueAssumption ==
  /\ NumBuf \in Nat \ {0} /\ MsgWords \in Nat \ {0} /\ MaxMsgs \in Nat
  /\ CountMod \in Nat /\ CountMod > NumBuf

VARIABLES
  pcSrc, pcSink,      \* "create", (sink: "clear",) "ports", "run"
  cleared,            \* flags that the sink has cleared so far
  write_bufs,         \* the two write buffers at the source
  wb,                 \* write_buf, the index of the one the application fills
  send_count, send_ptr,
  send_recv_count,    \* the sink's count, as the source knows it
  slots, flags,       \* the buffers at the sink and the flag words behind them
  recv_ptr, recv_count,
  sent, received, acked   \* history: how many messages

srcVars  == <<pcSrc, write_bufs, wb, send_count, send_ptr, sent>>
sinkVars == <<pcSink, cleared, recv_ptr, recv_count, received, acked>>
queueVars == <<srcVars, sinkVars, send_recv_count, slots, flags>>

Slot == 0 .. NumBuf - 1

(* Message k carries k in every word; 0 is what the memory held before. *)
Message(k) == [j \in 1 .. MsgWords |-> k]

Other == [kind |-> "other"]   \* a transfer of another channel between the two cores
Ack   == [kind |-> "ack"]
Transfer(b, s, at) == [kind |-> "data", buf |-> b, slot |-> s, at |-> at]

QueueInit ==
  /\ pcSrc = "create" /\ pcSink = "create" /\ cleared = 0
  /\ write_bufs = [b \in {0, 1} |-> Message(0)] /\ wb = 0
  /\ send_count = 0 /\ send_ptr = 0 /\ send_recv_count = 0
  /\ slots = [s \in Slot |-> Message(0)]
  /\ flags = [s \in Slot |-> TRUE]
  /\ recv_ptr = 0 /\ recv_count = 0
  /\ sent = 0 /\ received = 0 /\ acked = 0

(* A new program: no port yet.  What the last one left in the scratchpads is looked at
   only where SinkCreate chooses it. *)
NewQueue ==
  /\ pcSrc' = "create" /\ pcSink' = "create" /\ cleared' = 0
  /\ write_bufs' = [b \in {0, 1} |-> Message(0)] /\ wb' = 0
  /\ send_count' = 0 /\ send_ptr' = 0 /\ send_recv_count' = 0
  /\ slots' = [s \in Slot |-> Message(0)] /\ flags' = [s \in Slot |-> TRUE]
  /\ recv_ptr' = 0 /\ recv_count' = 0
  /\ sent' = 0 /\ received' = 0 /\ acked' = 0

-----------------------------------------------------------------------------
(* Creation of the ports and their connection. *)

SourceCreate ==
  /\ pcSrc = "create" /\ Register("src")
  /\ pcSrc' = "ports" /\ wb' = 0
  /\ send_count' = 0 /\ send_ptr' = 0 /\ send_recv_count' = 0
  /\ UNCHANGED <<write_bufs, sent, sinkVars, slots, flags, dma>>

(* The sink's id is in chan_info before its flags are cleared; they are whatever the
   scratchpad held. *)
SinkCreate ==
  /\ pcSink = "create" /\ Register("sink")
  /\ pcSink' = "clear" /\ cleared' = 0
  /\ recv_ptr' = 0 /\ recv_count' = 0
  /\ flags' \in [Slot -> BOOLEAN]
  /\ UNCHANGED <<received, acked, srcVars, send_recv_count, slots, dma>>

SinkClears ==
  /\ pcSink = "clear"
  /\ IF cleared < NumBuf
     THEN /\ flags' = [flags EXCEPT ![cleared] = FALSE]
          /\ cleared' = cleared + 1
          /\ UNCHANGED pcSink
     ELSE /\ pcSink' = "ports"
          /\ UNCHANGED <<flags, cleared>>
  /\ UNCHANGED <<recv_ptr, recv_count, received, acked, srcVars, registered,
                 send_recv_count, slots, dma>>

(* Timing: the sink's creation ends before the source is through mp_init_ports;
   the code does not wait for that. *)
SinkIsTimely == pcSink # "clear"

SourceInitPorts ==
  /\ pcSrc = "ports" /\ OtherIsRegistered("src") /\ SinkIsTimely
  /\ pcSrc' = "run"
  /\ UNCHANGED <<write_bufs, wb, send_count, send_ptr, sent, sinkVars, registered,
                 send_recv_count, slots, flags, dma>>

SinkInitPorts ==
  /\ pcSink = "ports" /\ OtherIsRegistered("sink")
  /\ pcSink' = "run"
  /\ UNCHANGED <<cleared, recv_ptr, recv_count, received, acked, srcVars, registered,
                 send_recv_count, slots, flags, dma>>

-----------------------------------------------------------------------------
(* The network interface. *)

(* The entry of the source moves the next word of a message, last the flag. *)
MoveData ==
  /\ dma.src.kind = "data"
  /\ LET d == dma.src
     IN  IF d.at <= MsgWords
         THEN /\ slots' = [slots EXCEPT ![d.slot][d.at] = write_bufs[d.buf][d.at]]
              /\ dma' = [dma EXCEPT !.src.at = d.at + 1]
              /\ UNCHANGED flags
         ELSE /\ flags' = [flags EXCEPT ![d.slot] = TRUE]
              /\ dma' = [dma EXCEPT !.src = Idle]
              /\ UNCHANGED slots
  /\ UNCHANGED <<srcVars, sinkVars, registered, send_recv_count>>

(* The entry of the sink moves the receive count. *)
MoveAck ==
  /\ dma.sink.kind = "ack"
  /\ send_recv_count' = recv_count
  /\ dma' = [dma EXCEPT !.sink = Idle]
  /\ UNCHANGED <<srcVars, sinkVars, registered, slots, flags>>

(* Another channel between the cores uses an entry for a while. *)
OtherBegins(c) ==
  /\ k_noc_dma_write(c, Other)
  /\ UNCHANGED <<srcVars, sinkVars, registered, send_recv_count, slots, flags>>

OtherEnds(c) ==
  /\ dma[c] = Other /\ dma' = [dma EXCEPT ![c] = Idle]
  /\ UNCHANGED <<srcVars, sinkVars, registered, send_recv_count, slots, flags>>

-----------------------------------------------------------------------------
(* The source. *)

(* The application puts its next message in the write buffer. *)
Fill ==
  /\ pcSrc = "run" /\ sent < MaxMsgs
  /\ write_bufs' = [write_bufs EXCEPT ![wb] = Message(sent + 1)]
  /\ UNCHANGED <<pcSrc, wb, send_count, send_ptr, sent, sinkVars, registered,
                 send_recv_count, slots, flags, dma>>

QueueFull == (send_count - send_recv_count) % CountMod = NumBuf

(* Mutant: the queue is taken to be full one message too late. *)
SendOneTooMany ==
  /\ pcSrc = "run" /\ sent < MaxMsgs /\ write_bufs[wb] = Message(sent + 1)
  /\ (send_count - send_recv_count) % CountMod # NumBuf + 1
  /\ k_noc_dma_write("src", Transfer(wb, send_ptr, 1))
  /\ send_count' = (send_count + 1) % CountMod
  /\ send_ptr' = IF send_ptr = NumBuf - 1 THEN 0 ELSE send_ptr + 1
  /\ wb' = 1 - wb
  /\ sent' = sent + 1
  /\ UNCHANGED <<pcSrc, write_bufs, sinkVars, registered, send_recv_count, slots, flags>>

(* Mutant: the write buffers are not swapped. *)
SendNoSwap ==
  /\ pcSrc = "run" /\ sent < MaxMsgs /\ write_bufs[wb] = Message(sent + 1)
  /\ ~QueueFull
  /\ k_noc_dma_write("src", Transfer(wb, send_ptr, 1))
  /\ send_count' = (send_count + 1) % CountMod
  /\ send_ptr' = IF send_ptr = NumBuf - 1 THEN 0 ELSE send_ptr + 1
  /\ sent' = sent + 1
  /\ UNCHANGED <<pcSrc, wb, write_bufs, sinkVars, registered, send_recv_count, slots, flags>>

mp_nbsend ==
  /\ pcSrc = "run" /\ sent < MaxMsgs /\ write_bufs[wb] = Message(sent + 1)
  /\ ~QueueFull
  /\ k_noc_dma_write("src", Transfer(wb, send_ptr, 1))
  /\ send_count' = (send_count + 1) % CountMod
  /\ send_ptr' = IF send_ptr = NumBuf - 1 THEN 0 ELSE send_ptr + 1
  /\ wb' = 1 - wb
  /\ sent' = sent + 1
  /\ UNCHANGED <<pcSrc, write_bufs, sinkVars, registered, send_recv_count, slots, flags>>

-----------------------------------------------------------------------------
(* The sink. *)

mp_nbrecv ==
  /\ pcSink = "run" /\ flags[recv_ptr]
  /\ flags' = [flags EXCEPT ![recv_ptr] = FALSE]
  /\ recv_ptr' = IF recv_ptr = NumBuf - 1 THEN 0 ELSE recv_ptr + 1
  /\ received' = received + 1
  /\ UNCHANGED <<pcSink, cleared, recv_count, acked, srcVars, registered,
                 send_recv_count, slots, dma>>

(* The application gives back the n oldest messages it still works on. *)
mp_ack_n(n) ==
  /\ pcSink = "run" /\ n \in 1 .. received - acked
  /\ k_noc_dma_write("sink", Ack)
  /\ recv_count' = (recv_count + n) % CountMod
  /\ acked' = acked + n
  /\ UNCHANGED <<pcSink, cleared, recv_ptr, received, srcVars, registered,
                 send_recv_count, slots, flags>>

-----------------------------------------------------------------------------
Sink == SinkCreate \/ SinkClears \/ SinkInitPorts \/ mp_nbrecv

Source == SourceCreate \/ SourceInitPorts \/ Fill \/ mp_nbsend

-----------------------------------------------------------------------------
(* mp.h says of messages received and not yet acknowledged that several can be
   worked on "at the same time with out them being overwritten": their slots hold
   exactly the messages sent, in the order in which they were sent. *)
HeldMessagesIntact ==
  \A k \in acked + 1 .. received : slots[(k - 1) % NumBuf] = Message(k)

(* What is under way: the message being transferred is read from its write
   buffer, the ones before it from their slots. *)
Content(k) ==
  IF dma.src.kind = "data" /\ k = sent
  THEN write_bufs[dma.src.buf]
  ELSE slots[(k - 1) % NumBuf]

UnderWay == [i \in 1 .. sent - received |-> Content(received + i)]

Fifo == INSTANCE BoundedFifo
          WITH Word <- {Message(k) : k \in 1 .. MaxMsgs}, Capacity <- NumBuf,
               queue <- UnderWay

(* From mp_nbsend to mp_nbrecv the channel is a bounded first-in first-out
   queue of whole messages, whatever the network and other channels do. *)
IsBoundedFifo == Fifo!Spec
=============================================================================
