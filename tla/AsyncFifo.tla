------------------------------ MODULE AsyncFifo ------------------------------
(* The receive FIFO of the Ethernet MAC (axis_async_fifo with FRAME_FIFO,
   DROP_OVERSIZE_FRAME, DROP_BAD_FRAME and DROP_WHEN_FULL set and two output
   stages), once both sides are out of reset.  The MAC's clock writes and the
   device's clock reads; the clocks are not related, and they may tick at the same
   time.  A register of the other side that changes at that moment is sampled with
   some of its bits old and some new. *)
EXTENDS Integers, FiniteSets, Sequences

CONSTANTS ADDR_WIDTH,   \* the FIFO has 2^ADDR_WIDTH words
          FrameLens,    \* the lengths of frames, in words
          Tags          \* what tells the data of two frames apart

ASSUME AsyncAssumption ==
  /\ ADDR_WIDTH \in Nat \ {0, 1}
  /\ FrameLens \subseteq Nat \ {0}

VARIABLES
  mem,
  \* written by s_clk
  wr_ptr,         \* end of the last whole frame
  wr_ptr_cur,     \* end of the frame being written
  wr_ptr_sync,    \* Gray code of wr_ptr for the reader
  update,         \* flips when wr_ptr_sync is new
  update_valid,   \* wr_ptr has moved since
  rd_sync1, rd_sync2,                        \* Gray code of rd_ptr, as it crosses
  ack_sync1, ack_sync2,                      \* update, on its way back
  drop_frame,
  \* written by m_clk
  rd_ptr,
  wr_sync1,       \* Gray code of the write pointer the reader knows
  update_sync1, update_sync2, update_sync3,  \* update, as it crosses
  pipe,           \* the output stages; the last one is on the bus
  \* the two ends
  src,            \* the next word of the MAC
  taken           \* the word the device took last, and a bit that flips with it

writeVars == <<wr_ptr, wr_ptr_cur, wr_ptr_sync, update, update_valid, drop_frame, src>>
writeSyncVars == <<rd_sync1, rd_sync2, ack_sync1, ack_sync2>>
readVars == <<rd_ptr, pipe, taken>>
readSyncVars == <<wr_sync1, update_sync1, update_sync2, update_sync3>>
vars == <<mem, writeVars, writeSyncVars, readVars, readSyncVars>>

Depth == 2 ^ ADDR_WIDTH

(* Pointers have one bit more than addresses. *)
Pointers == 0 .. 2 * Depth - 1
Succ(p) == (p + 1) % (2 * Depth)
Distance(p, q) == (q - p) % (2 * Depth)

(* The n-th word of a frame is [tag, n, last].  NoWord: an output stage is not
   valid.  Stale: a slot of the memory whose word was read or taken back. *)
NoWord == [tag |-> "none", n |-> 0, last |-> TRUE]
Stale == [tag |-> "stale", n |-> 0, last |-> FALSE]

FrameOf(tag, n) == [i \in 1 .. n |-> [tag |-> tag, n |-> i, last |-> i = n]]

-----------------------------------------------------------------------------
(* A code is the set of its bits that are 1. *)
Bit(p, i) == (p \div 2 ^ i) % 2

(* Mutant: the pointers cross in binary. *)
Binary == [p \in Pointers |-> {i \in 0 .. ADDR_WIDTH : Bit(p, i) = 1}]

Gray == [p \in Pointers |-> {i \in 0 .. ADDR_WIDTH : Bit(p, i) # Bit(p, i + 1)}]

(* What may be sampled of a register that changes from a to b meanwhile. *)
Mix(a, b) == {c \in SUBSET (a \union b) : a \intersect b \subseteq c}

(* The code of the pointer that is Depth away. *)
Opposite(g) == LET top == {ADDR_WIDTH - 1, ADDR_WIDTH} IN (g \ top) \union (top \ g)

full_cur == Gray[wr_ptr_cur] = Opposite(rd_sync2)
full_wr == wr_ptr_cur = (wr_ptr + Depth) % (2 * Depth)
empty == Gray[rd_ptr] = wr_sync1

m_axis_tvalid == pipe[2] # NoWord

-----------------------------------------------------------------------------
Init ==
  /\ mem = [a \in 0 .. Depth - 1 |-> Stale]
  /\ wr_ptr = 0 /\ wr_ptr_cur = 0 /\ rd_ptr = 0
  /\ wr_ptr_sync = {} /\ rd_sync1 = {} /\ rd_sync2 = {} /\ wr_sync1 = {}
  /\ update = FALSE /\ update_valid = FALSE
  /\ update_sync1 = FALSE /\ update_sync2 = FALSE /\ update_sync3 = FALSE
  /\ ack_sync1 = FALSE /\ ack_sync2 = FALSE
  /\ drop_frame = FALSE
  /\ pipe = <<NoWord, NoWord>>
  /\ src \in [tag : Tags, n : {1}]
  /\ taken = [word |-> NoWord, turn |-> 0]

-----------------------------------------------------------------------------
(* The MAC: in a cycle it offers a word or none; the last word of a frame says
   whether the frame is bad.  It does not wait, and tready is always high. *)
Offers == {o \in [tvalid : BOOLEAN, tlast : BOOLEAN, bad : BOOLEAN] :
             /\ o.tvalid => \E len \in FrameLens : src.n <= len /\ (o.tlast <=> src.n = len)
             /\ o.tlast => o.tvalid
             /\ o.bad => o.tlast}

Source(o) ==
  \/ ~o.tvalid /\ UNCHANGED src
  \/ o.tvalid /\ ~o.tlast /\ src' = [src EXCEPT !.n = @ + 1]
  \/ o.tlast /\ src' \in [tag : Tags, n : {1}]

-----------------------------------------------------------------------------
(* s_clk: the write logic. *)

Drops == full_cur \/ full_wr \/ drop_frame

(* The memory with the word on offer. *)
Written(o) ==
  IF o.tvalid /\ ~Drops
  THEN [mem EXCEPT ![wr_ptr_cur % Depth] = [tag |-> src.tag, n |-> src.n, last |-> o.tlast]]
  ELSE mem

(* Mutant: the part of a dropped frame that was written stays. *)
DropKeepsPart(o) ==
  /\ o.tvalid /\ Drops
  /\ drop_frame' = ~o.tlast
  /\ UNCHANGED <<wr_ptr, wr_ptr_cur>>

(* The words of the frame are dropped up to its end, and the part of it that was
   written is taken back. *)
Drop(o) ==
  /\ o.tvalid /\ Drops
  /\ drop_frame' = ~o.tlast
  /\ wr_ptr_cur' = IF o.tlast THEN wr_ptr ELSE wr_ptr_cur
  /\ UNCHANGED wr_ptr

(* Mutant: each word is released at once. *)
StoreReleases(o) ==
  /\ o.tvalid /\ ~Drops
  /\ wr_ptr_cur' = IF o.bad THEN wr_ptr ELSE Succ(wr_ptr_cur)
  /\ wr_ptr' = IF ~o.bad THEN Succ(wr_ptr_cur) ELSE wr_ptr
  /\ UNCHANGED drop_frame

(* The end of a good frame releases it to the reader; a bad one is taken back. *)
Store(o) ==
  /\ o.tvalid /\ ~Drops
  /\ wr_ptr_cur' = IF o.bad THEN wr_ptr ELSE Succ(wr_ptr_cur)
  /\ wr_ptr' = IF o.tlast /\ ~o.bad THEN Succ(wr_ptr_cur) ELSE wr_ptr
  /\ UNCHANGED drop_frame

NoTransfer(o) == ~o.tvalid /\ UNCHANGED <<wr_ptr, wr_ptr_cur, drop_frame>>

(* Mutant: a frame that ends while an update is under way is not announced. *)
AnnounceOnce ==
  IF wr_ptr' # wr_ptr /\ update = ack_sync2
  THEN update' = ~update /\ wr_ptr_sync' = Gray[wr_ptr'] /\ UNCHANGED update_valid
  ELSE UNCHANGED <<update, wr_ptr_sync, update_valid>>

(* The reader is told of the new end of the frames; if it has not yet taken the
   one before, it is told as soon as it has. *)
Announce ==
  LET due == wr_ptr' # wr_ptr \/ update_valid IN
  IF due /\ update = ack_sync2
  THEN update' = ~update /\ wr_ptr_sync' = Gray[wr_ptr'] /\ update_valid' = FALSE
  ELSE update_valid' = due /\ UNCHANGED <<update, wr_ptr_sync>>

Write(o) == (Drop(o) \/ Store(o) \/ NoTransfer(o)) /\ Announce /\ Source(o)

(* What crosses to s_clk: rd is the code of the read pointer as sampled. *)
WriteSync(rd) ==
  /\ rd_sync1' = rd
  /\ rd_sync2' = rd_sync1
  /\ ack_sync1' = update_sync3
  /\ ack_sync2' = ack_sync1

-----------------------------------------------------------------------------
(* m_clk: the read logic, with a device that is ready or not. *)

Advances(tready) == tready \/ ~m_axis_tvalid
Reads(tready) == Advances(tready) \/ pipe[1] = NoWord
Fetches(tready) == Reads(tready) /\ ~empty

(* word is what the memory gives. *)
Read(tready, word) ==
  /\ rd_ptr' = IF Fetches(tready) THEN Succ(rd_ptr) ELSE rd_ptr
  /\ pipe' = <<IF Fetches(tready) THEN word ELSE IF Reads(tready) THEN NoWord ELSE pipe[1],
               IF Advances(tready) THEN pipe[1] ELSE pipe[2]>>

(* Of a frame the device has taken to the end, nothing is remembered. *)
Mark(word) == IF word.last THEN NoWord ELSE word

Take(tready) ==
  taken' = IF m_axis_tvalid /\ tready
           THEN [word |-> Mark(pipe[2]), turn |-> 1 - taken.turn]
           ELSE taken

(* What crosses to m_clk: wr is the code of the write pointer as sampled. *)
ReadSync(wr) ==
  /\ wr_sync1' = IF update_sync2 # update_sync3 THEN wr ELSE wr_sync1
  /\ update_sync1' = update
  /\ update_sync2' = update_sync1
  /\ update_sync3' = update_sync2

-----------------------------------------------------------------------------
(* One clock ticks, or both at once. *)

(* The slots that are not between the pointers are stale. *)
Memory(m) ==
  LET used == {(rd_ptr' + i) % Depth : i \in 0 .. Distance(rd_ptr', wr_ptr_cur') - 1}
  IN  mem' = [a \in DOMAIN m |-> IF a \in used THEN m[a] ELSE Stale]

s_clk ==
  /\ WriteSync(Gray[rd_ptr])
  /\ UNCHANGED <<readVars, readSyncVars>>
  /\ \E o \in Offers : Write(o) /\ Memory(Written(o))

m_clk ==
  /\ ReadSync(wr_ptr_sync)
  /\ UNCHANGED <<writeVars, writeSyncVars>>
  /\ \E tready \in BOOLEAN : Read(tready, mem[rd_ptr % Depth]) /\ Take(tready)
  /\ Memory(mem)

(* A slot that is written while it is read does not give its word. *)
both_clks ==
  /\ \E o \in Offers, tready \in BOOLEAN :
       LET a == rd_ptr % Depth IN
       /\ Write(o)
       /\ Read(tready, IF Written(o)[a] = mem[a] THEN mem[a] ELSE Stale)
       /\ Take(tready)
       /\ Memory(Written(o))
  /\ \E rd \in Mix(Gray[rd_ptr], Gray[rd_ptr']) : WriteSync(rd)
  /\ \E wr \in Mix(wr_ptr_sync, wr_ptr_sync') : ReadSync(wr)

Next == s_clk \/ m_clk \/ both_clks

Spec == Init /\ [][Next]_vars

(* Neither clock stops. *)
FairSpec == Spec /\ WF_vars(s_clk \/ both_clks) /\ WF_vars(m_clk \/ both_clks)

-----------------------------------------------------------------------------
(* The pointer with this code. *)
Decode == [g \in SUBSET (0 .. ADDR_WIDTH) |-> CHOOSE p \in Pointers : Gray[p] = g]

(* What each side knows of the other's pointer is late but never wrong: going
   round the ring one meets, in this order, the read pointer as the writer has it,
   as it crosses and as it is, then the end of the frames as the reader has it, as
   it was announced and as it is, and the end of the part being written, at most
   Depth words on (axis_async_fifo lines 220-227, 468-492): no word is overwritten
   before it is read, and none is read before it is released. *)
ViewsAreOrdered ==
  LET behind(g) == Distance(Decode[g], rd_ptr)
      ahead(p) == Distance(rd_ptr, p) IN
  /\ behind(rd_sync1) <= behind(rd_sync2)
  /\ behind(rd_sync2) + ahead(wr_ptr_cur) <= Depth
  /\ ahead(Decode[wr_sync1]) <= ahead(Decode[wr_ptr_sync])
  /\ ahead(Decode[wr_ptr_sync]) <= ahead(wr_ptr)
  /\ ahead(wr_ptr) <= ahead(wr_ptr_cur)

(* The released words that the device has not taken. *)
Contents ==
  SelectSeq(<<pipe[2], pipe[1]>>, LAMBDA w : w # NoWord)
    \o [i \in 1 .. Distance(rd_ptr, wr_ptr) |-> mem[(rd_ptr + i - 1) % Depth]]

Abstract == INSTANCE FrameFifo WITH
              Frames <- {FrameOf(tag, n) : tag \in Tags, n \in FrameLens}, queue <- Contents

(* The FIFO passes on whole frames only, in order: one that does not fit or is bad
   leaves no trace, and the words of the others are neither lost nor mixed with
   stale ones, whatever the clocks do (lines 372-383, 384-398, 563-574). *)
IsFrameFifo == Abstract!Spec

(* "m_axis_tvalid will not be deasserted within a frame" (line 64), the promise
   the filter relies on: behind a word that is not the last one of its frame comes
   the next one at once. *)
NoGapInFrame == ~taken.word.last => m_axis_tvalid

(* A frame that was released is shown to the device, also when it ended while the
   update before it was under way (lines 329-337, 404-412). *)
FramesAppear == Contents # << >> ~> m_axis_tvalid
=============================================================================
