------------------------------- MODULE Words -------------------------------
(* The 16-bit words that travel from the MAC to the processor, abstracted to
   what the receive path tells apart.  A word is either a beat of a frame, whose
   bits the hardware only passes on, or a number that the filter wrote (a length,
   or the zero of an idle bus).  Beats of successive wanted frames carry
   alternating tags, so that a lost or repeated frame shows. *)
EXTENDS Integers, Sequences

BytesPerWord == 2   \* datawidth / 8 with datawidth = 16

Beat(tag, i) == [kind |-> "beat", tag |-> tag, val |-> i]

Number(v) == [kind |-> "number", tag |-> 0, val |-> v]

(* A value that no register or memory cell was ever given. *)
Undefined == [kind |-> "undefined", tag |-> 0, val |-> 0]

(* The words that a frame of n beats leaves in the buffer: its header, then its
   beats.  The header counts the bytes of all beats but the last. *)
HeaderOf(n) == Number(BytesPerWord * (n - 1))

FrameWords(tag, n) ==
  <<HeaderOf(n)>> \o [i \in 1 .. n |-> Beat(tag, i)]
=============================================================================
