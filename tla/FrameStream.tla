---------------------------- MODULE FrameStream ----------------------------
(* What the receive path promises to the FIFO behind it: the words it hands on
   are those of the wanted frames, each frame whole and with its header in front,
   in the order in which the frames arrived, and nothing else. *)
EXTENDS Words

CONSTANT FrameLens   \* the lengths of frames, in beats

VARIABLES pending,   \* words of the wanted frames received, not yet handed on
          out        \* the word handed on last, with a bit that flips for each word

WantedFrames == {FrameWords(t, n) : t \in {0, 1}, n \in FrameLens}

Init ==
  /\ pending = << >>
  /\ out = [word |-> Undefined, turn |-> 0]

Emit == out' = [word |-> Head(pending), turn |-> 1 - out.turn]

(* A wanted frame has arrived. *)
Receive(words) == pending' = pending \o words /\ UNCHANGED out

HandOn ==
  /\ pending # << >>
  /\ Emit
  /\ pending' = Tail(pending)

HandOnAndReceive(words) ==
  /\ pending # << >>
  /\ Emit
  /\ pending' = Tail(pending) \o words

Next == HandOn \/ \E words \in WantedFrames : Receive(words) \/ HandOnAndReceive(words)

Spec == Init /\ [][Next]_<<pending, out>>
=============================================================================
