------------------------------ MODULE FrameFifo ------------------------------
(* What a frame FIFO promises: frames enter it as a whole or not at all, and leave
   it word by word, in order, none lost, doubled, shortened or mixed. *)
EXTENDS Naturals, Sequences

CONSTANTS Frames,   \* the frames, as sequences of words
          Mark(_)   \* what is remembered of the word taken last

VARIABLES queue,    \* the words inside
          taken     \* the word taken last, and a bit that flips with each

vars == <<queue, taken>>

Init == queue = << >> /\ taken.turn = 0

Take ==
  /\ queue # << >>
  /\ taken' = [word |-> Mark(Head(queue)), turn |-> 1 - taken.turn]

Next ==
  \E frame \in Frames \union {<< >>} :
    \/ Take /\ queue' = Tail(queue) \o frame
    \/ queue' = queue \o frame /\ UNCHANGED taken

Spec == Init /\ [][Next]_vars
=============================================================================
