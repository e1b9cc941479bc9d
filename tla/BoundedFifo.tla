---------------------------- MODULE BoundedFifo ----------------------------
(* What a first-in first-out buffer promises: the words that were accepted
   leave in the order in which they were accepted, none is lost, none appears
   twice, and never more than Capacity of them are held.  In one step the
   buffer may accept a word, give one away, or do both. *)
EXTENDS Naturals, Sequences

CONSTANTS Word,      \* the data words
          Capacity   \* how many words the buffer can hold

VARIABLE queue       \* the words held, oldest first

TypeOK == queue \in Seq(Word)

Init == queue = << >>

Put(w) ==
  /\ Len(queue) < Capacity
  /\ queue' = Append(queue, w)

Take ==
  /\ queue # << >>
  /\ queue' = Tail(queue)

PutTake(w) ==
  /\ queue # << >>
  /\ queue' = Append(Tail(queue), w)

Next == Take \/ \E w \in Word : Put(w) \/ PutTake(w)

Spec == Init /\ [][Next]_queue
=============================================================================
