---------------------------- MODULE MCMulticore ----------------------------
(* Programs of one section, then of two, with and without data, with whole and broken
   words, with and without memory to clear. *)
EXTENDS Multicore

Sections(offset) ==
  {[filesize |-> f, offset |-> offset, memsize |-> m] : f \in 0 .. 4, m \in 0 .. 5}
Proper(offset) == {s \in Sections(offset) : s.filesize <= s.memsize}

MCPrograms ==
  <<{[entry |-> 6, channel |-> "QUEUING", threads |-> 3, sections |-> <<s>>] : s \in Proper(0)},
    {[entry |-> 9, channel |-> "SAMPLING", threads |-> 2, sections |-> <<s, t>>] :
       s \in {p \in Proper(6) : p.memsize = 3}, t \in {p \in Proper(0) : p.memsize = 5}}>>
=============================================================================
