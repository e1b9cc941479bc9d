------------------------------ MODULE Download ------------------------------
(* The download of a program: patserdow on the host cuts the program into frames
   (a length, a checksum, the payload), the boot loader's download() takes them
   apart byte by byte, writes main memory and answers every frame.  A number has
   WordBytes bytes of base Base, most significant first; the checksum is one byte
   that identifies the payload.  The line may spoil one byte behind a length. *)
EXTENDS Integers, SequencesExt

CONSTANTS WordBytes, Base, FrameSize

VARIABLES program,     \* what is sent: an entry point and sections
          line,        \* bytes under way to the board
          todo,        \* bytes patserdow still has to send
          expected,    \* responseQueue: answers patserdow waits for
          answers,     \* bytes under way to the host
          host,        \* "ok", or "failed" once an answer was wrong
          spoiled,     \* the line has spoilt a byte
          packet,      \* download(): the packet being received
          section,     \* download(): the section being received
          mem, result

downloadVars == <<program, line, todo, expected, answers, host, spoiled, packet, section, mem, result>>

Null == -1       \* also the all-ones initial value of section_number
CRC_LENGTH == 1
Words == 0 .. 7
Leftover == 99
Nothing == << >>

Number(n) == [i \in 1 .. WordBytes |-> (n \div Base ^ (WordBytes - i)) % Base]
CRC(payload) == <<payload>>

(* Section k's data: no byte is zero. *)
Data(k, s) == [i \in 1 .. s.filesize |-> 1 + ((i + k) % (Base - 1))]

Header(p) == Number(p.entry) \o Number(Len(p.sections))
(* The header of a section and its data are read apart, so they are framed apart. *)
Segment(p, k) ==
  LET s == p.sections[k]
      header == Number(s.filesize) \o Number(s.offset) \o Number(s.memsize)
  IN  IF s.filesize = 0 THEN <<header>> ELSE <<header, Data(k, s)>>

NewPacket == [size |-> 0, count |-> 0, payload |-> << >>, crc |-> << >>]
NewSection == [state |-> "ENTRYPOINT", entry |-> 0, number |-> Null, count |-> 0,
               filesize |-> 0, offset |-> 0, memsize |-> 0, bytes |-> 0, integer |-> 0]

Streams(p) ==
  <<Header(p)>> \o FlattenSeq([k \in 1 .. Len(p.sections) |-> Segment(p, k)])

(* Nothing is under way; main memory is the application's. *)
Quiet ==
  /\ program = Nothing /\ todo = << >>
  /\ line = << >> /\ expected = << >> /\ answers = << >> /\ host = "ok" /\ spoiled = FALSE
  /\ packet = NewPacket /\ section = NewSection
  /\ mem = [w \in Words |-> Leftover]
  /\ result = "none"

(* What download() kept on its stack is gone, and so is the host's process. *)
EndOfTransfer ==
  /\ program' = Nothing /\ todo' = << >>
  /\ line' = << >> /\ expected' = << >> /\ answers' = << >> /\ host' = "ok" /\ spoiled' = FALSE
  /\ packet' = NewPacket /\ section' = NewSection
  /\ mem' = [w \in Words |-> Leftover]
  /\ result' = "none"

(* patserdow is started, and core 0 enters download(). *)
Begin(p) ==
  /\ program' = p /\ todo' = Streams(p)
  /\ UNCHANGED <<line, expected, answers, host, spoiled, packet, section, mem, result>>

-----------------------------------------------------------------------------
(* patserdow *)

(* Each stream is cut into frames of its own; one frame is under way at a time, which
   the board cannot tell from a full line. *)
Transmit ==
  /\ host = "ok" /\ todo # << >> /\ line = << >>
  /\ LET stream  == todo[1]
         size    == IF Len(stream) < FrameSize THEN Len(stream) ELSE FrameSize
         payload == SubSeq(stream, 1, size)
     IN  /\ line' = <<size>> \o CRC(payload) \o payload
         /\ expected' = Append(expected, CRC(payload))
         /\ todo' = IF size = Len(stream) THEN Tail(todo)
                    ELSE <<SubSeq(stream, size + 1, Len(stream))>> \o Tail(todo)
  /\ UNCHANGED <<program, answers, host, spoiled, packet, section, mem, result>>

ack ==
  /\ host = "ok" /\ answers # << >> /\ expected # << >>
  /\ host' = IF answers[1] = expected[1] THEN "ok" ELSE "failed"
  /\ answers' = Tail(answers) /\ expected' = Tail(expected)
  /\ UNCHANGED <<program, line, todo, spoiled, packet, section, mem, result>>

(* One byte of a payload is changed on the way. *)
Spoil ==
  /\ ~spoiled /\ packet.size # 0 /\ packet.count >= CRC_LENGTH /\ line # << >>
  /\ line' = [line EXCEPT ![1] = (@ + 1) % Base]
  /\ spoiled' = TRUE
  /\ UNCHANGED <<program, todo, expected, answers, host, packet, section, mem, result>>

-----------------------------------------------------------------------------
(* download() *)

State == <<"ENTRYPOINT", "NUMBER", "FILESIZE", "OFFSET", "MEMSIZE", "DATA">>
After(state) == State[1 + CHOOSE i \in 1 .. 5 : State[i] = state]

(* The byte joins the integer; a complete header word is stored. *)
TakeHeaderByte(s, data) ==
  LET integer == s.integer + data * Base ^ (WordBytes - 1 - s.bytes)
      t == [s EXCEPT !.integer = integer, !.bytes = s.bytes + 1]
      u == [t EXCEPT !.bytes = 0, !.state = After(s.state)]
  IN  IF t.bytes # WordBytes THEN t
      ELSE CASE s.state = "ENTRYPOINT" -> [u EXCEPT !.entry = integer]
             [] s.state = "NUMBER"     -> [u EXCEPT !.number = integer]
             [] s.state = "FILESIZE"   -> [u EXCEPT !.filesize = integer]
             [] s.state = "OFFSET"     -> [u EXCEPT !.offset = integer]
             [] s.state = "MEMSIZE"    -> [u EXCEPT !.memsize = integer]

TakeDataByte(s, data) ==
  [s EXCEPT !.integer = s.integer + data * Base ^ (WordBytes - 1 - (s.bytes % WordBytes)),
            !.bytes = s.bytes + 1]

(* The word is written with every byte, in case it stays incomplete. *)
StoreData(s, m) ==
  [m EXCEPT ![(s.offset + s.bytes - 1) \div WordBytes] = s.integer]

Complete(s) == s.state = "DATA" /\ s.bytes = s.filesize

(* Mutant: the word the data ends in is cleared, too. *)
ClearUnaligned(s, m) ==
  LET first == s.bytes \div WordBytes
  IN  [w \in DOMAIN m |->
         IF \E i \in first .. s.memsize - 1 :
              i * WordBytes < s.memsize /\ w = s.offset \div WordBytes + i
         THEN 0 ELSE m[w]]

(* Words from the first one behind the data are cleared up to the section's end. *)
ClearRest(s, m) ==
  LET first == (s.bytes + WordBytes - 1) \div WordBytes
  IN  [w \in DOMAIN m |->
         IF \E i \in first .. s.memsize - 1 :
              i * WordBytes < s.memsize /\ w = s.offset \div WordBytes + i
         THEN 0 ELSE m[w]]

NextSegment(s) == [s EXCEPT !.bytes = 0, !.count = @ + 1, !.state = "FILESIZE"]

FreshInteger(s) == IF s.bytes % WordBytes = 0 THEN [s EXCEPT !.integer = 0] ELSE s

TakePayload(data) ==
  LET isData == section.state = "DATA"
      s == IF isData THEN TakeDataByte(section, data) ELSE TakeHeaderByte(section, data)
      m == IF isData THEN StoreData(s, mem) ELSE mem
  IN  IF Complete(s)
      THEN section' = FreshInteger(NextSegment(s)) /\ mem' = ClearRest(s, m)
      ELSE section' = FreshInteger(s) /\ mem' = m


(* The end of a packet is answered with the checksum of what arrived. *)
EndOfPacket(p) ==
  IF p.count # p.size + CRC_LENGTH
  THEN packet' = p /\ UNCHANGED <<answers, result>>
  ELSE /\ packet' = NewPacket
       /\ answers' = Append(answers, CRC(p.payload))
       /\ result' = CASE p.crc # CRC(p.payload) -> "NULL"
                      [] p.crc = CRC(p.payload) /\ section'.count = section'.number -> "entrypoint"
                      [] OTHER -> "none"

download ==
  /\ result = "none" /\ line # << >>
  /\ line' = Tail(line)
  /\ LET data == Head(line)
     IN  \/ /\ packet.size = 0
            /\ packet' = [NewPacket EXCEPT !.size = data]
            /\ UNCHANGED <<section, mem, answers, result>>
         \/ /\ packet.size # 0 /\ packet.count < CRC_LENGTH
            /\ UNCHANGED <<section, mem>>
            /\ EndOfPacket([packet EXCEPT !.count = @ + 1, !.crc = Append(@, data)])
         \/ /\ packet.size # 0 /\ packet.count >= CRC_LENGTH
            /\ TakePayload(data)
            /\ EndOfPacket([packet EXCEPT !.count = @ + 1, !.payload = Append(@, data)])
  /\ UNCHANGED <<program, todo, expected, host, spoiled>>

(* patserdow has read every answer, or has given up. *)
HostIsDone == host = "failed" \/ (todo = << >> /\ expected = << >>)

-----------------------------------------------------------------------------
(* The byte at position i of section k: its data, then zeros. *)
ByteOf(k, i) ==
  LET s == program.sections[k] IN IF i < s.filesize THEN Data(k, s)[i + 1] ELSE 0

(* When download() returns an entry point, it is the program's, nothing was spoilt on
   the way, and main memory holds every section with the rest of its memory size
   cleared. *)
LoadedIsSent ==
  result = "entrypoint" =>
    /\ section.entry = program.entry /\ ~spoiled /\ host = "ok"
    /\ \A k \in DOMAIN program.sections : \A i \in 0 .. program.sections[k].memsize - 1 :
         LET at == program.sections[k].offset + i
         IN  (mem[at \div WordBytes] \div Base ^ (WordBytes - 1 - (at % WordBytes))) % Base
               = ByteOf(k, i)

=============================================================================
