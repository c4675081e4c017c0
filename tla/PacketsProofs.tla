--------------------------- MODULE PacketsProofs ---------------------------
(***************************************************************************)
(* Theorems about Packets, for every size of the packets and of the reads, *)
(* every number of commands, repetitions, rejected answers and garbled     *)
(* commands: the variables keep their types, a packet parsed to its end is *)
(* the command GDB waits for, whole, and the stub implements Exchange.     *)
(*                                                                         *)
(* They are about executions that are Calm: without acks the socket does   *)
(* not cut a packet and GDB sends no ^C and no - that crosses an answer.   *)
(* As long as acks are on anything goes.  What goes wrong otherwise is     *)
(* what the run that cuts packets without acks shows.                      *)
(*                                                                         *)
(* The invariant looks at the stream, which is what the stub has in its    *)
(* buffer and what it has not read yet: a read moves bytes from one to the *)
(* other and leaves the stream alone.  Each state of the parser says what  *)
(* of the stream it has passed.  The parser is a fold over the bytes of a  *)
(* read; ParseTurns takes it apart into one turn for each byte, and        *)
(* ParseKeeps is an induction over the turns.                              *)
(***************************************************************************)
EXTENDS Packets, WellFoundedInduction, TLAPS

-----------------------------------------------------------------------------
(* The invariant.                                                          *)

Stream == inbuf \o wire

Signs == {"+", "-"}
NoSigns(s, l) == \A i \in l .. Len(s) : s[i].k \notin Signs

\* The bytes m stand in s from q on.
At(s, q, m) == /\ q + Len(m) - 1 <= Len(s)
               /\ \A i \in 1 .. Len(m) : s[q + i - 1] = m[i]

Command(s, q, n) == At(s, q, Packet(n)) \/ At(s, q, BadPacket(n))
Length == DataLen + 4

\* The + at k is the only sign of the stream.  What follows it is the command
\* GDB waits for, with more only while a vCont runs, or nothing yet.
Plus(s, k) ==
    /\ k \in 1 .. Len(s) /\ s[k].k = "+"
    /\ \A i \in 1 .. Len(s) : i # k => s[i].k \notin Signs
    /\ got = ran /\ back = <<>>
    /\ \/ sent = ran /\ Len(s) = k
       \/ /\ sent = ran + 1
          /\ Command(s, k + 1, sent)
          /\ cmds[sent] # "vCont" => Len(s) = k + Length

\* The last command was run, and GDB has not taken its answer, which is still
\* in the output buffer.
Owed == /\ got = ran - 1 /\ ran = sent
        /\ out = Message("answer", ran)
        /\ cmds[ran] # "noAck"

\* The answer is on its way, or GDB's - is among the bytes after j.
Answered(s, j) ==
    /\ Owed
    /\ \/ back = <<out>> /\ NoSigns(s, 1)
       \/ /\ back = <<>>
          /\ \E m \in j + 1 .. Len(s) :
                /\ s[m].k = "-"
                /\ \A i \in 1 .. Len(s) : i # m => s[i].k \notin Signs

\* After its own - the stub waits for a + that never comes (stub.c:118).
Stuck(s) == /\ got = ran /\ sent = ran + 1
            /\ NoSigns(s, 1)
            /\ back \in {<<>>, <<Message("nak", 0)>>}

\* The state of parser p after the first j bytes of s, with acks.
WithAcks(p, s, j) ==
    LET k == p.first - 2
    IN CASE p.state = "RESET" ->
              /\ p = ParserReset
              /\ \/ \E l \in j + 1 .. Len(s) : Plus(s, l)
                 \/ Answered(s, j)
                 \/ Stuck(s)
         [] p.state = "START" -> Plus(s, j)
         [] p.state = "SKIP" -> /\ Plus(s, k) /\ sent = ran + 1
                                /\ j \in k + 1 .. k + 1 + DataLen
         [] p.state = "CHECKSUM_DIGIT_0" ->
              /\ Plus(s, k) /\ sent = ran + 1
              /\ p.last = k + 2 + DataLen /\ j = p.last
         [] p.state = "CHECKSUM_DIGIT_1" ->
              /\ Plus(s, k) /\ sent = ran + 1
              /\ p.last = k + 2 + DataLen /\ j = p.last + 1
         [] p.state = "FINISHED" ->
              /\ Plus(s, k) /\ sent = ran + 1
              /\ p.last = k + 2 + DataLen /\ j >= p.last + 2
              /\ At(s, k + 1, Packet(sent))
         [] p.state = "NACK" ->
              /\ Owed /\ back = <<>> /\ NoSigns(s, j + 1)
         [] p.state = "ERROR" ->
              /\ got = ran /\ sent = ran + 1
              /\ back = <<>> /\ NoSigns(s, j + 1)
         [] OTHER -> FALSE

\* The same as Plus without acks; the + of the answer that ended them may be
\* there.
Bare(s, k) ==
    /\ k \in 0 .. Len(s)
    /\ k \in {0, 1}
    /\ k = 1 => s[1].k = "+"
    /\ got = ran /\ back = <<>> /\ ~gdbAck
    /\ \/ sent = ran /\ Len(s) = k
       \/ /\ sent = ran + 1
          /\ At(s, k + 1, Packet(sent))
          /\ Len(s) = k + Length

\* The state of parser p after the first j bytes of s, without acks.
WithoutAcks(p, s, j) ==
    LET k == p.first - 2
    IN CASE p.state = "RESET" ->
              /\ p = ParserReset /\ j = 0
              /\ \/ \E l \in {0, 1} : Bare(s, l)
                 \/ /\ s = <<>> /\ got = ran - 1 /\ ran = sent
                    /\ back = <<Message("answer", ran)>>
                    /\ gdbAck => cmds[sent] = "noAck"
         [] p.state = "START" -> j = 1 /\ Bare(s, 1)
         [] p.state = "SKIP" -> /\ Bare(s, k) /\ sent = ran + 1
                                /\ j \in k + 1 .. k + 1 + DataLen
         [] p.state = "FINISHED" ->
              /\ Bare(s, k) /\ sent = ran + 1
              /\ p.last = k + 2 + DataLen /\ j >= p.last
         [] OTHER -> FALSE

\* A vCont is executed, its packet still in the buffer.
Waiting(s, j) ==
    LET k == parser.first - 2
    IN  /\ parser.state = "FINISHED"
        /\ k \in Nat
        /\ parser.last = k + 2 + DataLen
        /\ At(s, k + 1, Packet(sent))
        /\ ran = sent /\ got = ran - 1 /\ cmds[sent] = "vCont"
        /\ back = <<>>
        /\ IF stubAck THEN j >= parser.last + 2 /\ NoSigns(s, k + 1)
           ELSE j >= parser.last /\ wire = <<>> /\ ~gdbAck

Place ==
    IF main = "wait" THEN Waiting(Stream, Len(inbuf))
    ELSE IF stubAck THEN WithAcks(parser, Stream, Len(inbuf))
    ELSE /\ WithoutAcks(parser, Stream, Len(inbuf))
         /\ wire # <<>> => parser.state \in {"RESET", "START"}

Inv == TypeOK /\ (stubAck => gdbAck) /\ Place

\* Acks are on, or the stream without them is not disturbed.
Calm == stubAck \/ ~RoughNoAck

IInv == Calm => Inv

-----------------------------------------------------------------------------
(* Sequences and the bytes of a packet.                                    *)

LEMMA Numbers == /\ DataLen \in Nat /\ DataLen >= 1
                 /\ MaxCmds \in Nat /\ READ_MAX \in Nat
                 /\ Length \in Nat /\ Length = DataLen + 4
BY PacketsAssumption DEF Length

LEMMA Concat ==
    ASSUME NEW S, NEW s \in Seq(S), NEW t \in Seq(S)
    PROVE  /\ s \o t \in Seq(S) /\ Len(s \o t) = Len(s) + Len(t)
           /\ \A i \in 1 .. Len(s) : (s \o t)[i] = s[i]
           /\ \A i \in 1 .. Len(t) : (s \o t)[Len(s) + i] = t[i]
OBVIOUS

LEMMA SubSeqBytes ==
    ASSUME NEW S, NEW s \in Seq(S), NEW l \in Nat, NEW m \in Nat,
           l >= 1, l <= m + 1, m <= Len(s)
    PROVE  /\ SubSeq(s, l, m) \in Seq(S)
           /\ Len(SubSeq(s, l, m)) = m - l + 1
           /\ \A i \in 1 .. m - l + 1 : SubSeq(s, l, m)[i] = s[l + i - 1]
           /\ l <= m => SubSeq(s, l, m)[m - l + 1] = s[m]
<1>1. SubSeq(s, l, m) \in Seq(S)
  OBVIOUS
<1>2. Len(SubSeq(s, l, m)) = m - l + 1
  OBVIOUS
<1>3. \A i \in 1 .. m - l + 1 : SubSeq(s, l, m)[i] = s[l + i - 1]
  OBVIOUS
<1>4. ASSUME l <= m PROVE SubSeq(s, l, m)[m - l + 1] = s[m]
  BY <1>4
<1> QED BY <1>1, <1>2, <1>3, <1>4

LEMMA SameSeq ==
    ASSUME NEW S, NEW s \in Seq(S), NEW t \in Seq(S),
           Len(s) = Len(t), \A i \in 1 .. Len(s) : s[i] = t[i]
    PROVE  s = t
OBVIOUS

LEMMA PacketBytes ==
    ASSUME NEW n \in 0 .. MaxCmds
    PROVE  /\ Packet(n) \in Seq(Bytes) /\ Len(Packet(n)) = Length
           /\ Packet(n)[1] = Byte("$", n)
           /\ \A i \in 2 .. DataLen + 1 : Packet(n)[i] = Byte("data", n)
           /\ Packet(n)[DataLen + 2] = Byte("#", n)
           /\ Packet(n)[DataLen + 3] = Byte("digit0", n)
           /\ Packet(n)[DataLen + 4] = Byte("digit1", n)
<1> DEFINE a == <<Byte("$", n)>>
           c == <<Byte("#", n), Byte("digit0", n), Byte("digit1", n)>>
<1>1. Data(n) \in Seq(Bytes) /\ Len(Data(n)) = DataLen
  BY Numbers DEF Data, Bytes, Byte
<1>2. a \in Seq(Bytes) /\ c \in Seq(Bytes) /\ Len(a) = 1 /\ Len(c) = 3
  BY DEF Bytes, Byte
<1>3. Packet(n) = a \o Data(n) \o c
  BY DEF Packet
<1>4. \A i \in 1 .. DataLen : Data(n)[i] = Byte("data", n)
  BY DEF Data
<1>5. /\ a[1] = Byte("$", n) /\ c[1] = Byte("#", n)
      /\ c[2] = Byte("digit0", n) /\ c[3] = Byte("digit1", n)
  OBVIOUS
<1> HIDE DEF a, c
<1> DEFINE d == Data(n)
           e == a \o d
<1> HIDE DEF d
<1>d. d \in Seq(Bytes) /\ Len(d) = DataLen
  BY <1>1 DEF d
<1>6. /\ e \in Seq(Bytes) /\ Len(e) = DataLen + 1
      /\ e[1] = a[1]
      /\ \A i \in 1 .. DataLen : e[1 + i] = d[i]
  <2>1. /\ e \in Seq(Bytes) /\ Len(e) = Len(a) + Len(d)
        /\ \A i \in 1 .. Len(a) : e[i] = a[i]
        /\ \A i \in 1 .. Len(d) : e[Len(a) + i] = d[i]
    <3>1. a \in Seq(Bytes) /\ d \in Seq(Bytes)
      BY <1>d, <1>2
    <3> QED BY <3>1, Concat
  <2> HIDE DEF e
  <2>2. 1 \in 1 .. Len(a)
    BY <1>2
  <2> QED BY <2>1, <2>2, <1>d, <1>2, Numbers
<1> HIDE DEF e
<1>7. /\ Packet(n) \in Seq(Bytes) /\ Len(Packet(n)) = DataLen + 4
      /\ \A i \in 1 .. DataLen + 1 : Packet(n)[i] = e[i]
      /\ \A i \in 1 .. 3 : Packet(n)[DataLen + 1 + i] = c[i]
  <2>1. Packet(n) = e \o c
    BY <1>3 DEF d, e
  <2>2. /\ Packet(n) \in Seq(Bytes) /\ Len(Packet(n)) = Len(e) + Len(c)
        /\ \A i \in 1 .. Len(e) : Packet(n)[i] = e[i]
        /\ \A i \in 1 .. Len(c) : Packet(n)[Len(e) + i] = c[i]
    <3>1. c \in Seq(Bytes) /\ e \in Seq(Bytes)
      BY <1>2, <1>6
    <3> QED BY <2>1, <3>1, Concat
  <2> QED BY <2>2, <1>2, <1>6, Numbers
<1>8. \A i \in 2 .. DataLen + 1 : e[i] = Byte("data", n)
  <2>1. \A i \in 2 .. DataLen + 1 : i - 1 \in 1 .. DataLen /\ i = 1 + (i - 1)
    BY Numbers
  <2> QED BY <2>1, <1>4, <1>6 DEF d
<1>11. /\ Packet(n)[DataLen + 2] = c[1] /\ Packet(n)[DataLen + 3] = c[2]
       /\ Packet(n)[DataLen + 4] = c[3]
  BY <1>7, Numbers
<1>13. Packet(n)[1] = Byte("$", n)
  BY <1>5, <1>6, <1>7, Numbers
<1> QED BY <1>5, <1>7, <1>8, <1>11, <1>13, Numbers DEF Length

LEMMA BadPacketBytes ==
    ASSUME NEW n \in 0 .. MaxCmds
    PROVE  /\ BadPacket(n) \in Seq(Bytes) /\ Len(BadPacket(n)) = Length
           /\ BadPacket(n)[1] = Byte("$", n)
           /\ \A i \in 2 .. DataLen : BadPacket(n)[i] = Byte("data", n)
           /\ BadPacket(n)[DataLen + 1] = Byte("data", 0)
           /\ BadPacket(n)[DataLen + 2] = Byte("#", n)
           /\ BadPacket(n)[DataLen + 3] = Byte("digit0", n)
           /\ BadPacket(n)[DataLen + 4] = Byte("digit1", n)
<1>1. Byte("data", 0) \in Bytes
  BY Numbers DEF Byte, Bytes
<1>2. \A i \in 1 .. Length : BadPacket(n)[i] =
          IF i = DataLen + 1 THEN Byte("data", 0) ELSE Packet(n)[i]
  BY PacketBytes, Numbers DEF BadPacket
<1>3. BadPacket(n) \in Seq(Bytes) /\ Len(BadPacket(n)) = Length
  BY <1>1, PacketBytes, Numbers DEF BadPacket
<1> QED BY <1>2, <1>3, PacketBytes, Numbers

-----------------------------------------------------------------------------
(* The fold of the parser.                                                 *)

\* An element of X that is missing would be preceded by one that is missing.
LEMMA Induction ==
    ASSUME NEW X, 0 \in X, NEW n \in Nat,
           \A i \in Nat : i < n /\ i \in X => i + 1 \in X
    PROVE  \A i \in 0 .. n : i \in X
<1> DEFINE T == {i \in 0 .. n : i \notin X}
<1> SUFFICES ASSUME T # {} PROVE FALSE
  OBVIOUS
<1>1. T \subseteq Nat
  OBVIOUS
<1>2. PICK m \in T : \A i \in T : <<i, m>> \notin OpToRel(<, Nat)
  <2> HIDE DEF T
  <2> QED BY <1>1, NatLessThanWellFounded, WFMin
<1>3. m \in Nat /\ m # 0 /\ m - 1 \in Nat
  OBVIOUS
<1>4. m - 1 \in X
  <2>1. <<m - 1, m>> \in OpToRel(<, Nat)
    BY <1>3 DEF OpToRel
  <2>2. m - 1 \notin T
    BY <1>2, <2>1
  <2>3. m - 1 \in 0 .. n
    BY <1>3
  <2> QED BY <2>2, <2>3
<1> QED BY <1>3, <1>4

\* What MapThenFoldSet, behind FoldLeft, chooses: the value over each subset
\* of the indices, from the value without its largest element.
Folded(b, s, n, t) ==
    t = [T \in SUBSET (1 .. n) |->
            IF T = {} THEN parser
            ELSE ParseByte(t[T \ {Max(T)}], b, s[Max(T)])]

LEMMA MaxOf == ASSUME NEW n \in Nat, NEW T \in SUBSET (1 .. n + 1)
               PROVE  /\ n + 1 \in T => Max(T) = n + 1
                      /\ Max(1 .. n + 1) = n + 1
<1>1. ASSUME NEW S \in SUBSET (1 .. n + 1), n + 1 \in S
      PROVE  Max(S) = n + 1
  <2>1. \E x \in S : \A y \in S : x >= y
    BY <1>1
  <2>2. Max(S) \in S /\ \A y \in S : Max(S) >= y
    BY <2>1 DEF Max
  <2>3. Max(S) >= n + 1 /\ Max(S) \in 1 .. n + 1
    BY <1>1, <2>2
  <2> QED BY <2>3
<1> QED BY <1>1

LEMMA FoldExists ==
    ASSUME NEW b, NEW s, NEW n \in Nat
    PROVE  \E t : Folded(b, s, n, t)
<1> DEFINE X == {i \in Nat : \E t : Folded(b, s, i, t)}
<1>1. 0 \in X
  <2>1. Folded(b, s, 0, [T \in SUBSET (1 .. 0) |-> parser])
    BY DEF Folded
  <2> QED BY <2>1
<1>2. ASSUME NEW i \in Nat, i \in X PROVE i + 1 \in X
  <2>1. PICK t : Folded(b, s, i, t)
    BY <1>2
  <2> DEFINE u == [T \in SUBSET (1 .. i + 1) |->
                     IF i + 1 \in T THEN ParseByte(t[T \ {i + 1}], b, s[i + 1])
                                    ELSE t[T]]
  <2>2. ASSUME NEW T \in SUBSET (1 .. i + 1)
        PROVE  u[T] = IF T = {} THEN parser
                      ELSE ParseByte(u[T \ {Max(T)}], b, s[Max(T)])
    <3>1. CASE i + 1 \in T
      <4>1. /\ Max(T) = i + 1 /\ T \ {i + 1} \in SUBSET (1 .. i + 1)
            /\ i + 1 \notin T \ {i + 1}
        BY <3>1, MaxOf
      <4>2. u[T \ {i + 1}] = t[T \ {i + 1}]
        BY <4>1
      <4> QED BY <3>1, <4>1, <4>2
    <3>2. CASE i + 1 \notin T
      <4>1. T \in SUBSET (1 .. i)
        BY <3>2
      <4>2. u[T] = t[T]
        BY <3>2
      <4>4. T # {} => /\ T \ {Max(T)} \in SUBSET (1 .. i + 1)
                      /\ i + 1 \notin T \ {Max(T)}
        BY <3>2
      <4>5. T # {} => u[T \ {Max(T)}] = t[T \ {Max(T)}]
        BY <4>4
      <4> QED BY <4>1, <4>2, <4>5, <2>1 DEF Folded
    <3> QED BY <3>1, <3>2
  <2> HIDE DEF u
  <2>3. Folded(b, s, i + 1, u)
    <3>1. u = [T \in SUBSET (1 .. i + 1) |-> u[T]]
      BY DEF u
    <3> QED BY <2>2, <3>1 DEF Folded
  <2> QED BY <2>3
<1> HIDE DEF X
<1>3. n \in 0 .. n
  OBVIOUS
<1>4. n \in X
  BY <1>1, <1>2, <1>3, Induction
<1> QED BY <1>4 DEF X

\* Parse is one turn of the parser for each byte the read has added.
LEMMA ParseTurns ==
    ASSUME NEW b, Len(b) \in Nat, Len(inbuf) \in Nat, Len(inbuf) <= Len(b)
    PROVE  \E turn : /\ turn[Len(inbuf)] = parser
                     /\ \A i \in Len(inbuf) + 1 .. Len(b) :
                            turn[i] = ParseByte(turn[i - 1], b, i)
                     /\ Parse(b) = turn[Len(b)]
<1> DEFINE l == Len(inbuf)
           n == Len(b) - l
           s == [i \in 1 .. n |-> l + i]
           t == CHOOSE t : Folded(b, s, n, t)
<1>1. Parse(b) = t[1 .. n]
  BY DEF Parse, FoldLeft, MapThenFoldSet, Folded
<1>2. n \in Nat
  OBVIOUS
<1> HIDE DEF n, t, s
<1>3. Folded(b, s, n, t)
  BY <1>2, FoldExists DEF t
<1> DEFINE turn == [i \in Nat |-> t[1 .. i - l]]
<1>4. turn[l] = parser
  BY <1>3 DEF Folded
<1>5. ASSUME NEW i \in l + 1 .. Len(b)
      PROVE  turn[i] = ParseByte(turn[i - 1], b, i)
  <2>0. /\ i \in Nat /\ i - 1 \in Nat /\ i - l - 1 \in Nat
        /\ i - l \in 1 .. n /\ l \in Nat
    BY DEF n
  <2>1. /\ 1 .. i - l # {} /\ 1 .. i - l \in SUBSET (1 .. n)
        /\ i \in Nat /\ i - 1 \in Nat /\ i - l - 1 \in Nat
    <3> HIDE DEF l
    <3>1. 1 .. i - l \subseteq 1 .. n
      BY <2>0, <1>2
    <3>2. 1 \in 1 .. i - l
      BY <2>0
    <3> QED BY <2>0, <3>1, <3>2
  <2>2. Max(1 .. i - l) = i - l
    <3> DEFINE k == i - l - 1
    <3>1. k \in Nat /\ i - l = k + 1
      BY <2>1
    <3> HIDE DEF k
    <3>2. Max(1 .. k + 1) = k + 1
      BY <3>1, MaxOf
    <3> QED BY <3>1, <3>2
  <2>3. (1 .. i - l) \ {i - l} = 1 .. (i - 1) - l
    BY <2>1
  <2>4. s[i - l] = i
    <3>1. i - l \in 1 .. n /\ l + (i - l) = i
      BY <2>1
    <3> QED BY <3>1 DEF s
  <2> QED BY <2>1, <2>2, <2>3, <2>4, <1>3 DEF Folded
<1>6. turn[Len(b)] = t[1 .. n]
  BY <1>2 DEF n
<1> QED BY <1>1, <1>4, <1>5, <1>6

-----------------------------------------------------------------------------
(* One turn of the parser.                                                 *)

LEMMA CommandBytes ==
    ASSUME NEW s, NEW q \in Nat, NEW n \in 0 .. MaxCmds, Command(s, q, n)
    PROVE  /\ q + DataLen + 3 <= Len(s)
           /\ s[q].k = "$" /\ s[q + DataLen + 1].k = "#"
           /\ \A i \in 1 .. DataLen : s[q + i].k = "data"
<1>1. PICK m : /\ At(s, q, m) /\ Len(m) = DataLen + 4
               /\ m[1].k = "$" /\ m[DataLen + 2].k = "#"
               /\ \A i \in 2 .. DataLen + 1 : m[i].k = "data"
  <2>0. /\ \A x : Byte("$", x).k = "$" /\ Byte("#", x).k = "#"
        /\ \A x : Byte("data", x).k = "data"
    BY DEF Byte
  <2>1. /\ Len(Packet(n)) = DataLen + 4
        /\ Packet(n)[1].k = "$" /\ Packet(n)[DataLen + 2].k = "#"
        /\ \A i \in 2 .. DataLen + 1 : Packet(n)[i].k = "data"
    BY <2>0, PacketBytes DEF Length
  <2>2. /\ Len(BadPacket(n)) = DataLen + 4
        /\ BadPacket(n)[1].k = "$" /\ BadPacket(n)[DataLen + 2].k = "#"
        /\ \A i \in 2 .. DataLen + 1 : BadPacket(n)[i].k = "data"
    <3>1. \A i \in 2 .. DataLen + 1 : i \in 2 .. DataLen \/ i = DataLen + 1
      BY Numbers
    <3>2. \A i \in 2 .. DataLen + 1 : BadPacket(n)[i].k = "data"
      BY <2>0, <3>1, BadPacketBytes
    <3> QED BY <2>0, <3>2, BadPacketBytes DEF Length
  <2> QED BY <2>1, <2>2 DEF Command
<1>2. q + DataLen + 3 <= Len(s)
  BY <1>1, Numbers DEF At
<1>3. \A i \in 1 .. DataLen + 4 : s[q + i - 1] = m[i]
  BY <1>1 DEF At
<1>4. s[q + 1 - 1] = m[1] /\ s[q + (DataLen + 2) - 1] = m[DataLen + 2]
  BY <1>3, Numbers
<1>5. ASSUME NEW i \in 1 .. DataLen PROVE s[q + i].k = "data"
  <2>1. i + 1 \in 2 .. DataLen + 1 /\ i + 1 \in 1 .. DataLen + 4
        /\ q + (i + 1) - 1 = q + i
    BY Numbers
  <2>2. s[q + (i + 1) - 1] = m[i + 1]
    BY <2>1, <1>3
  <2> QED BY <2>1, <2>2, <1>1
<1>6. q + 1 - 1 = q /\ q + (DataLen + 2) - 1 = q + DataLen + 1
  BY Numbers
<1> QED BY <1>1, <1>2, <1>4, <1>5, <1>6

\* The last byte of the body tells a garbled command from a good one.
LEMMA LastBodyByte ==
    ASSUME NEW s, NEW q \in Nat, NEW n \in 0 .. MaxCmds
    PROVE  /\ At(s, q, BadPacket(n)) => s[q + DataLen] = Byte("data", 0)
           /\ At(s, q, Packet(n)) =>
                  \A i \in 1 .. DataLen : s[q + i] = Byte("data", n)
<1>1. ASSUME At(s, q, BadPacket(n)) PROVE s[q + DataLen] = Byte("data", 0)
  <2>1. s[q + (DataLen + 1) - 1] = BadPacket(n)[DataLen + 1]
    BY <1>1, BadPacketBytes, Numbers DEF At, Length
  <2>2. q + (DataLen + 1) - 1 = q + DataLen
    BY Numbers
  <2> QED BY <2>1, <2>2, BadPacketBytes
<1>2. ASSUME At(s, q, Packet(n)), NEW i \in 1 .. DataLen
      PROVE  s[q + i] = Byte("data", n)
  <2>1. /\ i + 1 \in 1 .. Length /\ i + 1 \in 2 .. DataLen + 1
        /\ q + (i + 1) - 1 = q + i
    BY Numbers DEF Length
  <2>2. s[q + (i + 1) - 1] = Packet(n)[i + 1]
    BY <1>2, <2>1, PacketBytes DEF At
  <2> QED BY <2>1, <2>2, PacketBytes
<1> QED BY <1>1, <1>2

ParserType(j) == [state : ParserStates, first : 0 .. j + 1, last : 0 .. j]

LEMMA TurnType ==
    ASSUME NEW j \in Nat, NEW p \in ParserType(j), NEW b
    PROVE  ParseByte(p, b, j + 1) \in ParserType(j + 1)
<1> DEFINE F == 0 .. j + 2
           L == 0 .. j + 1
           P == [state : ParserStates, first : F, last : L]
<1>0. P = ParserType(j + 1)
  <2>1. (j + 1) + 1 = j + 2
    OBVIOUS
  <2> QED BY <2>1 DEF ParserType
<1>1. p \in P
  <2>1. p \in [state : ParserStates, first : 0 .. j + 1, last : 0 .. j]
    BY DEF ParserType
  <2>2. 0 .. j + 1 \subseteq 0 .. j + 2 /\ 0 .. j \subseteq 0 .. j + 1
    OBVIOUS
  <2> QED BY <2>1, <2>2
<1>f. j + 2 \in F /\ j + 1 \in L
  OBVIOUS
<1> HIDE DEF F, L
<1>2. \A st \in ParserStates : Goto(p, st) \in P
  BY <1>1 DEF Goto
<1>3. \A st \in ParserStates : [p EXCEPT !.state = st, !.first = j + 2] \in P
  BY <1>1, <1>f
<1>4. \A st \in ParserStates : [p EXCEPT !.last = j + 1, !.state = st] \in P
  BY <1>1, <1>f
<1>5. /\ "START" \in ParserStates /\ "SKIP" \in ParserStates
      /\ "ERROR" \in ParserStates /\ "NACK" \in ParserStates
      /\ "CHECKSUM_DIGIT_0" \in ParserStates
      /\ "CHECKSUM_DIGIT_1" \in ParserStates
      /\ "FINISHED" \in ParserStates
  BY DEF ParserStates
<1>6. ParseStart(p, b, j + 1) \in P
  <2>1. (j + 1) + 1 = j + 2
    OBVIOUS
  <2> QED BY <1>2, <1>3, <1>5, <2>1 DEF ParseStart
<1>7. ParseReset(p, b, j + 1) \in P
  BY <1>1, <1>2, <1>5, <1>6 DEF ParseReset
<1> HIDE DEF P
<1>8. ParseByte(p, b, j + 1) \in P
  BY <1>1, <1>2, <1>4, <1>5, <1>6, <1>7 DEF ParseByte
<1> QED BY <1>0, <1>8

\* With acks: from the only + over the packet to the end of it.
LEMMA PlusFacts ==
    ASSUME NEW s \in Seq(Bytes), NEW k, Plus(s, k), sent \in 0 .. MaxCmds
    PROVE  /\ k \in Nat /\ k >= 1 /\ k <= Len(s) /\ Len(s) \in Nat
           /\ got = ran /\ back = <<>>
           /\ k < Len(s) => sent = ran + 1
           /\ sent = ran + 1 =>
                /\ Command(s, k + 1, sent)
                /\ k + 1 \in Nat
                /\ k + Length <= Len(s)
                /\ s[k + 1].k = "$" /\ s[k + 2 + DataLen].k = "#"
                /\ \A i \in k + 2 .. k + 1 + DataLen : s[i].k = "data"
                /\ cmds[sent] # "vCont" => Len(s) = k + Length
<1>1. k \in Nat /\ k >= 1 /\ k <= Len(s) /\ Len(s) \in Nat /\ k + 1 \in Nat
  BY DEF Plus
<1>2. got = ran /\ back = <<>> /\ (k < Len(s) => sent = ran + 1)
  BY <1>1 DEF Plus
<1>3. ASSUME sent = ran + 1
      PROVE  /\ Command(s, k + 1, sent)
             /\ k + Length <= Len(s)
             /\ s[k + 1].k = "$" /\ s[k + 2 + DataLen].k = "#"
             /\ \A i \in k + 2 .. k + 1 + DataLen : s[i].k = "data"
             /\ cmds[sent] # "vCont" => Len(s) = k + Length
  <2>1. ran # sent
    BY <1>3
  <2>2. /\ Command(s, k + 1, sent)
        /\ cmds[sent] # "vCont" => Len(s) = k + Length
    BY <2>1 DEF Plus
  <2>3. /\ (k + 1) + DataLen + 3 <= Len(s)
        /\ s[k + 1].k = "$" /\ s[(k + 1) + DataLen + 1].k = "#"
        /\ \A i \in 1 .. DataLen : s[(k + 1) + i].k = "data"
    <3> DEFINE q == k + 1
    <3>1. q \in Nat /\ Command(s, q, sent)
      BY <1>1, <2>2
    <3> HIDE DEF q
    <3>2. /\ q + DataLen + 3 <= Len(s)
          /\ s[q].k = "$" /\ s[q + DataLen + 1].k = "#"
          /\ \A i \in 1 .. DataLen : s[q + i].k = "data"
      BY <3>1, CommandBytes
    <3> QED BY <3>2 DEF q
  <2>4. \A i \in k + 2 .. k + 1 + DataLen :
            i - (k + 1) \in 1 .. DataLen /\ (k + 1) + (i - (k + 1)) = i
    BY <1>1, Numbers
  <2>5. \A i \in k + 2 .. k + 1 + DataLen : s[i].k = "data"
    BY <2>3, <2>4
  <2>6. /\ (k + 1) + DataLen + 1 = k + 2 + DataLen
        /\ (k + 1) + DataLen + 3 = k + Length
    BY <1>1, Numbers
  <2> QED BY <2>2, <2>3, <2>5, <2>6
<1> QED BY <1>1, <1>2, <1>3

LEMMA AckReset ==
    ASSUME stubAck, NEW s \in Seq(Bytes), NEW j \in Nat, j < Len(s),
           NEW p \in ParserType(j), p.state = "RESET", WithAcks(p, s, j),
           NEW b, b[j + 1] = s[j + 1], sent \in 0 .. MaxCmds
    PROVE  WithAcks(ParseByte(p, b, j + 1), s, j + 1)
<1> DEFINE i == j + 1
<1>1. /\ p = ParserReset
      /\ \/ \E l \in j + 1 .. Len(s) : Plus(s, l)
         \/ Answered(s, j)
         \/ Stuck(s)
  BY DEF WithAcks
<1>2. i \in 1 .. Len(s) /\ i \in Nat
  OBVIOUS
<1>3. ParseByte(p, b, i) = ParseReset(p, b, i)
  BY DEF ParseByte
<1>4. b[i] = s[i]
  OBVIOUS
<1> HIDE DEF i
<1>5. CASE s[i].k = "+"
  <2>1. ParseByte(p, b, i) = Goto(p, "START")
    BY <1>3, <1>4, <1>5 DEF ParseReset
  <2>2. Plus(s, i)
    <3>1. ~Stuck(s)
      BY <1>2, <1>5 DEF Stuck, NoSigns, Signs
    <3>2. ~Answered(s, j)
      BY <1>2, <1>5 DEF Answered, NoSigns, Signs
    <3>3. PICK l \in j + 1 .. Len(s) : Plus(s, l)
      BY <1>1, <3>1, <3>2
    <3>4. l = i
      BY <1>2, <1>5, <3>3 DEF Plus, Signs
    <3> QED BY <3>3, <3>4
  <2>3. Goto(p, "START").state = "START"
    BY <1>1 DEF Goto, ParserReset
  <2>4. WithAcks(Goto(p, "START"), s, i)
    BY <2>2, <2>3 DEF WithAcks
  <2> QED BY <2>1, <2>4 DEF i
<1>6. CASE s[i].k = "-"
  <2>1. ParseByte(p, b, i) = Goto(p, "NACK")
    BY <1>3, <1>4, <1>6 DEF ParseReset
  <2>2. ~Stuck(s)
    BY <1>2, <1>6 DEF Stuck, NoSigns, Signs
  <2>3. ~\E l \in j + 1 .. Len(s) : Plus(s, l)
    BY <1>2, <1>6 DEF Plus, Signs
  <2>4. Answered(s, j)
    BY <1>1, <2>2, <2>3
  <2>5. PICK m \in j + 1 .. Len(s) :
             /\ back = <<>> /\ Owed
             /\ \A x \in 1 .. Len(s) : x # m => s[x].k \notin Signs
    BY <2>4, <1>2, <1>6 DEF Answered, NoSigns, Signs
  <2>6. m = i
    BY <2>5, <1>2, <1>6 DEF Signs
  <2>7. NoSigns(s, i + 1)
    BY <2>5, <2>6, <1>2 DEF NoSigns
  <2>8. Goto(p, "NACK").state = "NACK"
    BY <1>1 DEF Goto, ParserReset
  <2>9. WithAcks(Goto(p, "NACK"), s, i)
    BY <2>5, <2>7, <2>8 DEF WithAcks
  <2> QED BY <2>1, <2>9 DEF i
<1>7. CASE s[i].k \notin Signs
  <2>1. ParseByte(p, b, i) = p
    BY <1>3, <1>4, <1>7 DEF ParseReset, Signs
  <2>2. ASSUME NEW l \in j + 1 .. Len(s), Plus(s, l)
        PROVE  l \in i + 1 .. Len(s)
    <3>1. l # i
      BY <1>7, <2>2 DEF Plus, Signs
    <3> QED BY <3>1 DEF i
  <2>3. Answered(s, j) => Answered(s, i)
    <3>1. ASSUME NEW m \in j + 1 .. Len(s), s[m].k = "-"
          PROVE  m \in i + 1 .. Len(s)
      <4>1. m # i
        BY <1>7, <3>1 DEF Signs
      <4> QED BY <4>1 DEF i
    <3> QED BY <3>1 DEF Answered
  <2>4. WithAcks(p, s, i)
    BY <1>1, <2>2, <2>3 DEF WithAcks
  <2> QED BY <2>1, <2>4 DEF i
<1> QED BY <1>5, <1>6, <1>7 DEF Signs

LEMMA AckStart ==
    ASSUME stubAck, NEW s \in Seq(Bytes), NEW j \in Nat, j < Len(s),
           NEW p \in ParserType(j), p.state = "START", WithAcks(p, s, j),
           NEW b, b[j + 1] = s[j + 1], sent \in 0 .. MaxCmds
    PROVE  WithAcks(ParseByte(p, b, j + 1), s, j + 1)
<1> DEFINE r == [p EXCEPT !.state = "SKIP", !.first = j + 1 + 1]
<1>1. Plus(s, j)
  BY DEF WithAcks
<1>2. s[j + 1].k = "$" /\ sent = ran + 1
  BY <1>1, PlusFacts
<1>3. ParseByte(p, b, j + 1) = r
  BY <1>2 DEF ParseByte, ParseStart
<1>4. r.state = "SKIP" /\ r.first - 2 = j
  BY DEF ParserType
<1> HIDE DEF r
<1>5. j + 1 \in j + 1 .. j + 1 + DataLen
  BY Numbers
<1>6. WithAcks(r, s, j + 1)
  BY <1>1, <1>2, <1>4, <1>5 DEF WithAcks
<1> QED BY <1>3, <1>6

LEMMA AckSkip ==
    ASSUME stubAck, NEW s \in Seq(Bytes), NEW j \in Nat, j < Len(s),
           NEW p \in ParserType(j), p.state = "SKIP", WithAcks(p, s, j),
           NEW b, b[j + 1] = s[j + 1], sent \in 0 .. MaxCmds
    PROVE  WithAcks(ParseByte(p, b, j + 1), s, j + 1)
<1> DEFINE k == p.first - 2
           r == [p EXCEPT !.last = j + 1, !.state = "CHECKSUM_DIGIT_0"]
<1>1. Plus(s, k) /\ sent = ran + 1 /\ j \in k + 1 .. k + 1 + DataLen
  BY DEF WithAcks
<1>r. r.state = "CHECKSUM_DIGIT_0" /\ r.first - 2 = k /\ r.last = j + 1
  BY DEF ParserType
<1> HIDE DEF r
<1>k. k \in Int
  BY DEF ParserType
<1>2. CASE j + 1 \in k + 2 .. k + 1 + DataLen
  <2>1. s[j + 1].k = "data"
    <3> HIDE DEF k
    <3> QED BY <1>1, <1>2, PlusFacts
  <2>2. ParseByte(p, b, j + 1) = p
    BY <2>1 DEF ParseByte
  <2>3. j + 1 \in k + 1 .. k + 1 + DataLen
    BY <1>2, <1>k, Numbers
  <2>4. WithAcks(p, s, j + 1)
    BY <1>1, <2>3 DEF WithAcks
  <2> QED BY <2>2, <2>4
<1>3. CASE j + 1 = k + 2 + DataLen
  <2>1. s[j + 1].k = "#"
    <3> HIDE DEF k
    <3> QED BY <1>1, <1>3, PlusFacts
  <2>2. ParseByte(p, b, j + 1) = r
    BY <2>1 DEF ParseByte, r
  <2>3. WithAcks(r, s, j + 1)
    BY <1>1, <1>r, <1>3 DEF WithAcks
  <2> QED BY <2>2, <2>3
<1>4. j + 1 \in k + 2 .. k + 1 + DataLen \/ j + 1 = k + 2 + DataLen
  <2> HIDE DEF k
  <2> QED BY <1>1, <1>k, Numbers
<1> QED BY <1>2, <1>3, <1>4

LEMMA AckDigit0 ==
    ASSUME stubAck, NEW s \in Seq(Bytes), NEW j \in Nat, j < Len(s),
           NEW p \in ParserType(j), p.state = "CHECKSUM_DIGIT_0",
           WithAcks(p, s, j), NEW b
    PROVE  WithAcks(ParseByte(p, b, j + 1), s, j + 1)
<1> DEFINE r == Goto(p, "CHECKSUM_DIGIT_1")
<1>1. ParseByte(p, b, j + 1) = r
  BY DEF ParseByte
<1>2. r.state = "CHECKSUM_DIGIT_1" /\ r.first = p.first /\ r.last = p.last
  BY DEF Goto, ParserType
<1> HIDE DEF r
<1>3. WithAcks(r, s, j + 1)
  BY <1>2 DEF WithAcks
<1> QED BY <1>1, <1>3

\* A garbled body ends in a byte that is no data of a command.
LEMMA ChecksumTells ==
    ASSUME NEW s \in Seq(Bytes), NEW k \in Nat, sent \in 0 .. MaxCmds,
           Command(s, k + 1, sent), NEW p, NEW i,
           NEW b \in Seq(Bytes), k + 1 + DataLen <= Len(b),
           p.first = k + 2, p.last = k + 2 + DataLen,
           b[k + 1 + DataLen] = s[k + 1 + DataLen],
           ChecksumOK(p, b, i)
    PROVE  At(s, k + 1, Packet(sent))
<1>1. PICK n \in 1 .. MaxCmds : SubSeq(b, k + 2, k + 1 + DataLen) = Data(n)
  <2>1. (k + 2 + DataLen) - 1 = k + 1 + DataLen
    BY Numbers
  <2> QED BY <2>1 DEF ChecksumOK
<1>2. SubSeq(b, k + 2, k + 1 + DataLen)[DataLen] = b[k + 1 + DataLen]
  <2> DEFINE l == k + 2
             m == k + 1 + DataLen
  <2>1. l \in Nat /\ m \in Nat /\ l >= 1 /\ l <= m /\ m <= Len(b)
    BY Numbers
  <2>2. m - l + 1 = DataLen
    BY Numbers
  <2> HIDE DEF l, m
  <2>3. SubSeq(b, l, m)[m - l + 1] = b[m]
    BY <2>1, SubSeqBytes
  <2> QED BY <2>2, <2>3 DEF l, m
<1>3. Data(n)[DataLen] = Byte("data", n)
  BY Numbers DEF Data
<1>4. s[k + 1 + DataLen] = Byte("data", n)
  BY <1>1, <1>2, <1>3
<1>5. Byte("data", n) # Byte("data", 0)
  BY Numbers DEF Byte
<1>6. ~At(s, k + 1, BadPacket(sent))
  BY <1>4, <1>5, LastBodyByte
<1> QED BY <1>6 DEF Command

LEMMA AckDigit1 ==
    ASSUME stubAck, NEW s \in Seq(Bytes), NEW j \in Nat, j < Len(s),
           NEW p \in ParserType(j), p.state = "CHECKSUM_DIGIT_1",
           WithAcks(p, s, j), sent \in 0 .. MaxCmds,
           NEW b \in Seq(Bytes), j + 1 <= Len(b),
           \A i \in 1 .. j + 1 : b[i] = s[i]
    PROVE  WithAcks(ParseByte(p, b, j + 1), s, j + 1)
<1> DEFINE k == p.first - 2
<1>1. /\ Plus(s, k) /\ sent = ran + 1
      /\ p.last = k + 2 + DataLen /\ j = p.last + 1
  BY DEF WithAcks
<1>f. p.first \in Nat
  BY DEF ParserType
<1>k. p.first = k + 2
  BY <1>f
<1> HIDE DEF k
<1>2. /\ k \in Nat /\ k >= 1 /\ Command(s, k + 1, sent)
      /\ got = ran /\ back = <<>>
  BY <1>1, PlusFacts
<1>3. CASE ChecksumOK(p, b, j + 1)
  <2> DEFINE r == Goto(p, "FINISHED")
  <2>1. ParseByte(p, b, j + 1) = r
    BY <1>3 DEF ParseByte
  <2>2. r.state = "FINISHED" /\ r.first = p.first /\ r.last = p.last
    BY DEF Goto, ParserType
  <2> HIDE DEF r
  <2>3. k + 1 + DataLen \in 1 .. j + 1
    BY <1>1, <1>2, Numbers
  <2>4. At(s, k + 1, Packet(sent))
    <3>1. b[k + 1 + DataLen] = s[k + 1 + DataLen] /\ k + 1 + DataLen <= Len(b)
      BY <2>3
    <3> QED BY <1>1, <1>2, <1>3, <1>k, <3>1, ChecksumTells
  <2>5. j + 1 >= r.last + 2 /\ r.first - 2 = k
    BY <1>1, <1>2, <1>k, <2>2, Numbers
  <2>6. WithAcks(r, s, j + 1)
    BY <1>1, <2>2, <2>4, <2>5 DEF WithAcks
  <2> QED BY <2>1, <2>6
<1>4. CASE ~ChecksumOK(p, b, j + 1)
  <2> DEFINE r == Goto(p, "ERROR")
  <2>1. ParseByte(p, b, j + 1) = r
    BY <1>4 DEF ParseByte
  <2>2. r.state = "ERROR"
    BY DEF Goto, ParserType
  <2> HIDE DEF r
  <2>3. NoSigns(s, j + 1 + 1)
    <3>1. \A i \in j + 1 + 1 .. Len(s) : i \in 1 .. Len(s) /\ i # k
      BY <1>1, <1>2, Numbers
    <3> QED BY <1>1, <3>1 DEF Plus, NoSigns
  <2>4. WithAcks(r, s, j + 1)
    BY <1>1, <1>2, <2>2, <2>3 DEF WithAcks
  <2> QED BY <2>1, <2>4
<1> QED BY <1>3, <1>4

LEMMA AckDone ==
    ASSUME stubAck, NEW s \in Seq(Bytes), NEW j \in Nat, j < Len(s),
           NEW p \in ParserType(j), p.state \in Done, WithAcks(p, s, j), NEW b
    PROVE  WithAcks(ParseByte(p, b, j + 1), s, j + 1)
<1>1. ParseByte(p, b, j + 1) = p
  BY DEF ParseByte, Done
<1>2. NoSigns(s, j + 1) => NoSigns(s, j + 1 + 1)
  BY DEF NoSigns
<1>3. p.last \in Nat /\ (j >= p.last + 2 => j + 1 >= p.last + 2)
  BY DEF ParserType
<1>4. WithAcks(p, s, j + 1)
  BY <1>2, <1>3 DEF WithAcks, Done
<1> QED BY <1>1, <1>4

LEMMA AckTurn ==
    ASSUME stubAck, NEW s \in Seq(Bytes), NEW j \in Nat, j < Len(s),
           NEW p \in ParserType(j), WithAcks(p, s, j), sent \in 0 .. MaxCmds,
           NEW b \in Seq(Bytes), j + 1 <= Len(b),
           \A i \in 1 .. j + 1 : b[i] = s[i]
    PROVE  WithAcks(ParseByte(p, b, j + 1), s, j + 1)
<1>1. b[j + 1] = s[j + 1]
  OBVIOUS
<1>2. p.state \in ParserStates
  BY DEF ParserType
<1> QED BY <1>1, <1>2, AckReset, AckStart, AckSkip, AckDigit0, AckDigit1,
           AckDone DEF ParserStates, Done

\* Without acks: the packet from its first byte, or after a late +.
LEMMA BareFacts ==
    ASSUME NEW s \in Seq(Bytes), NEW k, Bare(s, k), sent \in 0 .. MaxCmds
    PROVE  /\ k \in Nat /\ k <= Len(s) /\ Len(s) \in Nat
           /\ got = ran /\ back = <<>>
           /\ k < Len(s) => sent = ran + 1
           /\ sent = ran + 1 =>
                /\ At(s, k + 1, Packet(sent))
                /\ Len(s) = k + Length
                /\ s[k + 1].k = "$" /\ s[k + 2 + DataLen].k = "#"
                /\ \A i \in k + 2 .. k + 1 + DataLen : s[i].k = "data"
<1>1. k \in Nat /\ k <= Len(s) /\ Len(s) \in Nat
  BY DEF Bare
<1>2. got = ran /\ back = <<>> /\ (k < Len(s) => sent = ran + 1)
  BY <1>1 DEF Bare
<1>3. ASSUME sent = ran + 1
      PROVE  /\ At(s, k + 1, Packet(sent))
             /\ Len(s) = k + Length
             /\ s[k + 1].k = "$" /\ s[k + 2 + DataLen].k = "#"
             /\ \A i \in k + 2 .. k + 1 + DataLen : s[i].k = "data"
  <2> DEFINE q == k + 1
  <2>1. ran # sent
    BY <1>3
  <2>2. q \in Nat /\ At(s, q, Packet(sent)) /\ Len(s) = k + Length
    BY <1>1, <2>1 DEF Bare
  <2> HIDE DEF q
  <2>3. /\ s[q].k = "$" /\ s[q + DataLen + 1].k = "#"
        /\ \A i \in 1 .. DataLen : s[q + i].k = "data"
    BY <2>2, CommandBytes DEF Command
  <2>4. \A i \in k + 2 .. k + 1 + DataLen :
            i - q \in 1 .. DataLen /\ q + (i - q) = i
    BY <1>1, Numbers DEF q
  <2>5. \A i \in k + 2 .. k + 1 + DataLen : s[i].k = "data"
    BY <2>3, <2>4
  <2>6. q + DataLen + 1 = k + 2 + DataLen
    BY <1>1, Numbers DEF q
  <2> QED BY <2>2, <2>3, <2>5, <2>6 DEF q
<1> QED BY <1>1, <1>2, <1>3

LEMMA BareStart ==
    ASSUME NEW s \in Seq(Bytes), NEW j \in Nat, j < Len(s),
           NEW p \in ParserType(j), Bare(s, j),
           NEW b, b[j + 1] = s[j + 1], sent \in 0 .. MaxCmds
    PROVE  /\ b[j + 1].k = "$"
           /\ WithoutAcks(ParseStart(p, b, j + 1), s, j + 1)
<1> DEFINE r == [p EXCEPT !.state = "SKIP", !.first = j + 1 + 1]
<1>1. s[j + 1].k = "$" /\ sent = ran + 1
  BY BareFacts
<1>2. ParseStart(p, b, j + 1) = r
  BY <1>1 DEF ParseStart
<1>3. r.state = "SKIP" /\ r.first - 2 = j
  BY DEF ParserType
<1> HIDE DEF r
<1>4. j + 1 \in j + 1 .. j + 1 + DataLen
  BY Numbers
<1>5. WithoutAcks(r, s, j + 1)
  BY <1>1, <1>3, <1>4 DEF WithoutAcks
<1> QED BY <1>1, <1>2, <1>5

LEMMA BareReset ==
    ASSUME ~stubAck, NEW s \in Seq(Bytes), NEW j \in Nat, j < Len(s),
           NEW p \in ParserType(j), p.state = "RESET", WithoutAcks(p, s, j),
           NEW b, b[j + 1] = s[j + 1], sent \in 0 .. MaxCmds
    PROVE  WithoutAcks(ParseByte(p, b, j + 1), s, j + 1)
<1>1. /\ p = ParserReset /\ j = 0
      /\ Bare(s, 0) \/ Bare(s, 1)
  BY DEF WithoutAcks
<1>2. ParseByte(p, b, j + 1) = ParseReset(p, b, j + 1)
  BY DEF ParseByte
<1>3. CASE Bare(s, 0)
  <2>1. b[j + 1].k = "$" /\ WithoutAcks(ParseStart(p, b, j + 1), s, j + 1)
    BY <1>1, <1>3, BareStart
  <2>2. ParseReset(p, b, j + 1) = ParseStart(p, b, j + 1)
    BY <2>1 DEF ParseReset
  <2> QED BY <1>2, <2>1, <2>2
<1>4. CASE Bare(s, 1)
  <2> DEFINE r == Goto(p, "START")
  <2>1. b[j + 1].k = "+"
    BY <1>1, <1>4 DEF Bare
  <2>2. ParseReset(p, b, j + 1) = r
    BY <2>1 DEF ParseReset
  <2>3. r.state = "START"
    BY <1>1 DEF Goto, ParserReset
  <2> HIDE DEF r
  <2>4. WithoutAcks(r, s, j + 1)
    BY <1>1, <1>4, <2>3 DEF WithoutAcks
  <2> QED BY <1>2, <2>2, <2>4
<1> QED BY <1>1, <1>3, <1>4

LEMMA BareSkip ==
    ASSUME ~stubAck, NEW s \in Seq(Bytes), NEW j \in Nat, j < Len(s),
           NEW p \in ParserType(j), p.state = "SKIP", WithoutAcks(p, s, j),
           NEW b, b[j + 1] = s[j + 1], sent \in 0 .. MaxCmds
    PROVE  WithoutAcks(ParseByte(p, b, j + 1), s, j + 1)
<1> DEFINE k == p.first - 2
           r == [p EXCEPT !.last = j + 1, !.state = "FINISHED"]
<1>1. Bare(s, k) /\ sent = ran + 1 /\ j \in k + 1 .. k + 1 + DataLen
  BY DEF WithoutAcks
<1>r. r.state = "FINISHED" /\ r.first - 2 = k /\ r.last = j + 1
  BY DEF ParserType
<1> HIDE DEF r
<1>k. k \in Int
  BY DEF ParserType
<1>2. CASE j + 1 \in k + 2 .. k + 1 + DataLen
  <2>1. s[j + 1].k = "data"
    <3> HIDE DEF k
    <3> QED BY <1>1, <1>2, BareFacts
  <2>2. ParseByte(p, b, j + 1) = p
    BY <2>1 DEF ParseByte
  <2>3. j + 1 \in k + 1 .. k + 1 + DataLen
    BY <1>2, <1>k, Numbers
  <2>4. WithoutAcks(p, s, j + 1)
    BY <1>1, <2>3 DEF WithoutAcks
  <2> QED BY <2>2, <2>4
<1>3. CASE j + 1 = k + 2 + DataLen
  <2>1. s[j + 1].k = "#"
    <3> HIDE DEF k
    <3> QED BY <1>1, <1>3, BareFacts
  <2>2. ParseByte(p, b, j + 1) = r
    BY <2>1 DEF ParseByte, r
  <2>3. WithoutAcks(r, s, j + 1)
    BY <1>1, <1>r, <1>3 DEF WithoutAcks
  <2> QED BY <2>2, <2>3
<1>4. j + 1 \in k + 2 .. k + 1 + DataLen \/ j + 1 = k + 2 + DataLen
  <2> HIDE DEF k
  <2> QED BY <1>1, <1>k, Numbers
<1> QED BY <1>2, <1>3, <1>4

LEMMA BareTurn ==
    ASSUME ~stubAck, NEW s \in Seq(Bytes), NEW j \in Nat, j < Len(s),
           NEW p \in ParserType(j), WithoutAcks(p, s, j),
           NEW b, b[j + 1] = s[j + 1], sent \in 0 .. MaxCmds
    PROVE  WithoutAcks(ParseByte(p, b, j + 1), s, j + 1)
<1>1. CASE p.state = "RESET"
  BY <1>1, BareReset
<1>2. CASE p.state = "START"
  <2>1. j = 1 /\ Bare(s, j)
    BY <1>2 DEF WithoutAcks
  <2>2. ParseByte(p, b, j + 1) = ParseStart(p, b, j + 1)
    BY <1>2 DEF ParseByte
  <2> QED BY <2>1, <2>2, BareStart
<1>3. CASE p.state = "SKIP"
  BY <1>3, BareSkip
<1>4. CASE p.state = "FINISHED"
  <2>1. ParseByte(p, b, j + 1) = p
    BY <1>4 DEF ParseByte
  <2>2. p.last \in Nat /\ (j >= p.last => j + 1 >= p.last)
    BY DEF ParserType
  <2>3. WithoutAcks(p, s, j + 1)
    BY <1>4, <2>2 DEF WithoutAcks
  <2> QED BY <2>1, <2>3
<1> QED BY <1>1, <1>2, <1>3, <1>4 DEF WithoutAcks

\* What the parser makes of the bytes of one read, by induction over them.
Kept(p, s, j) == /\ p \in ParserType(j)
                 /\ IF stubAck THEN WithAcks(p, s, j) ELSE WithoutAcks(p, s, j)

LEMMA ParseKeeps ==
    ASSUME NEW s \in Seq(Bytes), NEW b \in Seq(Bytes), inbuf \in Seq(Bytes),
           Len(inbuf) <= Len(b), Len(b) <= Len(s),
           \A i \in 1 .. Len(b) : b[i] = s[i],
           sent \in 0 .. MaxCmds, Kept(parser, s, Len(inbuf))
    PROVE  Kept(Parse(b), s, Len(b))
<1> DEFINE l == Len(inbuf)
           n == Len(b) - l
<1>1. l \in Nat /\ Len(b) \in Nat /\ n \in Nat
  OBVIOUS
<1>2. PICK turn : /\ turn[l] = parser
                  /\ \A i \in l + 1 .. Len(b) :
                         turn[i] = ParseByte(turn[i - 1], b, i)
                  /\ Parse(b) = turn[Len(b)]
  BY <1>1, ParseTurns
<1> DEFINE X == {i \in Nat : Kept(turn[l + i], s, l + i)}
<1>3. 0 \in X
  BY <1>1, <1>2
<1>4. ASSUME NEW i \in Nat, i < n, i \in X PROVE i + 1 \in X
  <2> DEFINE j == l + i
  <2>1. j \in Nat /\ j < Len(s) /\ j + 1 \in l + 1 .. Len(b) /\ j + 1 <= Len(b)
    BY <1>1, <1>4
  <2>2. turn[j + 1] = ParseByte(turn[j], b, j + 1)
    BY <1>2, <2>1, (j + 1) - 1 = j
  <2>3. Kept(turn[j], s, j)
    BY <1>4
  <2>4. \A x \in 1 .. j + 1 : b[x] = s[x]
    BY <2>1
  <2>j. l + (i + 1) = j + 1 /\ j + 1 \in 1 .. j + 1
    BY <1>1, <2>1
  <2> HIDE DEF j
  <2>5. ParseByte(turn[j], b, j + 1) \in ParserType(j + 1)
    BY <2>1, <2>3, TurnType DEF Kept
  <2>6. CASE stubAck
    BY <2>1, <2>2, <2>3, <2>4, <2>5, <2>6, <2>j, AckTurn DEF Kept
  <2>7. CASE ~stubAck
    BY <2>1, <2>2, <2>3, <2>4, <2>5, <2>7, <2>j, BareTurn DEF Kept
  <2> QED BY <2>6, <2>7
<1> HIDE DEF X
<1>5. n \in X
  <2> HIDE DEF n
  <2>1. \A i \in 0 .. n : i \in X
    BY <1>1, <1>3, <1>4, Induction
  <2> QED BY <1>1, <2>1
<1> QED BY <1>1, <1>2, <1>5, l + n = Len(b) DEF X

-----------------------------------------------------------------------------
(* The steps of the stub.                                                  *)

LEMMA StreamIs ==
    ASSUME inbuf \in Seq(Bytes), wire \in Seq(Bytes)
    PROVE  /\ Stream \in Seq(Bytes) /\ Len(Stream) \in Nat
           /\ Len(inbuf) \in Nat /\ Len(wire) \in Nat
           /\ Len(Stream) = Len(inbuf) + Len(wire)
           /\ \A i \in 1 .. Len(inbuf) : Stream[i] = inbuf[i]
           /\ \A i \in 1 .. Len(wire) : Stream[Len(inbuf) + i] = wire[i]
BY Concat DEF Stream

\* A read moves bytes within the stream.
LEMMA ReadKeeps ==
    ASSUME inbuf \in Seq(Bytes), wire \in Seq(Bytes),
           NEW n \in Nat, n <= Len(wire), ReadBytes(n)
    PROVE  /\ Stream' = Stream
           /\ inbuf' \in Seq(Bytes) /\ wire' \in Seq(Bytes)
           /\ Len(inbuf') = Len(inbuf) + n /\ Len(inbuf') <= Len(Stream)
           /\ \A i \in 1 .. Len(inbuf') : inbuf'[i] = Stream[i]
           /\ n = Len(wire) => wire' = <<>>
<1> DEFINE f == SubSeq(wire, 1, n)
           r == SubSeq(wire, n + 1, Len(wire))
<1>1. wire' = r /\ inbuf' = inbuf \o f
  BY DEF ReadBytes
<1>2. /\ f \in Seq(Bytes) /\ Len(f) = n
      /\ \A i \in 1 .. n : f[i] = wire[i]
  BY SubSeqBytes
<1>3. /\ r \in Seq(Bytes) /\ Len(r) = Len(wire) - n
      /\ \A i \in 1 .. Len(wire) - n : r[i] = wire[n + i]
  BY SubSeqBytes
<1>4. f \o r = wire
  <2> HIDE DEF f, r
  <2>1. /\ f \o r \in Seq(Bytes) /\ Len(f \o r) = Len(f) + Len(r)
        /\ \A i \in 1 .. Len(f) : (f \o r)[i] = f[i]
        /\ \A i \in 1 .. Len(r) : (f \o r)[Len(f) + i] = r[i]
    BY <1>2, <1>3, Concat
  <2>2. Len(f \o r) = Len(wire)
    BY <2>1, <1>2, <1>3
  <2>3. ASSUME NEW i \in 1 .. Len(f \o r) PROVE (f \o r)[i] = wire[i]
    <3>1. CASE i <= n
      BY <3>1, <1>2, <2>1
    <3>2. CASE ~(i <= n)
      <4>1. i - n \in 1 .. Len(wire) - n /\ n + (i - n) = i
        BY <2>2, <3>2
      <4> DEFINE x == i - n
      <4>2. (f \o r)[Len(f) + x] = r[x] /\ r[x] = wire[n + x]
        <5>1. x \in 1 .. Len(r)
          BY <4>1, <1>3
        <5> HIDE DEF x
        <5> QED BY <5>1, <1>3, <2>1
      <4> QED BY <4>1, <4>2, <1>2
    <3> QED BY <3>1, <3>2
  <2> QED BY <2>1, <2>2, <2>3, SameSeq
<1>5. n = Len(wire) => r = <<>>
  BY <1>3
<1> HIDE DEF f, r
<1>6. (inbuf \o f) \o r = inbuf \o (f \o r)
  BY <1>2, <1>3
<1>7. Stream' = Stream
  BY <1>1, <1>4, <1>6 DEF Stream
<1>8. inbuf' \in Seq(Bytes) /\ Len(inbuf') = Len(inbuf) + Len(f)
  BY <1>1, <1>2, Concat
<1>9. wire' \in Seq(Bytes)
  BY <1>1, <1>3
<1>10. /\ Len(Stream') = Len(inbuf') + Len(wire') /\ Len(wire') \in Nat
       /\ \A i \in 1 .. Len(inbuf') : Stream'[i] = inbuf'[i]
  <2>1. Stream' = inbuf' \o wire'
    BY DEF Stream
  <2> DEFINE a == inbuf'
             c == wire'
  <2>2. a \in Seq(Bytes) /\ c \in Seq(Bytes)
    BY <1>8, <1>9
  <2> HIDE DEF a, c
  <2>3. /\ Len(a \o c) = Len(a) + Len(c) /\ Len(c) \in Nat
        /\ \A i \in 1 .. Len(a) : (a \o c)[i] = a[i]
    BY <2>2, Concat
  <2> QED BY <2>1, <2>3 DEF a, c
<1> QED BY <1>1, <1>2, <1>5, <1>7, <1>8, <1>9, <1>10

LEMMA StubReadKeeps == ASSUME Inv, Calm, StubRead PROVE Inv'
<1>t. /\ inbuf \in Seq(Bytes) /\ wire \in Seq(Bytes) /\ sent \in 0 .. MaxCmds
      /\ parser \in ParserType(Len(inbuf))
  BY DEF Inv, TypeOK, ParserType
<1>1. PICK n \in Nat : /\ n <= Len(wire) /\ ReadBytes(n)
                       /\ ~stubAck => n = Len(wire)
  BY <1>t DEF StubRead, Amounts, Calm
<1>2. /\ main = "read" /\ parser' = Parse(inbuf')
      /\ UNCHANGED <<back, out, stubAck, main, running, ran, gdbVars>>
  BY DEF StubRead
<1>3. Kept(parser, Stream, Len(inbuf))
  BY <1>t, <1>2 DEF Inv, Place, Kept
<1>4. /\ Stream' = Stream
      /\ inbuf' \in Seq(Bytes) /\ wire' \in Seq(Bytes)
      /\ Len(inbuf') = Len(inbuf) + n /\ Len(inbuf') <= Len(Stream)
      /\ \A i \in 1 .. Len(inbuf') : inbuf'[i] = Stream[i]
      /\ n = Len(wire) => wire' = <<>>
  BY <1>t, <1>1, ReadKeeps
<1>5. Kept(parser', Stream, Len(inbuf'))
  <2>1. Len(inbuf) <= Len(inbuf') /\ Stream \in Seq(Bytes)
    BY <1>t, <1>4, StreamIs
  <2> QED BY <1>t, <1>2, <1>3, <1>4, <2>1, ParseKeeps
<1>6. TypeOK'
  BY <1>2, <1>4, <1>5 DEF Inv, TypeOK, Kept, ParserType, gdbVars, sent
<1>7. Place'
  <2>1. CASE stubAck
    <3>1. WithAcks(parser, Stream, Len(inbuf))'
      BY <1>2, <1>4, <1>5, <2>1
         DEF Kept, WithAcks, Plus, Answered, Owed, Stuck, gdbVars, sent
    <3> QED BY <1>2, <2>1, <3>1 DEF Place
  <2>2. CASE ~stubAck
    <3>1. WithoutAcks(parser, Stream, Len(inbuf))'
      BY <1>2, <1>4, <1>5, <2>2
         DEF Kept, WithoutAcks, Bare, gdbVars, sent
    <3> QED BY <1>1, <1>2, <1>4, <2>2, <3>1 DEF Place
  <2> QED BY <2>1, <2>2
<1> QED BY <1>2, <1>6, <1>7 DEF Inv, gdbVars

\* A reset drops the buffer: the stream is what was not read yet.
LEMMA ResetStream ==
    ASSUME inbuf \in Seq(Bytes), wire \in Seq(Bytes), ResetInput, wire' = wire
    PROVE  /\ Stream' = wire /\ Len(inbuf') = 0 /\ inbuf' \in Seq(Bytes)
           /\ parser' = ParserReset
           /\ parser' \in [state : ParserStates, first : 0 .. Len(inbuf') + 1,
                           last : 0 .. Len(inbuf')]
           /\ \A l \in 1 .. Len(inbuf) + 1 :
                  NoSigns(Stream, l) => NoSigns(wire, 1)
<1>1. inbuf' = <<>> /\ parser' = ParserReset
  BY DEF ResetInput
<1>2. Stream' = wire
  <2>1. <<>> \o wire = wire
    OBVIOUS
  <2> QED BY <1>1, <2>1 DEF Stream
<1>3. parser' \in [state : ParserStates, first : 0 .. Len(inbuf') + 1,
                   last : 0 .. Len(inbuf')]
  <2>1. Len(inbuf') = 0
    BY <1>1
  <2>2. 0 \in 0 .. 0 + 1 /\ 0 \in 0 .. 0 /\ "RESET" \in ParserStates
    BY DEF ParserStates
  <2> QED BY <1>1, <2>1, <2>2 DEF ParserReset
<1>4. ASSUME NEW l \in 1 .. Len(inbuf) + 1, NoSigns(Stream, l)
      PROVE  NoSigns(wire, 1)
  <2> DEFINE n == Len(inbuf)
             m == Len(wire)
  <2>1. /\ n \in Nat /\ m \in Nat /\ Len(Stream) = n + m
        /\ \A i \in 1 .. m : Stream[n + i] = wire[i]
    BY StreamIs
  <2>2. ASSUME NEW i \in 1 .. m PROVE wire[i].k \notin Signs
    <3> HIDE DEF n, m
    <3>1. n + i \in l .. n + m
      BY <2>1, <1>4 DEF n
    <3>2. Stream[n + i].k \notin Signs
      BY <1>4, <2>1, <3>1 DEF NoSigns
    <3> QED BY <2>1, <3>2
  <2> QED BY <2>2 DEF NoSigns
<1> QED BY <1>1, <1>2, <1>3, <1>4

LEMMA TypeFacts ==
    ASSUME Inv
    PROVE  /\ inbuf \in Seq(Bytes) /\ wire \in Seq(Bytes)
           /\ back \in Seq(Messages) /\ cmds \in Seq(Kinds)
           /\ sent \in 0 .. MaxCmds /\ sent \in Nat
           /\ ran \in 0 .. MaxCmds /\ ran \in Nat
           /\ got \in 0 .. sent /\ got \in Nat
           /\ out \in Messages
           /\ Stream \in Seq(Bytes) /\ Len(Stream) \in Nat
           /\ Len(inbuf) \in Nat
           /\ parser \in ParserType(Len(inbuf))
           /\ stubAck => gdbAck
           /\ stubAck \in BOOLEAN /\ gdbAck \in BOOLEAN
           /\ main \in {"read", "wait"}
<1>1. /\ inbuf \in Seq(Bytes) /\ wire \in Seq(Bytes)
      /\ back \in Seq(Messages) /\ cmds \in Seq(Kinds)
      /\ sent \in 0 .. MaxCmds
      /\ ran \in 0 .. MaxCmds
      /\ got \in 0 .. sent
      /\ out \in Messages
      /\ parser \in ParserType(Len(inbuf))
      /\ stubAck => gdbAck
      /\ stubAck \in BOOLEAN /\ gdbAck \in BOOLEAN
      /\ main \in {"read", "wait"}
  BY DEF Inv, TypeOK, ParserType
<1> QED BY <1>1, StreamIs

\* A packet parsed to its end lies whole in the buffer.
LEMMA FinishedIs ==
    ASSUME Inv, parser.state = "FINISHED", NEW k, k = parser.first - 2
    PROVE  /\ k \in Nat /\ parser.first = k + 2
           /\ parser.last = k + 2 + DataLen /\ parser.last <= Len(inbuf)
           /\ stubAck => parser.last + 2 <= Len(inbuf)
           /\ At(Stream, k + 1, Packet(sent))
           /\ main = "read" => /\ sent = ran + 1 /\ got = ran /\ back = <<>>
                               /\ IF stubAck THEN Plus(Stream, k)
                                  ELSE Bare(Stream, k) /\ wire = <<>>
           /\ main = "wait" => ran = sent /\ got = ran - 1 /\ back = <<>>
                               /\ cmds[sent] = "vCont"
<1>t. /\ Stream \in Seq(Bytes) /\ Len(inbuf) \in Nat /\ sent \in 0 .. MaxCmds
      /\ parser.first \in Nat /\ main \in {"read", "wait"}
      /\ parser.last \in Nat
  BY TypeFacts DEF ParserType
<1>1. CASE main = "wait"
  <2>1. Waiting(Stream, Len(inbuf))
    BY <1>1 DEF Inv, Place
  <2>2. /\ k \in Nat /\ parser.last = k + 2 + DataLen
        /\ At(Stream, k + 1, Packet(sent))
        /\ ran = sent /\ got = ran - 1 /\ cmds[sent] = "vCont"
        /\ back = <<>>
        /\ IF stubAck THEN Len(inbuf) >= parser.last + 2
           ELSE Len(inbuf) >= parser.last
    BY <2>1 DEF Waiting
  <2> QED BY <1>t, <1>1, <2>2
<1>2. CASE main = "read" /\ stubAck
  <2>1. WithAcks(parser, Stream, Len(inbuf))
    BY <1>2 DEF Inv, Place
  <2>2. /\ Plus(Stream, k) /\ sent = ran + 1
        /\ parser.last = k + 2 + DataLen /\ Len(inbuf) >= parser.last + 2
        /\ At(Stream, k + 1, Packet(sent))
    BY <2>1 DEF WithAcks
  <2>3. k \in Nat /\ got = ran /\ back = <<>>
    BY <1>t, <2>2, PlusFacts
  <2> QED BY <1>t, <1>2, <2>2, <2>3
<1>3. CASE main = "read" /\ ~stubAck
  <2>1. WithoutAcks(parser, Stream, Len(inbuf)) /\ wire = <<>>
    BY <1>3 DEF Inv, Place
  <2>2. /\ Bare(Stream, k) /\ sent = ran + 1
        /\ parser.last = k + 2 + DataLen /\ Len(inbuf) >= parser.last
    BY <2>1 DEF WithoutAcks
  <2>3. /\ k \in Nat /\ got = ran /\ back = <<>>
        /\ At(Stream, k + 1, Packet(sent))
    BY <1>t, <2>2, BareFacts
  <2> QED BY <1>t, <1>3, <2>1, <2>2, <2>3
<1> QED BY <1>t, <1>1, <1>2, <1>3

\* Its body is that of the command GDB has sent last.
LEMMA BodyIs ==
    ASSUME Inv, parser.state = "FINISHED"
    PROVE  /\ SubSeq(inbuf, parser.first, parser.last - 1) = Data(sent)
           /\ Parsed = sent
<1> DEFINE k == parser.first - 2
<1>1. /\ k \in Nat /\ parser.first = k + 2
      /\ parser.last = k + 2 + DataLen /\ parser.last <= Len(inbuf)
      /\ At(Stream, k + 1, Packet(sent))
  BY FinishedIs
<1> HIDE DEF k
<1>t. inbuf \in Seq(Bytes) /\ wire \in Seq(Bytes) /\ sent \in 0 .. MaxCmds
  BY TypeFacts
<1>2. \A i \in 1 .. DataLen : Stream[k + 1 + i] = Byte("data", sent)
  <2> DEFINE q == k + 1
  <2>1. q \in Nat /\ At(Stream, q, Packet(sent))
    BY <1>1
  <2> HIDE DEF q
  <2>2. \A i \in 1 .. DataLen : Stream[q + i] = Byte("data", sent)
    BY <1>t, <2>1, LastBodyByte
  <2> QED BY <2>2 DEF q
<1>3. \A i \in 1 .. DataLen : k + 1 + i \in 1 .. Len(inbuf)
  BY <1>t, <1>1, Numbers
<1>4. \A i \in 1 .. DataLen : inbuf[k + 1 + i] = Byte("data", sent)
  BY <1>t, <1>2, <1>3, StreamIs
<1>5. SubSeq(inbuf, parser.first, parser.last - 1) = Data(sent)
  <2> DEFINE l == k + 2
             m == k + 1 + DataLen
             u == SubSeq(inbuf, l, m)
  <2>1. /\ l \in Nat /\ m \in Nat /\ l >= 1 /\ l <= m + 1 /\ m <= Len(inbuf)
        /\ m - l + 1 = DataLen /\ parser.first = l /\ parser.last - 1 = m
        /\ \A i \in 1 .. DataLen : l + i - 1 = k + 1 + i
    BY <1>t, <1>1, Numbers
  <2> HIDE DEF l, m
  <2>2. /\ u \in Seq(Bytes) /\ Len(u) = m - l + 1
        /\ \A i \in 1 .. m - l + 1 : u[i] = inbuf[l + i - 1]
    BY <1>t, <2>1, SubSeqBytes
  <2> HIDE DEF u
  <2>3. \A i \in 1 .. DataLen : u[i] = Byte("data", sent)
    BY <2>1, <2>2, <1>4
  <2>4. Data(sent) \in Seq(Bytes) /\ Len(Data(sent)) = DataLen
        /\ \A i \in 1 .. DataLen : Data(sent)[i] = Byte("data", sent)
    BY <1>t, Numbers DEF Data, Bytes, Byte
  <2>5. u = Data(sent)
    BY <2>1, <2>2, <2>3, <2>4, SameSeq
  <2> QED BY <2>1, <2>5 DEF u
<1>6. Parsed = sent
  <2>1. 1 \in 1 .. DataLen /\ k + 1 + 1 = parser.first
    BY <1>1, Numbers
  <2>2. inbuf[parser.first] = Byte("data", sent)
    BY <1>4, <2>1
  <2> QED BY <2>2 DEF Parsed, Byte
<1> QED BY <1>5, <1>6

\* Nothing depends on whether the cores run.
LEMMA CoresHaltKeeps ==
    ASSUME Inv, CoresHalt \/ UNCHANGED pkVars PROVE Inv'
<1>1. /\ UNCHANGED <<wire, back, stubVars, gdbVars>>
      /\ running' = FALSE \/ running' = running
  BY DEF CoresHalt, pkVars
<1>2. UNCHANGED <<wire, back, inbuf, parser, out, stubAck, main, ran, cmds,
                  got, gdbAck, interrupted, repeats, naks, garbled>>
  BY <1>1 DEF stubVars, gdbVars
<1>3. TypeOK'
  BY <1>1, <1>2 DEF Inv, TypeOK, sent
<1>4. Stream' = Stream /\ sent' = sent
  BY <1>2 DEF Stream, sent
<1>5. Waiting(Stream, Len(inbuf)) => Waiting(Stream, Len(inbuf))'
  BY <1>2, <1>4 DEF Waiting
<1>6. WithAcks(parser, Stream, Len(inbuf)) =>
          WithAcks(parser, Stream, Len(inbuf))'
  BY <1>2, <1>4 DEF WithAcks, Plus, Answered, Owed, Stuck
<1>7. WithoutAcks(parser, Stream, Len(inbuf)) =>
          WithoutAcks(parser, Stream, Len(inbuf))'
  BY <1>2, <1>4 DEF WithoutAcks, Bare
<1>8. Place'
  BY <1>2, <1>5, <1>6, <1>7 DEF Inv, Place
<1> QED BY <1>2, <1>3, <1>8 DEF Inv

LEMMA SendNakKeeps == ASSUME Inv, SendNak PROVE Inv'
<1>1. /\ main = "read" /\ parser.state = "ERROR" /\ ResetInput
      /\ out' = Message("nak", 0) /\ back' = Append(back, Message("nak", 0))
      /\ UNCHANGED <<wire, stubAck, main, running, ran, cmds, got, gdbAck,
                     interrupted, repeats, naks, garbled>>
  BY DEF SendNak, Send, gdbVars
<1>t. inbuf \in Seq(Bytes) /\ wire \in Seq(Bytes) /\ back \in Seq(Messages)
      /\ Len(inbuf) \in Nat
  BY TypeFacts
<1>2. /\ Stream' = wire /\ Len(inbuf') = 0 /\ inbuf' \in Seq(Bytes)
      /\ parser' = ParserReset
      /\ parser' \in [state : ParserStates, first : 0 .. Len(inbuf') + 1,
                      last : 0 .. Len(inbuf')]
      /\ NoSigns(Stream, Len(inbuf) + 1) => NoSigns(wire, 1)
  BY <1>1, <1>t, ResetStream
<1>3. stubAck /\ WithAcks(parser, Stream, Len(inbuf))
  BY <1>1 DEF Inv, Place, WithoutAcks
<1>4. /\ got = ran /\ sent = ran + 1
      /\ back = <<>> /\ NoSigns(Stream, Len(inbuf) + 1)
  BY <1>1, <1>3 DEF WithAcks
<1>5. Message("nak", 0) \in Messages
  BY Numbers DEF Message, Messages
<1>6. back' = <<Message("nak", 0)>> /\ back' \in Seq(Messages)
  BY <1>1, <1>4, <1>5
<1>7. TypeOK'
  BY <1>1, <1>2, <1>5, <1>6 DEF Inv, TypeOK, sent
<1>8. Place'
  <2>1. Stuck(wire)'
    BY <1>1, <1>2, <1>4, <1>6 DEF Stuck, NoSigns, sent
  <2>2. WithAcks(parser, wire, 0)'
    BY <1>1, <1>2, <2>1 DEF WithAcks, ParserReset
  <2> QED BY <1>1, <1>2, <1>3, <2>2 DEF Place
<1> QED BY <1>1, <1>3, <1>7, <1>8 DEF Inv

LEMMA ResendKeeps == ASSUME Inv, Resend PROVE Inv'
<1>1. /\ main = "read" /\ parser.state = "NACK" /\ ResetInput
      /\ out' = out /\ back' = Append(back, out)
      /\ UNCHANGED <<wire, stubAck, main, running, ran, cmds, got, gdbAck,
                     interrupted, repeats, naks, garbled>>
  BY DEF Resend, Send, gdbVars
<1>t. inbuf \in Seq(Bytes) /\ wire \in Seq(Bytes) /\ out \in Messages
      /\ Len(inbuf) \in Nat
  BY TypeFacts
<1>2. /\ Stream' = wire /\ Len(inbuf') = 0 /\ inbuf' \in Seq(Bytes)
      /\ parser' = ParserReset
      /\ parser' \in [state : ParserStates, first : 0 .. Len(inbuf') + 1,
                      last : 0 .. Len(inbuf')]
      /\ NoSigns(Stream, Len(inbuf) + 1) => NoSigns(wire, 1)
  BY <1>1, <1>t, ResetStream
<1>3. stubAck /\ WithAcks(parser, Stream, Len(inbuf))
  BY <1>1 DEF Inv, Place, WithoutAcks
<1>4. Owed /\ back = <<>> /\ NoSigns(Stream, Len(inbuf) + 1)
  BY <1>1, <1>3 DEF WithAcks
<1>6. back' = <<out'>> /\ back' \in Seq(Messages)
  BY <1>1, <1>4, <1>t
<1>7. TypeOK'
  BY <1>1, <1>2, <1>6 DEF Inv, TypeOK, sent
<1>8. Place'
  <2>1. Answered(wire, 0)'
    BY <1>1, <1>2, <1>4, <1>6 DEF Answered, Owed, NoSigns, sent
  <2>2. WithAcks(parser, wire, 0)'
    BY <1>1, <1>2, <2>1 DEF WithAcks, ParserReset
  <2> QED BY <1>1, <1>2, <1>3, <2>2 DEF Place
<1> QED BY <1>1, <1>3, <1>7, <1>8 DEF Inv

LEMMA BuildRespKeeps == ASSUME Inv, BuildResp PROVE Inv'
<1> DEFINE k == parser.first - 2
           m == Message("answer", sent)
<1>1. /\ main = "read" /\ parser.state = "FINISHED" /\ ResetInput
      /\ cmds[sent] # "vCont" /\ ran' = ran + 1
      /\ stubAck' = (stubAck /\ cmds[sent] # "noAck")
      /\ out' = m /\ back' = Append(back, m)
      /\ UNCHANGED <<wire, main, running, cmds, got, gdbAck,
                     interrupted, repeats, naks, garbled>>
  BY BodyIs DEF BuildResp, Answer, Send, gdbVars
<1>t. /\ inbuf \in Seq(Bytes) /\ wire \in Seq(Bytes) /\ sent \in 0 .. MaxCmds
      /\ Len(inbuf) \in Nat /\ got \in Nat /\ Stream \in Seq(Bytes)
      /\ stubAck \in BOOLEAN /\ ran \in Nat /\ sent \in Nat
      /\ stubAck => gdbAck
  BY TypeFacts
<1>2. /\ Stream' = wire /\ Len(inbuf') = 0 /\ inbuf' \in Seq(Bytes)
      /\ parser' = ParserReset
      /\ parser' \in [state : ParserStates, first : 0 .. Len(inbuf') + 1,
                      last : 0 .. Len(inbuf')]
      /\ \A l \in 1 .. Len(inbuf) + 1 : NoSigns(Stream, l) => NoSigns(wire, 1)
  BY <1>1, <1>t, ResetStream
<1>3. /\ k \in Nat /\ parser.last = k + 2 + DataLen
      /\ parser.last <= Len(inbuf)
      /\ stubAck => parser.last + 2 <= Len(inbuf)
      /\ sent = ran + 1 /\ got = ran /\ back = <<>>
      /\ IF stubAck THEN Plus(Stream, k) ELSE Bare(Stream, k) /\ wire = <<>>
  BY <1>1, FinishedIs
<1>5. m \in Messages
  BY <1>t DEF Message, Messages
<1> HIDE DEF k, m
<1>6. back' = <<m>> /\ back' \in Seq(Messages)
  BY <1>1, <1>3, <1>5
<1>7. TypeOK'
  BY <1>t, <1>1, <1>2, <1>3, <1>5, <1>6 DEF Inv, TypeOK, sent
<1>8. sent' = sent /\ ran' = sent' /\ got' = ran' - 1
  BY <1>t, <1>1, <1>3 DEF sent
<1>9. CASE stubAck /\ cmds[sent] # "noAck"
  <2>1. NoSigns(wire, 1)
    <3>1. \A i \in k + 1 .. Len(Stream) : i \in 1 .. Len(Stream) /\ i # k
      BY <1>3
    <3>2. NoSigns(Stream, k + 1)
      BY <1>3, <1>9, <3>1 DEF Plus, NoSigns
    <3>3. k + 1 \in 1 .. Len(inbuf) + 1
      BY <1>t, <1>3, Numbers
    <3> QED BY <1>2, <3>2, <3>3
  <2>2. Answered(wire, 0)'
    BY <1>1, <1>6, <1>8, <1>9, <2>1 DEF Answered, Owed, NoSigns, m
  <2>3. WithAcks(parser, wire, 0)'
    BY <1>1, <1>2, <2>2 DEF WithAcks, ParserReset
  <2> QED BY <1>1, <1>2, <1>7, <1>9, <1>t, <2>3 DEF Place, Inv
<1>10. CASE ~(stubAck /\ cmds[sent] # "noAck")
  <2>1. wire = <<>>
    <3>1. CASE stubAck
      <4>1. Len(Stream) = k + Length
        BY <1>t, <1>1, <1>3, <3>1, PlusFacts
      <4>2. Len(Stream) = Len(inbuf) + Len(wire) /\ Len(wire) \in Nat
        BY <1>t, StreamIs
      <4>3. Len(inbuf) >= k + Length
        BY <1>t, <1>3, <3>1, Numbers
      <4>4. Len(wire) = 0
        BY <4>1, <4>2, <4>3, <1>t, <1>3, Numbers
      <4> QED BY <1>t, <4>4
    <3> QED BY <1>3, <3>1
  <2>2. gdbAck => cmds[sent] = "noAck"
    <3>1. CASE stubAck
      BY <1>10, <3>1
    <3>2. CASE ~stubAck
      BY <1>3, <3>2 DEF Bare
    <3> QED BY <3>1, <3>2
  <2>3. WithoutAcks(parser, wire, 0)'
    BY <1>1, <1>2, <1>6, <1>8, <2>1, <2>2 DEF WithoutAcks, ParserReset, m
  <2> QED BY <1>1, <1>2, <1>7, <1>10, <2>3 DEF Place, Inv, ParserReset
<1> QED BY <1>9, <1>10

LEMMA BuildVContKeeps == ASSUME Inv, BuildVCont PROVE Inv'
<1> DEFINE k == parser.first - 2
<1>1. /\ main = "read" /\ parser.state = "FINISHED"
      /\ cmds[sent] = "vCont" /\ ran' = ran + 1 /\ main' = "wait"
      /\ running' = TRUE /\ out' = Message("none", 0)
      /\ UNCHANGED <<wire, back, inbuf, parser, stubAck, cmds, got, gdbAck,
                     interrupted, repeats, naks, garbled>>
  BY BodyIs DEF BuildVCont, gdbVars
<1>t. /\ inbuf \in Seq(Bytes) /\ wire \in Seq(Bytes) /\ sent \in 0 .. MaxCmds
      /\ Len(inbuf) \in Nat /\ got \in Nat /\ Stream \in Seq(Bytes)
      /\ ran \in Nat /\ sent \in Nat
      /\ stubAck => gdbAck
  BY TypeFacts
<1>3. /\ k \in Nat /\ parser.last = k + 2 + DataLen
      /\ parser.last <= Len(inbuf)
      /\ stubAck => parser.last + 2 <= Len(inbuf)
      /\ At(Stream, k + 1, Packet(sent))
      /\ sent = ran + 1 /\ got = ran /\ back = <<>>
      /\ IF stubAck THEN Plus(Stream, k) ELSE Bare(Stream, k) /\ wire = <<>>
  BY <1>1, FinishedIs
<1> HIDE DEF k
<1>5. out' \in Messages
  BY <1>1, Numbers DEF Message, Messages
<1>6. sent' = sent /\ ran' = sent /\ got' = ran' - 1 /\ Stream' = Stream
  BY <1>t, <1>1, <1>3 DEF sent, Stream
<1>7. TypeOK'
  BY <1>t, <1>1, <1>3, <1>5, <1>6 DEF Inv, TypeOK, sent
<1>8. stubAck => NoSigns(Stream, k + 1)
  <2>1. \A i \in k + 1 .. Len(Stream) : i \in 1 .. Len(Stream) /\ i # k
    BY <1>3
  <2> QED BY <1>3, <2>1 DEF Plus, NoSigns
<1>9. ~stubAck => wire = <<>> /\ ~gdbAck
  BY <1>3 DEF Bare
<1>10. IF stubAck THEN Len(inbuf) >= parser.last + 2 /\ NoSigns(Stream, k + 1)
       ELSE Len(inbuf) >= parser.last /\ wire = <<>> /\ ~gdbAck
  BY <1>t, <1>3, <1>8, <1>9, Numbers
<1>11. Waiting(Stream, Len(inbuf))'
  BY <1>1, <1>3, <1>6, <1>10 DEF Waiting, k
<1> QED BY <1>1, <1>7, <1>11, <1>t DEF Place, Inv

LEMMA WaitingIs ==
    ASSUME Inv, main = "wait", NEW k, k = parser.first - 2
    PROVE  /\ parser.state = "FINISHED" /\ k \in Nat
           /\ parser.last = k + 2 + DataLen
           /\ At(Stream, k + 1, Packet(sent))
           /\ ran = sent /\ got = ran - 1 /\ cmds[sent] = "vCont"
           /\ back = <<>>
           /\ IF stubAck
              THEN Len(inbuf) >= parser.last + 2 /\ NoSigns(Stream, k + 1)
              ELSE Len(inbuf) >= parser.last /\ wire = <<>> /\ ~gdbAck
BY DEF Inv, Place, Waiting

LEMMA WaitReadKeeps == ASSUME Inv, WaitRead PROVE Inv'
<1> DEFINE k == parser.first - 2
<1>1. PICK n \in Nat : n >= 1 /\ n <= Len(wire) /\ ReadBytes(n)
  BY DEF WaitRead, Amounts
<1>2. /\ main = "wait"
      /\ UNCHANGED <<back, parser, out, stubAck, main, running, ran, cmds, got,
                     gdbAck, interrupted, repeats, naks, garbled>>
  BY DEF WaitRead, gdbVars
<1>t. /\ inbuf \in Seq(Bytes) /\ wire \in Seq(Bytes) /\ Len(inbuf) \in Nat
      /\ parser \in ParserType(Len(inbuf)) /\ (stubAck => gdbAck)
  BY TypeFacts
<1>3. /\ parser.state = "FINISHED" /\ k \in Nat
      /\ parser.last = k + 2 + DataLen
      /\ At(Stream, k + 1, Packet(sent))
      /\ ran = sent /\ got = ran - 1 /\ cmds[sent] = "vCont"
      /\ back = <<>>
      /\ IF stubAck
         THEN Len(inbuf) >= parser.last + 2 /\ NoSigns(Stream, k + 1)
         ELSE Len(inbuf) >= parser.last /\ wire = <<>> /\ ~gdbAck
  BY <1>2, WaitingIs
<1>4. stubAck
  BY <1>1, <1>3
<1>5. /\ Stream' = Stream
      /\ inbuf' \in Seq(Bytes) /\ wire' \in Seq(Bytes)
      /\ Len(inbuf') = Len(inbuf) + n
  BY <1>t, <1>1, ReadKeeps
<1> HIDE DEF k
<1>6. parser.last \in Nat /\ parser.first \in Nat
  BY <1>t DEF ParserType
<1>7. parser' \in ParserType(Len(inbuf'))
  <2>1. /\ 0 .. Len(inbuf) \subseteq 0 .. Len(inbuf')
        /\ 0 .. Len(inbuf) + 1 \subseteq 0 .. Len(inbuf') + 1
    BY <1>1, <1>5, <1>t
  <2> QED BY <2>1, <1>t, <1>2 DEF ParserType
<1>8. TypeOK'
  BY <1>2, <1>5, <1>7 DEF Inv, TypeOK, ParserType, sent
<1>9. Len(inbuf') >= parser.last + 2
  BY <1>1, <1>3, <1>4, <1>5, <1>6, <1>t
<1>10. Waiting(Stream, Len(inbuf))'
  BY <1>2, <1>3, <1>4, <1>5, <1>9 DEF Waiting, sent, k
<1> QED BY <1>2, <1>4, <1>t, <1>8, <1>10 DEF Inv, Place

LEMMA WaitEndsKeeps == ASSUME Inv, WaitEnds PROVE Inv'
<1> DEFINE k == parser.first - 2
           m == Message("answer", sent)
<1>0. main = "wait"
  BY DEF WaitEnds
<1>3. /\ parser.state = "FINISHED" /\ k \in Nat
      /\ parser.last = k + 2 + DataLen
      /\ ran = sent /\ got = ran - 1 /\ cmds[sent] = "vCont"
      /\ back = <<>>
      /\ IF stubAck
         THEN Len(inbuf) >= parser.last + 2 /\ NoSigns(Stream, k + 1)
         ELSE Len(inbuf) >= parser.last /\ wire = <<>> /\ ~gdbAck
  BY <1>0, WaitingIs
<1>1. /\ main' = "read" /\ running' = FALSE /\ ResetInput
      /\ out' = m /\ back' = Append(back, m)
      /\ UNCHANGED <<wire, stubAck, ran, cmds, got, gdbAck,
                     interrupted, repeats, naks, garbled>>
  BY <1>3, BodyIs DEF WaitEnds, Answer, Send, gdbVars
<1>t. /\ inbuf \in Seq(Bytes) /\ wire \in Seq(Bytes) /\ sent \in 0 .. MaxCmds
      /\ Len(inbuf) \in Nat /\ (stubAck => gdbAck)
  BY TypeFacts
<1>2. /\ Stream' = wire /\ Len(inbuf') = 0 /\ inbuf' \in Seq(Bytes)
      /\ parser' = ParserReset
      /\ parser' \in [state : ParserStates, first : 0 .. Len(inbuf') + 1,
                      last : 0 .. Len(inbuf')]
      /\ \A l \in 1 .. Len(inbuf) + 1 : NoSigns(Stream, l) => NoSigns(wire, 1)
  BY <1>1, <1>t, ResetStream
<1>5. m \in Messages
  BY <1>t DEF Message, Messages
<1> HIDE DEF k, m
<1>6. back' = <<m>> /\ back' \in Seq(Messages)
  BY <1>1, <1>3, <1>5
<1>7. TypeOK'
  BY <1>t, <1>1, <1>2, <1>3, <1>5, <1>6 DEF Inv, TypeOK, sent
<1>8. sent' = sent /\ ran' = sent' /\ got' = ran' - 1
  BY <1>t, <1>1, <1>3 DEF sent
<1>9. CASE stubAck
  <2>1. NoSigns(wire, 1)
    <3>1. k + 1 \in 1 .. Len(inbuf) + 1
      BY <1>t, <1>3, <1>9, Numbers
    <3> QED BY <1>2, <1>3, <1>9, <3>1
  <2>2. Answered(wire, 0)'
    BY <1>1, <1>3, <1>6, <1>8, <2>1 DEF Answered, Owed, NoSigns, m
  <2>3. WithAcks(parser, wire, 0)'
    BY <1>1, <1>2, <2>2 DEF WithAcks, ParserReset
  <2> QED BY <1>1, <1>2, <1>7, <1>9, <1>t, <2>3 DEF Place, Inv
<1>10. CASE ~stubAck
  <2>1. wire = <<>> /\ ~gdbAck
    BY <1>3, <1>10
  <2>2. WithoutAcks(parser, wire, 0)'
    BY <1>1, <1>2, <1>6, <1>8, <2>1 DEF WithoutAcks, ParserReset, m
  <2> QED BY <1>1, <1>2, <1>7, <1>10, <2>2 DEF Place, Inv, ParserReset
<1> QED BY <1>9, <1>10

-----------------------------------------------------------------------------
(* The steps of GDB.                                                       *)

\* What GDB writes is appended to the stream.
LEMMA Appended ==
    ASSUME NEW s \in Seq(Bytes), NEW x \in Seq(Bytes), NEW t, t = s \o x
    PROVE  /\ t \in Seq(Bytes) /\ Len(t) = Len(s) + Len(x)
           /\ Len(s) \in Nat /\ Len(x) \in Nat
           /\ \A i \in 1 .. Len(s) : t[i] = s[i]
           /\ \A i \in 1 .. Len(x) : t[Len(s) + i] = x[i]
           /\ \A l \in Nat \ {0} :
                  NoSigns(s, l) /\ NoSigns(x, 1) => NoSigns(t, l)
           /\ \A q \in Nat \ {0}, n \in 0 .. MaxCmds :
                  /\ At(s, q, Packet(n)) => At(t, q, Packet(n))
                  /\ At(s, q, BadPacket(n)) => At(t, q, BadPacket(n))
<1>1. /\ t \in Seq(Bytes) /\ Len(t) = Len(s) + Len(x)
      /\ Len(s) \in Nat /\ Len(x) \in Nat
      /\ \A i \in 1 .. Len(s) : t[i] = s[i]
      /\ \A i \in 1 .. Len(x) : t[Len(s) + i] = x[i]
  BY Concat
<1>2. ASSUME NEW l \in Nat \ {0}, NoSigns(s, l), NoSigns(x, 1)
      PROVE  NoSigns(t, l)
  <2>1. ASSUME NEW i \in l .. Len(t) PROVE t[i].k \notin Signs
    <3>1. CASE i <= Len(s)
      BY <1>1, <1>2, <3>1 DEF NoSigns
    <3>2. CASE ~(i <= Len(s))
      <4> DEFINE y == i - Len(s)
      <4>1. y \in 1 .. Len(x) /\ Len(s) + y = i
        BY <1>1, <3>2
      <4> HIDE DEF y
      <4> QED BY <4>1, <1>1, <1>2 DEF NoSigns
    <3> QED BY <3>1, <3>2
  <2> QED BY <2>1 DEF NoSigns
<1>3. ASSUME NEW q \in Nat \ {0}, NEW m, Len(m) \in Nat, At(s, q, m)
      PROVE  At(t, q, m)
  <2>1. q + Len(m) - 1 <= Len(t)
    BY <1>1, <1>3 DEF At
  <2>2. ASSUME NEW i \in 1 .. Len(m) PROVE t[q + i - 1] = m[i]
    <3>1. q + i - 1 \in 1 .. Len(s)
      BY <1>1, <1>3 DEF At
    <3> QED BY <3>1, <1>1, <1>3 DEF At
  <2> QED BY <2>1, <2>2 DEF At
<1>4. \A n \in 0 .. MaxCmds :
          Len(Packet(n)) \in Nat /\ Len(BadPacket(n)) \in Nat
  BY PacketBytes, BadPacketBytes, Numbers
<1> QED BY <1>1, <1>2, <1>3, <1>4

\* While a vCont runs bytes without a sign may follow its packet, unread.
LEMMA JunkFollows ==
    ASSUME stubAck, NEW s \in Seq(Bytes), NEW j \in Nat, j <= Len(s),
           NEW p \in ParserType(j), WithAcks(p, s, j), sent \in 0 .. MaxCmds,
           NEW x \in Seq(Bytes), NoSigns(x, 1),
           got < sent, got \in Nat, ran \in Nat, cmds[sent] = "vCont"
    PROVE  WithAcks(p, s \o x, j)
<1> DEFINE t == s \o x
<1>1. /\ t \in Seq(Bytes) /\ Len(t) = Len(s) + Len(x)
      /\ Len(s) \in Nat /\ Len(x) \in Nat
      /\ \A i \in 1 .. Len(s) : t[i] = s[i]
      /\ \A l \in Nat \ {0} : NoSigns(s, l) => NoSigns(t, l)
      /\ \A q \in Nat \ {0}, n \in 0 .. MaxCmds :
             /\ At(s, q, Packet(n)) => At(t, q, Packet(n))
             /\ At(s, q, BadPacket(n)) => At(t, q, BadPacket(n))
  BY Appended
<1>x. \A i \in 1 .. Len(t) : i \notin 1 .. Len(s) => t[i].k \notin Signs
  <2>1. \A i \in 1 .. Len(x) : t[Len(s) + i] = x[i]
    BY Appended
  <2>2. ASSUME NEW i \in 1 .. Len(t), i \notin 1 .. Len(s)
        PROVE  t[i].k \notin Signs
    <3> DEFINE y == i - Len(s)
    <3>1. y \in 1 .. Len(x) /\ Len(s) + y = i
      BY <1>1, <2>2
    <3> HIDE DEF y, t
    <3> QED BY <2>1, <3>1 DEF NoSigns
  <2> QED BY <2>2
<1> HIDE DEF t
<1>2. ASSUME NEW l, Plus(s, l) PROVE Plus(t, l)
  <2>1. /\ l \in Nat /\ l >= 1 /\ l <= Len(s) /\ got = ran /\ back = <<>>
    BY <1>2, PlusFacts
  <2>2. sent = ran + 1 /\ Command(s, l + 1, sent)
    BY <1>2, <2>1 DEF Plus
  <2>3. Command(t, l + 1, sent)
    <3>1. l + 1 \in Nat \ {0}
      BY <2>1
    <3> QED BY <2>2, <1>1, <3>1 DEF Command
  <2>4. l \in 1 .. Len(t) /\ t[l].k = "+"
    BY <1>1, <1>2 DEF Plus
  <2>5. \A i \in 1 .. Len(t) : i # l => t[i].k \notin Signs
    BY <1>1, <1>2, <1>x DEF Plus
  <2> QED BY <2>1, <2>2, <2>3, <2>4, <2>5 DEF Plus
<1>3. Answered(s, j) => Answered(t, j)
  <2>1. ASSUME NEW m \in j + 1 .. Len(s),
               s[m].k = "-",
               \A i \in 1 .. Len(s) : i # m => s[i].k \notin Signs
        PROVE  /\ m \in j + 1 .. Len(t) /\ t[m].k = "-"
               /\ \A i \in 1 .. Len(t) : i # m => t[i].k \notin Signs
    <3>1. m \in 1 .. Len(s) /\ m \in j + 1 .. Len(t) /\ t[m] = s[m]
      BY <1>1
    <3>2. ASSUME NEW i \in 1 .. Len(t), i # m PROVE t[i].k \notin Signs
      BY <1>1, <1>x, <2>1, <3>2
    <3> QED BY <2>1, <3>1, <3>2
  <2>2. NoSigns(s, 1) => NoSigns(t, 1)
    BY <1>1
  <2> QED BY <2>1, <2>2 DEF Answered
<1>4. Stuck(s) => Stuck(t)
  BY <1>1 DEF Stuck
<1>5. NoSigns(s, j + 1) => NoSigns(t, j + 1)
  BY <1>1
<1>6. ASSUME NEW l, Plus(s, l), At(s, l + 1, Packet(sent))
      PROVE  At(t, l + 1, Packet(sent))
  <2>1. l + 1 \in Nat \ {0}
    BY <1>6, PlusFacts
  <2> QED BY <1>1, <1>6, <2>1
<1>7. \A l \in j + 1 .. Len(s) : l \in j + 1 .. Len(t)
  BY <1>1
<1>8. ASSUME p.state = "RESET" PROVE WithAcks(p, t, j)
  <2>1. /\ p = ParserReset
        /\ \/ \E l \in j + 1 .. Len(s) : Plus(s, l)
           \/ Answered(s, j)
           \/ Stuck(s)
    BY <1>8 DEF WithAcks
  <2>2. \/ \E l \in j + 1 .. Len(t) : Plus(t, l)
        \/ Answered(t, j)
        \/ Stuck(t)
    BY <1>2, <1>3, <1>4, <1>7, <2>1
  <2> QED BY <1>8, <2>1, <2>2 DEF WithAcks
<1>9. ASSUME p.state \in {"SKIP", "CHECKSUM_DIGIT_0", "CHECKSUM_DIGIT_1",
                         "FINISHED"}
      PROVE  WithAcks(p, t, j)
  <2> DEFINE k == p.first - 2
  <2>1. Plus(s, k) /\ (p.state = "FINISHED" => At(s, k + 1, Packet(sent)))
    BY <1>9 DEF WithAcks
  <2>2. Plus(t, k) /\ (p.state = "FINISHED" => At(t, k + 1, Packet(sent)))
    <3> HIDE DEF k
    <3> QED BY <2>1, <1>2, <1>6
  <2> QED BY <1>9, <2>2 DEF WithAcks
<1>10. ASSUME p.state \in {"START", "NACK", "ERROR"}
       PROVE  WithAcks(p, t, j)
  <2>1. \/ p.state = "START" /\ Plus(s, j)
        \/ p.state # "START" /\ NoSigns(s, j + 1)
    BY <1>10 DEF WithAcks
  <2>2. \/ p.state = "START" /\ Plus(t, j)
        \/ p.state # "START" /\ NoSigns(t, j + 1)
    BY <2>1, <1>2, <1>5
  <2> QED BY <1>10, <2>2 DEF WithAcks
<1>11. p.state \in ParserStates
  BY DEF ParserType
<1> QED BY <1>8, <1>9, <1>10, <1>11 DEF t, ParserStates

LEMMA JunkKeeps ==
    ASSUME Inv, NEW x \in Seq(Bytes), NoSigns(x, 1), wire' = wire \o x,
           UNCHANGED <<stubVars, cmds, got, gdbAck>>,
           back' = back, gdbAck, got < sent, cmds[sent] = "vCont"
    PROVE  /\ wire' \in Seq(Bytes) /\ stubAck /\ gdbAck' /\ Place'
<1> DEFINE k == parser.first - 2
<1>t. /\ inbuf \in Seq(Bytes) /\ wire \in Seq(Bytes) /\ Len(inbuf) \in Nat
      /\ parser \in ParserType(Len(inbuf)) /\ sent \in 0 .. MaxCmds
      /\ Stream \in Seq(Bytes) /\ got \in Nat /\ ran \in Nat
      /\ main \in {"read", "wait"}
  BY TypeFacts
<1>u. UNCHANGED <<inbuf, parser, out, stubAck, main, ran, cmds, got, gdbAck>>
  BY DEF stubVars
<1>1. wire' \in Seq(Bytes) /\ Stream' = Stream \o x
  <2>1. (inbuf \o wire) \o x = inbuf \o (wire \o x)
    BY <1>t
  <2>2. wire \o x \in Seq(Bytes)
    BY <1>t, Concat
  <2> QED BY <1>u, <2>1, <2>2 DEF Stream
<1>2. CASE main = "wait"
  <2>1. /\ parser.state = "FINISHED" /\ k \in Nat
        /\ parser.last = k + 2 + DataLen
        /\ At(Stream, k + 1, Packet(sent))
        /\ ran = sent /\ got = ran - 1 /\ cmds[sent] = "vCont"
        /\ back = <<>>
        /\ stubAck /\ Len(inbuf) >= parser.last + 2 /\ NoSigns(Stream, k + 1)
    BY <1>2, WaitingIs
  <2>2. At(Stream', k + 1, Packet(sent)) /\ NoSigns(Stream', k + 1)
    <3> HIDE DEF k
    <3> DEFINE q == k + 1
    <3>1. q \in Nat \ {0}
      BY <2>1
    <3> HIDE DEF q
    <3>2. /\ At(Stream, q, Packet(sent)) => At(Stream \o x, q, Packet(sent))
          /\ NoSigns(Stream, q) => NoSigns(Stream \o x, q)
      BY <3>1, <1>t, Appended
    <3> QED BY <3>2, <2>1, <1>1 DEF q
  <2>3. Waiting(Stream, Len(inbuf))'
    BY <1>u, <2>1, <2>2 DEF Waiting, sent
  <2> QED BY <1>2, <1>u, <1>1, <2>1, <2>3 DEF Place
<1>3. CASE main = "read"
  <2>1. stubAck
    BY <1>3 DEF Inv, Place, WithoutAcks, Bare
  <2>2. WithAcks(parser, Stream, Len(inbuf)) /\ Len(inbuf) <= Len(Stream)
    <3>1. Len(inbuf) <= Len(Stream)
      BY <1>t, StreamIs
    <3> QED BY <1>3, <2>1, <3>1 DEF Inv, Place
  <2>3. WithAcks(parser, Stream \o x, Len(inbuf))
    BY <1>t, <2>1, <2>2, JunkFollows
  <2>4. WithAcks(parser, Stream, Len(inbuf))'
    BY <1>u, <1>1, <2>3
       DEF WithAcks, Plus, Answered, Owed, Stuck, sent
  <2> QED BY <1>3, <1>u, <1>1, <2>1, <2>4 DEF Place
<1> QED BY <1>t, <1>2, <1>3

\* What GDB writes has no signs except the + and the - themselves.
LEMMA PacketNoSigns ==
    ASSUME NEW n \in 0 .. MaxCmds
    PROVE  NoSigns(Packet(n), 1) /\ NoSigns(BadPacket(n), 1)
<1>0. /\ \A y, z : Byte(y, z).k = y
      /\ "$" \notin Signs /\ "data" \notin Signs /\ "#" \notin Signs
      /\ "digit0" \notin Signs /\ "digit1" \notin Signs
  BY DEF Byte, Signs
<1>1. \A i \in 1 .. Length : \/ i = 1 \/ i \in 2 .. DataLen \/ i = DataLen + 1
                             \/ i = DataLen + 2 \/ i = DataLen + 3
                             \/ i = DataLen + 4
  BY Numbers
<1>4. ASSUME NEW i \in 1 .. Length PROVE Packet(n)[i].k \notin Signs
  <2>1. \/ i = 1 \/ i \in 2 .. DataLen + 1
        \/ i = DataLen + 2 \/ i = DataLen + 3 \/ i = DataLen + 4
    BY Numbers
  <2> QED BY <1>0, <2>1, PacketBytes
<1>5. \A i \in 1 .. Length : BadPacket(n)[i].k \notin Signs
  BY <1>0, <1>1, BadPacketBytes
<1> QED BY <1>4, <1>5, PacketBytes, BadPacketBytes DEF NoSigns

LEMMA GdbTimesOutKeeps == ASSUME Inv, GdbTimesOut PROVE Inv'
<1>t. sent \in 0 .. MaxCmds /\ repeats \in 0 .. MaxRepeats
  BY DEF Inv, TypeOK
<1>1. /\ gdbAck /\ got < sent /\ cmds[sent] = "vCont"
      /\ wire' = wire \o Packet(sent)
      /\ repeats < MaxRepeats /\ repeats' = repeats + 1
      /\ UNCHANGED <<back, running, stubVars, cmds, got, gdbAck, interrupted,
                     naks, garbled>>
  BY DEF GdbTimesOut, Write
<1>2. Packet(sent) \in Seq(Bytes) /\ NoSigns(Packet(sent), 1)
  BY <1>t, PacketBytes, PacketNoSigns
<1>3. wire' \in Seq(Bytes) /\ stubAck /\ gdbAck' /\ Place'
  BY <1>1, <1>2, JunkKeeps
<1>4. repeats' \in 0 .. MaxRepeats
  BY <1>t, <1>1, PacketsAssumption
<1>5. TypeOK'
  BY <1>1, <1>3, <1>4 DEF Inv, TypeOK, stubVars, sent
<1> QED BY <1>3, <1>5 DEF Inv

LEMMA GdbInterruptsKeeps == ASSUME Inv, Calm, GdbInterrupts PROVE Inv'
<1>t. stubAck => gdbAck
  BY TypeFacts
<1> DEFINE x == <<Byte("^C", 0)>>
<1>1. /\ got < sent /\ cmds[sent] = "vCont" /\ gdbAck
      /\ wire' = wire \o x
      /\ interrupted' = TRUE
      /\ UNCHANGED <<back, running, stubVars, cmds, got, gdbAck, repeats, naks,
                     garbled>>
  BY <1>t DEF GdbInterrupts, Write, Calm
<1>2. x \in Seq(Bytes) /\ NoSigns(x, 1)
  BY Numbers DEF Byte, Bytes, NoSigns, Signs
<1> HIDE DEF x
<1>3. wire' \in Seq(Bytes) /\ stubAck /\ gdbAck' /\ Place'
  BY <1>1, <1>2, JunkKeeps
<1>5. TypeOK'
  BY <1>1, <1>3 DEF Inv, TypeOK, stubVars, sent
<1> QED BY <1>3, <1>5 DEF Inv

\* A message GDB has not read yet is the answer that is owed, or the - of a
\* command it has to repeat.
LEMMA BackIs ==
    ASSUME Inv, back # <<>>
    PROVE  /\ main = "read" /\ parser = ParserReset
           /\ \/ /\ stubAck /\ Owed /\ back = <<out>> /\ NoSigns(Stream, 1)
              \/ /\ stubAck /\ Stuck(Stream) /\ back = <<Message("nak", 0)>>
              \/ /\ ~stubAck /\ Stream = <<>> /\ got = ran - 1 /\ ran = sent
                 /\ back = <<Message("answer", ran)>>
                 /\ gdbAck => cmds[sent] = "noAck"
<1>t. /\ Stream \in Seq(Bytes) /\ sent \in 0 .. MaxCmds
      /\ main \in {"read", "wait"}
      /\ parser \in ParserType(Len(inbuf))
  BY TypeFacts
<1>1. main = "read"
  BY <1>t, WaitingIs
<1>p. \A k : ~Plus(Stream, k) /\ ~Bare(Stream, k)
  BY <1>t, PlusFacts, BareFacts
<1>2. CASE stubAck
  <2>1. WithAcks(parser, Stream, Len(inbuf))
    BY <1>1, <1>2 DEF Inv, Place
  <2>2. parser.state = "RESET"
    BY <1>p, <2>1 DEF WithAcks
  <2>3. parser = ParserReset /\ (Answered(Stream, Len(inbuf)) \/ Stuck(Stream))
    BY <1>p, <2>1, <2>2 DEF WithAcks
  <2> QED BY <1>1, <1>2, <2>3 DEF Answered, Stuck
<1>3. CASE ~stubAck
  <2>1. WithoutAcks(parser, Stream, Len(inbuf))
    BY <1>1, <1>3 DEF Inv, Place
  <2>2. parser.state = "RESET"
    BY <1>p, <2>1 DEF WithoutAcks
  <2>3. /\ parser = ParserReset /\ Stream = <<>> /\ got = ran - 1 /\ ran = sent
        /\ back = <<Message("answer", ran)>>
        /\ gdbAck => cmds[sent] = "noAck"
    BY <1>p, <2>1, <2>2 DEF WithoutAcks
  <2> QED BY <1>1, <1>3, <2>3
<1> QED BY <1>2, <1>3

LEMMA GdbRepeatsKeeps == ASSUME Inv, GdbRepeats PROVE Inv'
<1>t. /\ sent \in 0 .. MaxCmds /\ repeats \in 0 .. MaxRepeats
      /\ wire \in Seq(Bytes) /\ inbuf \in Seq(Bytes) /\ Stream \in Seq(Bytes)
      /\ stubAck => gdbAck
  BY TypeFacts DEF Inv, TypeOK
<1>1. /\ back # <<>> /\ Head(back).k = "nak" /\ back' = Tail(back)
      /\ UNCHANGED <<running, stubVars, cmds, got, gdbAck, interrupted, naks,
                     garbled>>
  BY DEF GdbRepeats
<1>2. /\ main = "read" /\ parser = ParserReset /\ stubAck /\ Stuck(Stream)
      /\ back = <<Message("nak", 0)>>
  <2>1. Message("answer", ran).k # "nak"
    BY DEF Message
  <2> QED BY <1>1, <2>1, BackIs DEF Owed
<1>3. back' = <<>>
  BY <1>1, <1>2
<1>4. \/ wire' = wire /\ repeats' = repeats
      \/ wire' = wire \o Packet(sent) /\ repeats' = repeats + 1
         /\ repeats < MaxRepeats
  BY DEF GdbRepeats, Write
<1>5. wire' \in Seq(Bytes) /\ NoSigns(Stream', 1)
  <2>1. CASE wire' = wire
    <3>1. Stream' = Stream
      BY <1>1, <2>1 DEF Stream, stubVars
    <3> QED BY <1>t, <1>2, <2>1, <3>1 DEF Stuck
  <2>2. CASE wire' = wire \o Packet(sent)
    <3> DEFINE x == Packet(sent)
    <3>1. x \in Seq(Bytes) /\ NoSigns(x, 1)
      BY <1>t, PacketBytes, PacketNoSigns
    <3> HIDE DEF x
    <3>2. Stream' = Stream \o x /\ wire' \in Seq(Bytes)
      <4>1. (inbuf \o wire) \o x = inbuf \o (wire \o x)
        BY <1>t, <3>1
      <4>2. wire \o x \in Seq(Bytes)
        BY <1>t, <3>1, Concat
      <4> QED BY <1>1, <2>2, <4>1, <4>2 DEF Stream, stubVars, x
    <3>3. NoSigns(Stream, 1) /\ 1 \in Nat \ {0}
      BY <1>2 DEF Stuck
    <3>4. NoSigns(Stream \o x, 1)
      BY <1>t, <3>1, <3>3, Appended
    <3> QED BY <3>2, <3>4
  <2> QED BY <1>4, <2>1, <2>2
<1>6. repeats' \in 0 .. MaxRepeats
  BY <1>t, <1>4, PacketsAssumption
<1>7. TypeOK'
  BY <1>1, <1>3, <1>5, <1>6 DEF Inv, TypeOK, stubVars, sent
<1>8. Place'
  <2>1. Stuck(Stream)'
    BY <1>1, <1>2, <1>3, <1>5 DEF Stuck, stubVars, sent
  <2>2. WithAcks(parser, Stream, Len(inbuf))'
    BY <1>1, <1>2, <2>1 DEF WithAcks, ParserReset, stubVars
  <2> QED BY <1>1, <1>2, <2>2 DEF Place, stubVars
<1> QED BY <1>1, <1>2, <1>7, <1>8, <1>t DEF Inv, stubVars

LEMMA GdbRejectsKeeps == ASSUME Inv, Calm, GdbRejects PROVE Inv'
<1> DEFINE x == <<Byte("-", 0)>>
<1>t. /\ wire \in Seq(Bytes) /\ inbuf \in Seq(Bytes) /\ Stream \in Seq(Bytes)
      /\ stubAck => gdbAck
      /\ naks \in 0 .. MaxNaks
  BY TypeFacts DEF Inv, TypeOK
<1>1. /\ back # <<>> /\ Head(back).k = "answer" /\ back' = Tail(back)
      /\ gdbAck /\ naks < MaxNaks /\ naks' = naks + 1
      /\ cmds[Head(back).n] # "noAck" \/ RoughNoAck
      /\ wire' = wire \o x
      /\ UNCHANGED <<running, stubVars, cmds, got, gdbAck, interrupted,
                     repeats, garbled>>
  BY DEF GdbRejects, Write
<1>x. x \in Seq(Bytes) /\ Len(x) = 1 /\ x[1].k = "-"
  BY Numbers DEF Byte, Bytes
<1> HIDE DEF x
<1>2. /\ main = "read" /\ parser = ParserReset /\ stubAck /\ Owed
      /\ back = <<out>> /\ NoSigns(Stream, 1)
  <2>1. \A n : Message("answer", n).k = "answer" /\ Message("answer", n).n = n
    BY DEF Message
  <2>2. Message("nak", 0).k # "answer"
    BY DEF Message
  <2>3. stubAck
    BY <1>1, <2>1, BackIs DEF Calm
  <2> QED BY <1>1, <2>2, <2>3, BackIs
<1>3. back' = <<>>
  BY <1>1, <1>2
<1>4. /\ Stream' = Stream \o x /\ wire' \in Seq(Bytes)
      /\ Len(Stream') = Len(Stream) + 1
      /\ Len(Stream) \in Nat
      /\ \A i \in 1 .. Len(Stream) : Stream'[i] = Stream[i]
      /\ Stream'[Len(Stream) + 1] = x[1]
  <2>1. (inbuf \o wire) \o x = inbuf \o (wire \o x)
    BY <1>t, <1>x
  <2>2. wire \o x \in Seq(Bytes)
    BY <1>t, <1>x, Concat
  <2>3. Stream' = Stream \o x /\ wire' \in Seq(Bytes)
    BY <1>1, <2>1, <2>2 DEF Stream, stubVars
  <2>4. /\ Len(Stream \o x) = Len(Stream) + Len(x) /\ Len(Stream) \in Nat
        /\ \A i \in 1 .. Len(Stream) : (Stream \o x)[i] = Stream[i]
        /\ \A i \in 1 .. Len(x) : (Stream \o x)[Len(Stream) + i] = x[i]
    <3>1. x \in Seq(Bytes)
      BY <1>x
    <3> QED BY <1>t, <3>1, Appended
  <2>5. (Stream \o x)[Len(Stream) + 1] = x[1]
    BY <2>4, <1>x
  <2> QED BY <1>x, <2>3, <2>4, <2>5
<1>6. naks' \in 0 .. MaxNaks
  BY <1>t, <1>1, PacketsAssumption
<1>7. TypeOK'
  BY <1>1, <1>3, <1>4, <1>6 DEF Inv, TypeOK, stubVars, sent
<1>8. Place'
  <2> DEFINE m == Len(Stream) + 1
  <2>1. /\ m \in Len(inbuf) + 1 .. Len(Stream') /\ Stream'[m].k = "-"
        /\ \A i \in 1 .. Len(Stream') : i # m => Stream'[i].k \notin Signs
    <3>1. Len(inbuf) <= Len(Stream) /\ Len(inbuf) \in Nat
      BY <1>t, StreamIs
    <3>2. \A i \in 1 .. Len(Stream') : i # m => i \in 1 .. Len(Stream)
      BY <1>4
    <3> QED BY <3>1, <3>2, <1>2, <1>4, <1>x DEF NoSigns
  <2>2. Answered(Stream, Len(inbuf))'
    <3> HIDE DEF m
    <3> QED BY <1>1, <1>2, <1>3, <2>1 DEF Answered, Owed, stubVars, sent
  <2>3. WithAcks(parser, Stream, Len(inbuf))'
    BY <1>1, <1>2, <2>2 DEF WithAcks, ParserReset, stubVars
  <2> QED BY <1>1, <1>2, <2>3 DEF Place, stubVars
<1> QED BY <1>1, <1>2, <1>7, <1>8, <1>t DEF Inv, stubVars

LEMMA GdbAcceptsKeeps ==
    ASSUME Inv, GdbAccepts
    PROVE  Inv' /\ got' = got + 1 /\ got < ran
<1> DEFINE x == <<Byte("+", 0)>>
<1>t. /\ wire \in Seq(Bytes) /\ inbuf \in Seq(Bytes) /\ Stream \in Seq(Bytes)
      /\ Len(inbuf) \in Nat
      /\ got \in Nat /\ ran \in Nat /\ sent \in Nat
      /\ stubAck => gdbAck
      /\ stubAck \in BOOLEAN /\ gdbAck \in BOOLEAN
  BY TypeFacts
<1>1. /\ back # <<>> /\ Head(back).k = "answer" /\ back' = Tail(back)
      /\ got' = Head(back).n
      /\ wire' = IF gdbAck THEN wire \o x ELSE wire
      /\ gdbAck' = (gdbAck /\ cmds[Head(back).n] # "noAck")
      /\ UNCHANGED <<running, stubVars, cmds, interrupted, repeats, naks,
                     garbled>>
  BY DEF GdbAccepts, Write
<1>x. x \in Seq(Bytes) /\ Len(x) = 1 /\ x[1].k = "+"
  BY Numbers DEF Byte, Bytes
<1> HIDE DEF x
<1>m. /\ \A n : Message("answer", n).k = "answer" /\ Message("answer", n).n = n
      /\ Message("nak", 0).k # "answer"
  BY DEF Message
<1>2. /\ main = "read" /\ parser = ParserReset
      /\ got = ran - 1 /\ ran = sent /\ back = <<Message("answer", ran)>>
      /\ \/ stubAck /\ Owed /\ NoSigns(Stream, 1)
         \/ ~stubAck /\ Stream = <<>> /\ (gdbAck => cmds[sent] = "noAck")
  BY <1>1, <1>m, BackIs DEF Owed
<1>3. back' = <<>> /\ got' = ran /\ Head(back).n = ran
  BY <1>1, <1>2, <1>m
<1>4. got' = got + 1 /\ got < ran
  BY <1>2, <1>3, <1>t
<1>5. ASSUME gdbAck
      PROVE  /\ Stream' = Stream \o x /\ wire' \in Seq(Bytes)
             /\ Len(Stream') = Len(Stream) + 1
             /\ Len(Stream) \in Nat
             /\ \A i \in 1 .. Len(Stream) : Stream'[i] = Stream[i]
             /\ Stream'[Len(Stream) + 1].k = "+"
  <2>1. (inbuf \o wire) \o x = inbuf \o (wire \o x)
    BY <1>t, <1>x
  <2>2. wire \o x \in Seq(Bytes)
    BY <1>t, <1>x, Concat
  <2>3. Stream' = Stream \o x /\ wire' \in Seq(Bytes)
    BY <1>1, <1>5, <2>1, <2>2 DEF Stream, stubVars
  <2>4. /\ Len(Stream \o x) = Len(Stream) + Len(x) /\ Len(Stream) \in Nat
        /\ \A i \in 1 .. Len(Stream) : (Stream \o x)[i] = Stream[i]
        /\ \A i \in 1 .. Len(x) : (Stream \o x)[Len(Stream) + i] = x[i]
    <3>1. x \in Seq(Bytes)
      BY <1>x
    <3> QED BY <1>t, <3>1, Appended
  <2>5. (Stream \o x)[Len(Stream) + 1] = x[1]
    BY <2>4, <1>x
  <2> QED BY <1>x, <2>3, <2>4, <2>5
<1>6. wire' \in Seq(Bytes)
  BY <1>t, <1>1, <1>5
<1>7. TypeOK'
  BY <1>1, <1>2, <1>3, <1>6 DEF Inv, TypeOK, stubVars, sent
<1>8. CASE stubAck
  <2>0. PICK l \in Nat : l = Len(Stream) + 1
    BY <1>5, <1>8, <1>t
  <2>1. /\ l \in Len(inbuf) + 1 .. Len(Stream') /\ l \in 1 .. Len(Stream')
        /\ Stream'[l].k = "+" /\ Len(Stream') = l
        /\ \A i \in 1 .. Len(Stream') : i # l => Stream'[i].k \notin Signs
    <3>1. Len(inbuf) <= Len(Stream)
      BY <1>t, StreamIs
    <3>2. \A i \in 1 .. Len(Stream') : i # l => i \in 1 .. Len(Stream)
      BY <2>0, <1>5, <1>8, <1>t
    <3>3. /\ gdbAck /\ Stream'[l].k = "+" /\ Len(Stream') = l
          /\ \A i \in 1 .. Len(Stream) : Stream'[i] = Stream[i]
      BY <2>0, <1>5, <1>8, <1>t
    <3>4. \A i \in 1 .. Len(Stream) : Stream[i].k \notin Signs
      BY <1>2, <1>8 DEF NoSigns
    <3>5. l \in Len(inbuf) + 1 .. l /\ l \in 1 .. l
      BY <1>t, <2>0, <3>1
    <3> QED BY <3>2, <3>3, <3>4, <3>5
  <2>2. Plus(Stream, l)'
    BY <1>1, <1>2, <1>3, <2>1 DEF Plus, stubVars, sent
  <2>3. WithAcks(parser, Stream, Len(inbuf))'
    <3>1. \E y \in Len(inbuf') + 1 .. Len(Stream') : Plus(Stream, y)'
      <4>1. l \in Len(inbuf') + 1 .. Len(Stream')
        BY <1>1, <2>1 DEF stubVars
      <4> WITNESS l \in Len(inbuf') + 1 .. Len(Stream')
      <4> QED BY <2>2
    <3> QED BY <1>1, <1>2, <3>1 DEF WithAcks, ParserReset, stubVars
  <2>4. gdbAck'
    BY <1>1, <1>2, <1>3, <1>8, <1>t DEF Owed
  <2> QED BY <1>1, <1>2, <1>4, <1>7, <1>8, <2>3, <2>4 DEF Place, Inv, stubVars
<1>9. CASE ~stubAck
  <2>1. inbuf = <<>> /\ wire = <<>> /\ Stream = <<>> /\ ~gdbAck'
    BY <1>1, <1>2, <1>3, <1>9, <1>t DEF Stream
  <2>2. \E l \in {0, 1} : Bare(Stream, l)'
    <3>1. CASE gdbAck
      <4>1. Len(Stream') = 1 /\ Stream'[1].k = "+"
        BY <1>5, <2>1, <3>1
      <4>2. Bare(Stream, 1)'
        BY <1>1, <1>2, <1>3, <2>1, <4>1 DEF Bare, stubVars, sent
      <4> QED BY <4>2
    <3>2. CASE ~gdbAck
      <4>1. Stream' = Stream
        BY <1>1, <3>2 DEF Stream, stubVars
      <4>2. Bare(Stream, 0)'
        BY <1>1, <1>2, <1>3, <2>1, <4>1 DEF Bare, stubVars, sent
      <4> QED BY <4>2
    <3> QED BY <3>1, <3>2
  <2>3. WithoutAcks(parser, Stream, Len(inbuf))'
    BY <1>1, <1>2, <2>1, <2>2 DEF WithoutAcks, ParserReset, stubVars
  <2> QED BY <1>1, <1>2, <1>4, <1>7, <1>9, <2>3
             DEF Place, Inv, stubVars, ParserReset
<1> QED BY <1>8, <1>9

LEMMA GdbAsksKeeps ==
    ASSUME Inv, NEW kind \in Kinds, NEW bad \in BOOLEAN, GdbAsks(kind, bad)
    PROVE  Inv' /\ sent' = sent + 1 /\ got = sent
<1> DEFINE x == IF bad THEN BadPacket(sent + 1) ELSE Packet(sent + 1)
<1>t. /\ wire \in Seq(Bytes) /\ inbuf \in Seq(Bytes) /\ Stream \in Seq(Bytes)
      /\ Len(inbuf) \in Nat /\ cmds \in Seq(Kinds)
      /\ got \in Nat /\ ran \in Nat /\ sent \in Nat /\ sent \in 0 .. MaxCmds
      /\ main \in {"read", "wait"}
      /\ stubAck => gdbAck
      /\ garbled \in 0 .. MaxGarbled
      /\ parser \in ParserType(Len(inbuf))
  BY TypeFacts DEF Inv, TypeOK
<1>1. /\ got = sent /\ sent < MaxCmds
      /\ bad => garbled < MaxGarbled /\ gdbAck
      /\ wire' = wire \o x
      /\ garbled' = IF bad THEN garbled + 1 ELSE garbled
      /\ cmds' = Append(cmds, kind)
      /\ interrupted' = FALSE
      /\ UNCHANGED <<back, running, stubVars, got, gdbAck, repeats, naks>>
  BY DEF GdbAsks, Write
<1>2. UNCHANGED <<inbuf, parser, out, stubAck, main, ran, back, got, gdbAck>>
  BY <1>1 DEF stubVars
<1>3. /\ sent' = sent + 1 /\ cmds' \in Seq(Kinds)
      /\ cmds'[sent'] = kind /\ sent + 1 \in 0 .. MaxCmds
  <2>1. /\ Len(cmds') = Len(cmds) + 1 /\ cmds' \in Seq(Kinds)
        /\ cmds'[Len(cmds) + 1] = kind
    BY <1>t, <1>1
  <2>2. sent + 1 \in 0 .. MaxCmds
    BY <1>t, <1>1, Numbers
  <2> QED BY <2>1, <2>2 DEF sent
<1>x. /\ x \in Seq(Bytes) /\ NoSigns(x, 1) /\ Len(x) = Length
      /\ x = IF bad THEN BadPacket(sent + 1) ELSE Packet(sent + 1)
  BY <1>3, PacketBytes, BadPacketBytes, PacketNoSigns
<1> HIDE DEF x
<1>4. /\ Stream' = Stream \o x /\ wire' \in Seq(Bytes)
      /\ Len(Stream') = Len(Stream) + Length
      /\ Len(Stream) \in Nat
      /\ \A i \in 1 .. Len(Stream) : Stream'[i] = Stream[i]
      /\ \A i \in 1 .. Length : Stream'[Len(Stream) + i] = x[i]
  <2>x. x \in Seq(Bytes)
    BY <1>x
  <2>1. (inbuf \o wire) \o x = inbuf \o (wire \o x)
    BY <1>t, <2>x
  <2>2. wire \o x \in Seq(Bytes)
    BY <1>t, <2>x, Concat
  <2>3. Stream' = Stream \o x /\ wire' \in Seq(Bytes)
    BY <1>1, <1>2, <2>1, <2>2 DEF Stream
  <2>4. /\ Len(Stream \o x) = Len(Stream) + Len(x) /\ Len(Stream) \in Nat
        /\ \A i \in 1 .. Len(Stream) : (Stream \o x)[i] = Stream[i]
        /\ \A i \in 1 .. Len(x) : (Stream \o x)[Len(Stream) + i] = x[i]
    BY <1>t, <2>x, Appended
  <2> QED BY <1>x, <2>3, <2>4
<1>5. garbled' \in 0 .. MaxGarbled
  BY <1>t, <1>1, PacketsAssumption
<1>6. TypeOK'
  <2>1. sent' \in 0 .. MaxCmds /\ got' \in 0 .. sent'
    BY <1>t, <1>1, <1>2, <1>3
  <2> QED BY <1>1, <1>2, <1>3, <1>4, <1>5, <2>1 DEF Inv, TypeOK
\* The packet is there, right after what was in the stream.
<1>7. /\ bad => At(Stream', Len(Stream) + 1, BadPacket(sent'))
      /\ ~bad => At(Stream', Len(Stream) + 1, Packet(sent'))
  <2> DEFINE q == Len(Stream) + 1
  <2>1. q + Length - 1 <= Len(Stream')
    BY <1>4, Numbers
  <2>2. \A i \in 1 .. Length : q + i - 1 = Len(Stream) + i
    BY <1>4, Numbers
  <2> HIDE DEF q
  <2>3. \A i \in 1 .. Length : Stream'[q + i - 1] = x[i]
    BY <1>4, <2>2
  <2>4. At(Stream', q, x)
    BY <1>x, <2>1, <2>3 DEF At
  <2> QED BY <1>x, <1>3, <2>4 DEF q
<1>8. main = "read"
  <2>1. ASSUME main = "wait" PROVE FALSE
    <3>1. ran = sent /\ got = ran - 1
      BY <2>1, WaitingIs
    <3> QED BY <3>1, <1>1, <1>t
  <2> QED BY <2>1, <1>t
<1>9. CASE stubAck
  <2>1. WithAcks(parser, Stream, Len(inbuf))
    BY <1>8, <1>9 DEF Inv, Place
  <2>2. ~Owed /\ ~(got = ran /\ sent = ran + 1)
    BY <1>1, <1>t DEF Owed
  <2>3. \A l : Plus(Stream, l) => l = Len(Stream)
    BY <1>t, <2>2, PlusFacts
  <2>4. \A l : Plus(Stream, l) => got = ran
    BY <1>t, PlusFacts
  <2>5. ASSUME NEW l \in Nat, Plus(Stream, l) PROVE Plus(Stream, l)'
    <3>1. l = Len(Stream) /\ got = ran /\ back = <<>> /\ l >= 1
      BY <2>5, <2>3, <1>t, PlusFacts
    <3>2. Command(Stream', l + 1, sent')
      BY <1>7, <3>1 DEF Command
    <3>3. Len(Stream') = l + Length
      BY <1>4, <3>1
    <3>4. l \in 1 .. Len(Stream') /\ Stream'[l].k = "+"
      <4>1. Stream[l].k = "+" /\ l \in 1 .. Len(Stream)
        BY <2>5 DEF Plus
      <4> QED BY <4>1, <3>3, <1>4, Numbers
    <3>5. ASSUME NEW i \in 1 .. Len(Stream'), i # l
          PROVE  Stream'[i].k \notin Signs
      <4>1. CASE i <= Len(Stream)
        BY <1>4, <2>5, <3>5, <4>1 DEF Plus
      <4>2. CASE ~(i <= Len(Stream))
        <5> DEFINE y == i - Len(Stream)
        <5>1. y \in 1 .. Length /\ Len(Stream) + y = i
          BY <1>4, <4>2, Numbers
        <5> HIDE DEF y
        <5>2. Stream'[i] = x[y]
          BY <1>4, <5>1
        <5> QED BY <5>1, <5>2, <1>x DEF NoSigns
      <4> QED BY <4>1, <4>2
    <3>6. got' = ran' /\ back' = <<>> /\ sent' = ran' + 1
      BY <1>1, <1>2, <1>3, <3>1
    <3> QED BY <3>2, <3>3, <3>4, <3>5, <3>6 DEF Plus
  <2>6. \A l : Plus(Stream, l) => l \in Nat
    BY <1>t, PlusFacts
  <2>7. Len(inbuf') = Len(inbuf) /\ Len(Stream') >= Len(Stream)
        /\ parser' = parser
    BY <1>2, <1>4, Numbers
  <2>8. WithAcks(parser, Stream, Len(inbuf))'
    <3>1. CASE parser.state = "RESET"
      <4>1. /\ parser = ParserReset
            /\ \E l \in Len(inbuf) + 1 .. Len(Stream) : Plus(Stream, l)
        BY <2>1, <2>2, <3>1 DEF WithAcks, Answered, Stuck
      <4>2. PICK l \in Len(inbuf) + 1 .. Len(Stream) : Plus(Stream, l)
        BY <4>1
      <4>3. Plus(Stream, l)' /\ l \in Len(inbuf') + 1 .. Len(Stream')
        BY <4>2, <2>5, <2>6, <2>7, <1>4, <1>t
      <4> QED BY <2>7, <3>1, <4>1, <4>3 DEF WithAcks
    <3>2. CASE parser.state = "START"
      <4>1. Plus(Stream, Len(inbuf))
        BY <2>1, <3>2 DEF WithAcks
      <4>2. PICK l \in Nat : l = Len(inbuf)
        BY <1>t
      <4>3. Plus(Stream, l)'
        BY <4>1, <4>2, <2>5
      <4> QED BY <2>7, <3>2, <4>2, <4>3 DEF WithAcks
    <3>3. CASE parser.state \notin {"RESET", "START"}
      BY <2>1, <2>2, <2>4, <3>3 DEF WithAcks
    <3> QED BY <3>1, <3>2, <3>3
  <2> QED BY <1>1, <1>2, <1>3, <1>6, <1>8, <1>9, <1>t, <2>8 DEF Inv, Place
<1>10. CASE ~stubAck
  <2>1. WithoutAcks(parser, Stream, Len(inbuf))
    BY <1>8, <1>10 DEF Inv, Place
  <2>2. ~(got = ran - 1 /\ ran = sent) /\ ~(got = ran /\ sent = ran + 1)
    BY <1>1, <1>t
  <2>3. \A l : Bare(Stream, l) => l = Len(Stream) /\ got = ran
    BY <1>t, <2>2, BareFacts
  <2>5. ASSUME NEW l \in Nat, Bare(Stream, l) PROVE Bare(Stream, l)'
    <3>1. /\ l = Len(Stream) /\ got = ran /\ back = <<>> /\ ~gdbAck
          /\ l \in {0, 1} /\ (l = 1 => Stream[1].k = "+")
      BY <2>5, <2>3 DEF Bare
    <3>2. At(Stream', l + 1, Packet(sent'))
      BY <1>1, <1>7, <3>1
    <3>3. Len(Stream') = l + Length /\ l \in 0 .. Len(Stream')
      BY <1>4, <3>1, Numbers
    <3>4. l = 1 => Stream'[1].k = "+"
      <4>1. l = 1 => 1 \in 1 .. Len(Stream)
        BY <3>1, <1>4
      <4> QED BY <4>1, <3>1, <1>4
    <3>6. got' = ran' /\ back' = <<>> /\ sent' = ran' + 1 /\ ~gdbAck'
      BY <1>1, <1>2, <1>3, <3>1
    <3> QED BY <3>1, <3>2, <3>3, <3>4, <3>6 DEF Bare
  <2>7. Len(inbuf') = Len(inbuf) /\ parser' = parser
    BY <1>2
  <2>8. /\ WithoutAcks(parser, Stream, Len(inbuf))'
        /\ parser.state \in {"RESET", "START"}
    <3>1. CASE parser.state = "RESET"
      <4>1. /\ parser = ParserReset /\ Len(inbuf) = 0
            /\ \E l \in {0, 1} : Bare(Stream, l)
        BY <2>1, <2>2, <3>1 DEF WithoutAcks
      <4>2. PICK l \in {0, 1} : Bare(Stream, l)
        BY <4>1
      <4>3. Bare(Stream, l)'
        BY <4>2, <2>5
      <4> QED BY <2>7, <3>1, <4>1, <4>3 DEF WithoutAcks
    <3>2. CASE parser.state = "START"
      <4>1. Len(inbuf) = 1 /\ Bare(Stream, 1)
        BY <2>1, <3>2 DEF WithoutAcks
      <4>3. Bare(Stream, 1)'
        BY <4>1, <2>5
      <4> QED BY <2>7, <3>2, <4>1, <4>3 DEF WithoutAcks
    <3>3. CASE parser.state \notin {"RESET", "START"}
      BY <2>1, <2>2, <2>3, <3>3 DEF WithoutAcks
    <3> QED BY <3>1, <3>2, <3>3
  <2> QED BY <1>1, <1>2, <1>3, <1>6, <1>8, <1>10, <2>7, <2>8 DEF Inv, Place
<1> QED BY <1>9, <1>10

-----------------------------------------------------------------------------

LEMMA InitHolds == Init => IInv
<1> SUFFICES ASSUME Init PROVE Inv
  BY DEF IInv
<1> DEFINE w == <<Byte("+", 0)>>
<1>1. w \in Seq(Bytes) /\ Len(w) = 1 /\ w[1].k = "+"
  BY Numbers DEF Byte, Bytes
<1>2. wire = w /\ inbuf = <<>> /\ parser = ParserReset /\ cmds = <<>>
      /\ sent = 0
  BY DEF Init, sent
<1> HIDE DEF w
<1>3. Stream = w
  <2>1. <<>> \o w = w
    BY <1>1
  <2> QED BY <1>2, <2>1 DEF Stream
<1>4. out \in Messages
  BY Numbers DEF Init, Message, Messages
<1>5. parser \in [state : ParserStates, first : 0 .. Len(inbuf) + 1,
                  last : 0 .. Len(inbuf)]
  <2>1. /\ Len(inbuf) = 0 /\ 0 \in 0 .. 0 + 1 /\ 0 \in 0 .. 0
        /\ "RESET" \in ParserStates
    BY <1>2 DEF ParserStates
  <2> QED BY <1>2, <2>1 DEF ParserReset
<1>i. /\ back = <<>> /\ stubAck = TRUE /\ main = "read" /\ running = FALSE
      /\ ran = 0 /\ got = 0 /\ gdbAck = TRUE /\ interrupted = FALSE
      /\ repeats = 0 /\ naks = 0 /\ garbled = 0
  BY DEF Init
<1>6. TypeOK
  <2>1. /\ 0 \in 0 .. MaxRepeats /\ 0 \in 0 .. MaxNaks /\ 0 \in 0 .. MaxGarbled
        /\ 0 \in 0 .. MaxCmds /\ 0 \in 0 .. 0
    BY PacketsAssumption
  <2>2. wire \in Seq(Bytes) /\ inbuf \in Seq(Bytes) /\ cmds \in Seq(Kinds)
        /\ back \in Seq(Messages)
    BY <1>1, <1>2, <1>i
  <2> QED BY <1>2, <1>4, <1>5, <1>i, <2>1, <2>2 DEF TypeOK
<1>7. Plus(Stream, 1) /\ Len(Stream) = 1
  <2>1. Len(Stream) = 1 /\ Stream[1].k = "+"
    BY <1>1, <1>3
  <2> QED BY <1>2, <1>i, <2>1 DEF Plus
<1>8. WithAcks(parser, Stream, Len(inbuf))
  <2>1. Len(inbuf) = 0 /\ 1 \in 0 + 1 .. Len(Stream)
    BY <1>2, <1>7
  <2> QED BY <1>2, <1>7, <2>1 DEF WithAcks, ParserReset
<1> QED BY <1>6, <1>8, <1>i DEF Inv, Place

\* Acks once off stay off.
LEMMA CalmBefore == ASSUME [Next]_pkVars, Calm' PROVE Calm
<1>1. stubAck' => stubAck
  BY DEF Next, Stub, StubRead, SendNak, Resend, BuildResp, BuildVCont,
         WaitRead, WaitEnds, CoresHalt, GdbReads, GdbAccepts, GdbRejects,
         GdbRepeats, GdbTimesOut, GdbInterrupts, GdbAsks, pkVars, stubVars
<1> QED BY <1>1 DEF Calm

LEMMA NextKeeps == ASSUME IInv, [Next]_pkVars PROVE IInv'
<1> SUFFICES ASSUME Calm' PROVE Inv'
  BY DEF IInv
<1>1. Inv /\ Calm
  BY CalmBefore DEF IInv
<1>2. CASE StubRead
  BY <1>1, <1>2, StubReadKeeps
<1>3. CASE SendNak
  BY <1>1, <1>3, SendNakKeeps
<1>4. CASE Resend
  BY <1>1, <1>4, ResendKeeps
<1>5. CASE BuildResp
  BY <1>1, <1>5, BuildRespKeeps
<1>6. CASE BuildVCont
  BY <1>1, <1>6, BuildVContKeeps
<1>7. CASE WaitRead
  BY <1>1, <1>7, WaitReadKeeps
<1>8. CASE WaitEnds
  BY <1>1, <1>8, WaitEndsKeeps
<1>9. CASE CoresHalt
  BY <1>1, <1>9, CoresHaltKeeps
<1>10. CASE GdbAccepts
  BY <1>1, <1>10, GdbAcceptsKeeps
<1>11. CASE GdbRejects
  BY <1>1, <1>11, GdbRejectsKeeps
<1>12. CASE GdbRepeats
  BY <1>1, <1>12, GdbRepeatsKeeps
<1>13. CASE GdbTimesOut
  BY <1>1, <1>13, GdbTimesOutKeeps
<1>14. CASE GdbInterrupts
  BY <1>1, <1>14, GdbInterruptsKeeps
<1>15. CASE \E kind \in Kinds, bad \in BOOLEAN : GdbAsks(kind, bad)
  BY <1>1, <1>15, GdbAsksKeeps
<1>16. CASE UNCHANGED pkVars
  BY <1>1, <1>16, CoresHaltKeeps
<1> QED BY <1>2, <1>3, <1>4, <1>5, <1>6, <1>7, <1>8, <1>9, <1>10, <1>11,
           <1>12, <1>13, <1>14, <1>15, <1>16 DEF Next, Stub, GdbReads

-----------------------------------------------------------------------------
(* The theorems.                                                           *)

\* The invariant holds as long as the execution is calm (stub.c, parser.c).
THEOREM Invariance == Spec => []IInv
BY InitHolds, NextKeeps, PTL DEF Spec

\* The marks of the parser stay within the input buffer, and the output
\* buffer and the counts of both sides keep their types (buffer.c, parser.c).
THEOREM TypeCorrectness == Spec => [](Calm => TypeOK)
<1>1. IInv => (Calm => TypeOK)
  BY DEF IInv, Inv
<1> QED BY <1>1, Invariance, PTL

\* A packet the parser has finished (parser.c) is the command GDB is waiting
\* for, with its body whole, in however many reads it came and whatever was
\* before it.
THEOREM PacketsAreWhole == Spec => [](Calm => ParsedPacketIsWhole)
<1>1. IInv => (Calm => ParsedPacketIsWhole)
  BY BodyIs DEF IInv, ParsedPacketIsWhole
<1> QED BY <1>1, Invariance, PTL

LEMMA ExchangeInit == Init => Ex!Init
BY DEF Init, Ex!Init, sent

\* Running a command, taking its answer and asking for the next one are the
\* steps of Exchange, all others leave its numbers alone.
LEMMA ExchangeStep ==
    ASSUME IInv, [Next]_pkVars, Calm'
    PROVE  [Ex!Next]_<<sent, ran, got>>
<1>1. Inv /\ Calm
  BY CalmBefore DEF IInv
<1>2. CASE BuildResp \/ BuildVCont
  <2>1. main = "read" /\ parser.state = "FINISHED"
    BY <1>2 DEF BuildResp, BuildVCont
  <2>2. sent = ran + 1 /\ ran \in Nat
    BY <1>1, <2>1, FinishedIs, TypeFacts
  <2>3. ran' = ran + 1 /\ UNCHANGED <<sent, got>>
    BY <1>2 DEF BuildResp, BuildVCont, gdbVars, sent
  <2> QED BY <2>2, <2>3 DEF Ex!Next, Ex!Run
<1>3. CASE GdbAccepts
  <2>1. got' = got + 1 /\ got < ran
    BY <1>1, <1>3, GdbAcceptsKeeps
  <2>2. UNCHANGED <<sent, ran>>
    BY <1>3 DEF GdbAccepts, stubVars, sent
  <2> QED BY <2>1, <2>2 DEF Ex!Next, Ex!Receive
<1>4. CASE \E kind \in Kinds, bad \in BOOLEAN : GdbAsks(kind, bad)
  <2>1. PICK kind \in Kinds, bad \in BOOLEAN : GdbAsks(kind, bad)
    BY <1>4
  <2>2. got = sent /\ sent' = sent + 1
    BY <1>1, <2>1, GdbAsksKeeps
  <2>3. UNCHANGED <<ran, got>>
    BY <2>1 DEF GdbAsks, stubVars
  <2> QED BY <2>2, <2>3 DEF Ex!Next, Ex!Ask
<1>5. CASE \/ StubRead \/ SendNak \/ Resend \/ WaitRead \/ WaitEnds
           \/ CoresHalt \/ GdbRejects \/ GdbRepeats \/ GdbTimesOut
           \/ GdbInterrupts \/ UNCHANGED pkVars
  BY <1>5 DEF StubRead, SendNak, Resend, WaitRead, WaitEnds, CoresHalt,
     GdbRejects, GdbRepeats, GdbTimesOut, GdbInterrupts, pkVars, stubVars,
     gdbVars, sent
<1> QED BY <1>2, <1>3, <1>4, <1>5 DEF Next, Stub, GdbReads

\* The loop of sad_stub_handle_cmds runs every command once and GDB takes one
\* answer to each, in order.  Repeated and resent ones count once.
THEOREM ExchangeRefinement == Spec /\ []Calm => ImplementsExchange
BY Invariance, ExchangeInit, ExchangeStep, PTL
   DEF Spec, ImplementsExchange, Ex!Spec

\* So does it in every execution, if nothing disturbs the stream without acks.
THEOREM ExchangeWithoutNoise ==
    ASSUME RoughNoAck = FALSE PROVE Spec => ImplementsExchange
<1>1. Calm
  BY DEF Calm
<1> QED BY <1>1, ExchangeRefinement, PTL
=============================================================================
