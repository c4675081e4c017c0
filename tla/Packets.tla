------------------------------- MODULE Packets -------------------------------
(***************************************************************************)
(* The packet layer of the GDB stub: the loop of sad_stub_handle_cmds, the *)
(* parser (parser.c), the input and output buffers (buffer.c) and the poll *)
(* for ^C of a vCont (builder.c), at the end of a socket that hands out    *)
(* what GDB wrote in pieces of any size.                                   *)
(*                                                                         *)
(* A byte is its kind and the number of the command it belongs to; what a  *)
(* command says is abstracted to three kinds.  Indices start at 1, so the  *)
(* body of the parsed packet is inbuf[first .. last - 1] as in the code.   *)
(* parse_idx is always the length of the buffer between two reads.         *)
(*                                                                         *)
(* GDB is external: it gives one command at a time, acknowledges with +,   *)
(* asks for an answer again with -, repeats a command after - or a time    *)
(* out, and sends ^C while the guest runs.                                 *)
(***************************************************************************)
EXTENDS Naturals, Sequences, SequencesExt

CONSTANTS READ_MAX,    \* buff->initial_size, the most one read returns
          DataLen,     \* bytes of a packet's body
          MaxCmds,     \* bound: commands GDB gives
          MaxRepeats,  \* bound: repetitions after a time out or a -
          MaxNaks,     \* bound: answers GDB rejects
          MaxGarbled,  \* bound: commands that arrive with a garbled body
          RoughNoAck   \* without acks too, reads cut packets, ^C crosses an
                       \* answer, and the answer that ends them is rejected

ASSUME PacketsAssumption ==
    /\ READ_MAX \in Nat \ {0} /\ DataLen \in Nat \ {0}
    /\ MaxCmds \in Nat /\ MaxRepeats \in Nat /\ MaxNaks \in Nat
    /\ MaxGarbled \in Nat /\ RoughNoAck \in BOOLEAN

VARIABLES
    wire,      \* bytes from GDB that were not read yet
    back,      \* messages GDB has not read yet
    inbuf,     \* input_buffer_g: its bytes
    parser,    \* parser_g.state, and start_pkt_data and end_pkt_data
    out,       \* output_buffer_g: the message to send or to resend
    stubAck,   \* ack_enabled_g
    main,      \* whether the stub reads, or waits for the cores to halt
    running,   \* some core executes
    ran,       \* commands executed
    cmds,      \* GDB: the kinds of the commands given so far
    got,       \* GDB: answers taken
    gdbAck,    \* GDB: still acknowledges
    interrupted,           \* GDB: ^C sent during the current command
    repeats, naks, garbled \* GDB: how often so far

stubVars == <<inbuf, parser, out, stubAck, main, ran>>
gdbVars  == <<cmds, got, gdbAck, interrupted, repeats, naks, garbled>>
pkVars   == <<wire, back, running, stubVars, gdbVars>>

sent == Len(cmds)

\* quick: answered at once; vCont: once the guest halts; QStartNoAckMode.
Kinds == {"quick", "vCont", "noAck"}

Byte(k, n)  == [k |-> k, n |-> n]
Bytes       == [k : {"+", "-", "$", "data", "#", "digit0", "digit1", "^C"},
                n : 0 .. MaxCmds]
Data(n)     == [i \in 1 .. DataLen |-> Byte("data", n)]
Packet(n)   == <<Byte("$", n)>> \o Data(n) \o
               <<Byte("#", n), Byte("digit0", n), Byte("digit1", n)>>
BadPacket(n) == [Packet(n) EXCEPT ![DataLen + 1] = Byte("data", 0)]

Message(k, n) == [k |-> k, n |-> n]
Messages      == [k : {"none", "nak", "answer"}, n : 0 .. MaxCmds]

ParserStates == {"RESET", "START", "SKIP", "CHECKSUM_DIGIT_0",
                 "CHECKSUM_DIGIT_1", "NACK", "ERROR", "FINISHED"}
Done == {"NACK", "ERROR", "FINISHED"}

TypeOK ==
    /\ wire \in Seq(Bytes)
    /\ back \in Seq(Messages)
    /\ inbuf \in Seq(Bytes)
    /\ parser \in [state : ParserStates, first : 0 .. Len(inbuf) + 1,
                   last : 0 .. Len(inbuf)]
    /\ out \in Messages
    /\ stubAck \in BOOLEAN
    /\ main \in {"read", "wait"}
    /\ running \in BOOLEAN
    /\ ran \in 0 .. MaxCmds
    /\ cmds \in Seq(Kinds) /\ sent \in 0 .. MaxCmds
    /\ got \in 0 .. sent
    /\ gdbAck \in BOOLEAN
    /\ interrupted \in BOOLEAN
    /\ repeats \in 0 .. MaxRepeats
    /\ naks \in 0 .. MaxNaks
    /\ garbled \in 0 .. MaxGarbled

ParserReset == [state |-> "RESET", first |-> 0, last |-> 0]

\* sad_stub_init; GDB greets with a +.
Init ==
    /\ wire = <<Byte("+", 0)>>
    /\ back = <<>>
    /\ inbuf = <<>> /\ parser = ParserReset
    /\ out = Message("none", 0)
    /\ stubAck = TRUE
    /\ main = "read"
    /\ running = FALSE
    /\ ran = 0
    /\ cmds = <<>> /\ got = 0 /\ gdbAck = TRUE /\ interrupted = FALSE
    /\ repeats = 0 /\ naks = 0 /\ garbled = 0

-----------------------------------------------------------------------------
(* sad_parser_pkt.                                                         *)

Goto(p, s) == [p EXCEPT !.state = s]

\* Mutant of ChecksumOK: any two digits will do.
ChecksumUnchecked(p, b, i) == b[i - 1].k = "digit0" /\ b[i].k = "digit1"

\* sad_buff_checksum of the body against the two digits.
ChecksumOK(p, b, i) ==
    \E n \in 1 .. MaxCmds : /\ SubSeq(b, p.first, p.last - 1) = Data(n)
                            /\ b[i - 1] = Byte("digit0", n)
                            /\ b[i] = Byte("digit1", n)

ParseStart(p, b, i) ==
    IF b[i].k = "$" THEN [p EXCEPT !.state = "SKIP", !.first = i + 1]
                    ELSE Goto(p, "ERROR")

\* The bytes before the packet: without acks the first one is looked at again
\* as the start of the packet, unless it is a late +.
ParseReset(p, b, i) ==
    CASE b[i].k = "+"             -> Goto(p, "START")
      [] b[i].k # "+" /\ ~stubAck -> ParseStart(p, b, i)
      [] b[i].k = "-" /\ stubAck  -> Goto(p, "NACK")
      [] OTHER                    -> p

\* One turn of the loop, on byte i of buffer b.
ParseByte(p, b, i) ==
    CASE p.state = "RESET" -> ParseReset(p, b, i)
      [] p.state = "START" -> ParseStart(p, b, i)
      [] p.state = "SKIP" /\ b[i].k = "#" ->
           [p EXCEPT !.last = i,
                     !.state = IF stubAck THEN "CHECKSUM_DIGIT_0"
                                          ELSE "FINISHED"]
      [] p.state = "CHECKSUM_DIGIT_0" -> Goto(p, "CHECKSUM_DIGIT_1")
      [] p.state = "CHECKSUM_DIGIT_1" ->
           Goto(p, IF ChecksumOK(p, b, i) THEN "FINISHED" ELSE "ERROR")
      [] OTHER -> p

\* The loop, over what the last read added to the buffer.
Parse(b) == FoldLeft(LAMBDA p, i : ParseByte(p, b, i), parser,
                     [i \in 1 .. Len(b) - Len(inbuf) |-> Len(inbuf) + i])

-----------------------------------------------------------------------------
(* sad_stub_handle_cmds.                                                   *)

\* Mutant of ResetInput: the marks in the buffer stay.
ResetInputButMarks == inbuf' = <<>> /\ parser' = Goto(parser, "RESET")

\* sad_stub_reset_input_state: what follows the packet in the buffer is lost.
ResetInput == inbuf' = <<>> /\ parser' = ParserReset

Send(m) == out' = m /\ back' = Append(back, m)

\* sad_buff_from_socket, which appends at most READ_MAX bytes.
ReadBytes(n) ==
    /\ wire' = SubSeq(wire, n + 1, Len(wire))
    /\ inbuf' = inbuf \o SubSeq(wire, 1, n)

\* How many bytes a read may return.
Amounts == {n \in 1 .. READ_MAX : n <= Len(wire)}

\* The blocking read of the loop, and the parser on what it brought.  Without
\* acknowledgements the amount is the socket's choice only if RoughNoAck; in
\* the code it always is.
StubRead ==
    /\ main = "read" /\ parser.state \notin Done
    /\ \E n \in IF stubAck \/ RoughNoAck THEN Amounts ELSE {Len(wire)} \ {0} :
         ReadBytes(n)
    /\ parser' = Parse(inbuf')
    /\ UNCHANGED <<back, out, stubAck, main, running, ran, gdbVars>>

SendNak ==
    /\ main = "read" /\ parser.state = "ERROR"
    /\ Send(Message("nak", 0))
    /\ ResetInput
    /\ UNCHANGED <<wire, stubAck, main, running, ran, gdbVars>>

\* Mutant of Resend: the command is executed for the answer again.
ResendByRunning ==
    /\ main = "read" /\ parser.state = "NACK"
    /\ Send(out)
    /\ ResetInput
    /\ ran' = ran + 1
    /\ UNCHANGED <<wire, stubAck, main, running, gdbVars>>

\* The output buffer still holds what was sent last.
Resend ==
    /\ main = "read" /\ parser.state = "NACK"
    /\ Send(out)
    /\ ResetInput
    /\ UNCHANGED <<wire, stubAck, main, running, ran, gdbVars>>

\* The command in the buffer.
Parsed == inbuf[parser.first].n

Answer == Send(Message("answer", Parsed)) /\ ResetInput

\* sad_builder_build_resp of a command that answers at once.
BuildResp ==
    /\ main = "read" /\ parser.state = "FINISHED"
    /\ cmds[Parsed] # "vCont"
    /\ ran' = ran + 1
    /\ stubAck' = (stubAck /\ cmds[Parsed] # "noAck")
    /\ Answer
    /\ UNCHANGED <<wire, main, running, gdbVars>>

\* build_v: the cores go, the packet stays in the buffer meanwhile.
BuildVCont ==
    /\ main = "read" /\ parser.state = "FINISHED"
    /\ cmds[Parsed] = "vCont"
    /\ ran' = ran + 1
    /\ main' = "wait"
    /\ running' = TRUE
    /\ out' = Message("none", 0)
    /\ UNCHANGED <<wire, back, inbuf, parser, stubAck, gdbVars>>

\* The nonblocking read of wait_for_halt.
WaitRead ==
    /\ main = "wait"
    /\ \E n \in Amounts : ReadBytes(n)
    /\ UNCHANGED <<back, parser, out, stubAck, main, running, ran, gdbVars>>

\* Mutant of SeesInterrupt: the first byte after the packet is looked at.
SeesInterruptFirst ==
    Len(inbuf) > parser.last + 2 /\ inbuf[parser.last + 3].k = "^C"

\* ^C is seen if it is the last byte in the buffer.
SeesInterrupt == Last(inbuf).k = "^C"

\* wait_for_halt sees ^C, and orders the cores to halt, or finds them halted.
WaitEnds ==
    /\ main = "wait" /\ (SeesInterrupt \/ ~running)
    /\ main' = "read"
    /\ running' = FALSE
    /\ Answer
    /\ UNCHANGED <<wire, stubAck, ran, gdbVars>>

\* The guest reaches a breakpoint, or ends its step.
CoresHalt ==
    /\ running
    /\ running' = FALSE
    /\ UNCHANGED <<wire, back, stubVars, gdbVars>>

Stub == \/ StubRead \/ SendNak \/ Resend \/ BuildResp \/ BuildVCont
        \/ WaitRead \/ WaitEnds

-----------------------------------------------------------------------------
(* GDB.                                                                    *)

Write(bytes) == wire' = wire \o bytes

\* The next command; the line may garble it.
GdbAsks(kind, bad) ==
    /\ got = sent /\ sent < MaxCmds
    /\ kind = "noAck" => gdbAck
    /\ bad => garbled < MaxGarbled /\ gdbAck
    /\ Write(IF bad THEN BadPacket(sent + 1) ELSE Packet(sent + 1))
    /\ garbled' = IF bad THEN garbled + 1 ELSE garbled
    /\ cmds' = Append(cmds, kind)
    /\ interrupted' = FALSE
    /\ UNCHANGED <<back, running, stubVars, got, gdbAck, repeats, naks>>

\* No acknowledgement in time, as happens while the guest runs.
GdbTimesOut ==
    /\ gdbAck /\ got < sent /\ cmds[sent] = "vCont"
    /\ back = <<>> /\ ~interrupted /\ repeats < MaxRepeats
    /\ Write(Packet(sent))
    /\ repeats' = repeats + 1
    /\ UNCHANGED <<back, running, stubVars, cmds, got, gdbAck, interrupted,
                   naks, garbled>>

\* The user interrupts the guest.  ^C may cross the answer.  The stub polls for
\* it with and without acknowledgements (builder.c:56); the model has it without
\* them only if RoughNoAck.
GdbInterrupts ==
    /\ got < sent /\ cmds[sent] = "vCont"
    /\ ~interrupted /\ (gdbAck \/ RoughNoAck)
    /\ Write(<<Byte("^C", 0)>>)
    /\ interrupted' = TRUE
    /\ UNCHANGED <<back, running, stubVars, cmds, got, gdbAck, repeats, naks,
                   garbled>>

\* An answer arrives well; the last + follows the answer to QStartNoAckMode.
GdbAccepts ==
    /\ back # <<>> /\ Head(back).k = "answer"
    /\ back' = Tail(back)
    /\ got' = Head(back).n
    /\ IF gdbAck THEN Write(<<Byte("+", 0)>>) ELSE wire' = wire
    /\ gdbAck' = (gdbAck /\ cmds[Head(back).n] # "noAck")
    /\ UNCHANGED <<running, stubVars, cmds, interrupted, repeats, naks,
                   garbled>>

\* ... or garbled, and is asked for again.
GdbRejects ==
    /\ back # <<>> /\ Head(back).k = "answer"
    /\ gdbAck /\ naks < MaxNaks
    /\ cmds[Head(back).n] # "noAck" \/ RoughNoAck
    /\ back' = Tail(back)
    /\ Write(<<Byte("-", 0)>>)
    /\ naks' = naks + 1
    /\ UNCHANGED <<running, stubVars, cmds, got, gdbAck, interrupted, repeats,
                   garbled>>

\* The stub rejects the command: GDB repeats it, if it has it still.
GdbRepeats ==
    /\ back # <<>> /\ Head(back).k = "nak"
    /\ back' = Tail(back)
    /\ IF gdbAck /\ got < sent /\ repeats < MaxRepeats
       THEN Write(Packet(sent)) /\ repeats' = repeats + 1
       ELSE UNCHANGED <<wire, repeats>>
    /\ UNCHANGED <<running, stubVars, cmds, got, gdbAck, interrupted, naks,
                   garbled>>

GdbReads == GdbAccepts \/ GdbRejects \/ GdbRepeats

Next == \/ Stub \/ CoresHalt \/ GdbReads \/ GdbTimesOut \/ GdbInterrupts
        \/ \E kind \in Kinds, bad \in BOOLEAN : GdbAsks(kind, bad)

\* The stub reads and answers, and GDB reads what it is sent.
Spec == Init /\ [][Next]_pkVars /\ WF_pkVars(Stub) /\ WF_pkVars(GdbReads)

-----------------------------------------------------------------------------
(* Properties.                                                             *)

Ex == INSTANCE Exchange WITH sent <- sent, ran <- ran, got <- got

\* Each command is executed once and answered once, in order, whatever is cut,
\* repeated, rejected or interrupted: a - resends the answer and does not run
\* the command again, nor does a repeated command.
ImplementsExchange == Ex!Spec

\* A packet that is parsed to its end is the command GDB is waiting for, and
\* its body is there from the first byte to the last.
ParsedPacketIsWhole ==
    parser.state = "FINISHED" =>
        SubSeq(inbuf, parser.first, parser.last - 1) = Data(sent)

\* The answer to command n is due: at once, or when the guest is interrupted
\* or has halted.
Due(n) == sent = n /\ \/ cmds[n] # "vCont"
                      \/ interrupted
                      \/ main = "wait" /\ ~running

\* With acknowledgements GDB gets every answer that is due, however the socket
\* cuts the stream: no command and no ^C is dropped with what a reset discards
\* (stub.c:102-129, builder.c:56).  Without them this holds of a socket whose
\* reads bring all that GDB wrote, and as long as no ^C is sent: the parser ends
\* a packet at its # (parser.c:52-57), so a cut there, or a ^C that crosses the
\* answer, makes it discard the command that follows.  RoughNoAck = TRUE allows
\* both and violates the property.  A command that arrived garbled is left out.
EveryCommandAnswered ==
    \A n \in 1 .. MaxCmds : Due(n) ~> (got >= n \/ garbled > 0)
=============================================================================
