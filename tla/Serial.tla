------------------------------- MODULE Serial -------------------------------
(* A serial port (Serial.cpp) and its UART's data path (Uart16550.cpp): a  *)
(* processor writes and reads characters, the port's thread passes them to *)
(* and from a telnet client that may be slow, go away, and come back.      *)
(*                                                                         *)
(* A client sends items: characters and telnet commands.  They arrive as   *)
(* bytes, cut anywhere into reads.  A guest's byte is its number; the      *)
(* second byte of an escaped one (0xff) is a byte of its own.              *)
EXTENDS Naturals, Sequences

LOCAL INSTANCE SequencesExt

CONSTANTS
  Item,      \* what clients send, as sequences of bytes
  QueueMax,  \* OUT_QUEUE_MAX
  FifoMax,   \* characters the receive FIFO holds (UART_FIFO_SIZE - 1)
  Bounds     \* how much happens: characters the guest sends, items each
             \* client sends, clients, and loopback tests

VARIABLES
  uart,    \* the receive FIFO and the loopback bit
  out,     \* out_queue, and out_sending from out_sent on
  port,    \* the port's thread: where it is, the staging buffer, telnet state
  client,  \* the connection: bytes on their way to the port
  past     \* what was sent and received, for the property

serialVars == <<uart, out, port, client, past>>

NoTelnet == [carry |-> <<>>, in_subneg |-> FALSE, after_cr |-> FALSE]

Init ==
  /\ uart = [rx |-> <<>>, loop |-> FALSE]
  /\ out = [queue |-> <<>>, sending |-> <<>>]
  /\ \E raw \in BOOLEAN :
       port = [raw |-> raw, at |-> "accept", stage |-> <<>>, telnet |-> NoTelnet]
  /\ client = [there |-> FALSE, wire |-> <<>>, items |-> 0, number |-> 0]
  /\ \E m \in Bounds :
       past = [max |-> m, sent |-> 0, written |-> <<>>, lost |-> {}, got |-> <<>>,
               items |-> <<>>, taken |-> <<>>, loops |-> 0]

-----------------------------------------------------------------------------
(* The processor. *)

\* What the client must be sent for the n-th character: 0xff is doubled.
Escaped(n, ff) == IF ff /\ ~port.raw THEN << <<n, 1>>, <<n, 2>> >> ELSE << <<n, 1>> >>

\* write: the queue keeps its newest bytes, three quarters of its limit.
Excess(q) == IF Len(q) > QueueMax THEN Len(q) - (QueueMax * 3) \div 4 ELSE 0

\* A character to THR, outside loopback.
Transmit(ff) ==
  /\ past.sent < past.max.out /\ ~uart.loop
  /\ LET bytes == Escaped(past.sent + 1, ff)
         q == out.queue \o bytes
     IN  /\ out' = [out EXCEPT !.queue = SubSeq(q, Excess(q) + 1, Len(q))]
         /\ past' = [past EXCEPT !.sent = @ + 1, !.written = @ \o bytes,
                                 !.lost = @ \cup {q[i] : i \in 1 .. Excess(q)}]
  /\ UNCHANGED <<uart, port, client>>

\* push_rx: bytes s into the FIFO, as many as fit.
Fits(s) == SubSeq(s, 1, IF Len(s) < FifoMax - Len(uart.rx) THEN Len(s) ELSE FifoMax - Len(uart.rx))

\* A driver's loopback test: the byte comes back, and none from the line.
LoopOn ==
  /\ ~uart.loop /\ past.loops < past.max.loops
  /\ uart' = [uart EXCEPT !.loop = TRUE]
  /\ past' = [past EXCEPT !.loops = @ + 1]
  /\ UNCHANGED <<out, port, client>>

LoopWrite ==
  /\ uart.loop /\ Fits(<<"loop">>) # <<>>
  /\ uart' = [uart EXCEPT !.rx = @ \o <<"loop">>]
  /\ UNCHANGED <<out, port, client, past>>

LoopOff ==
  /\ uart.loop
  /\ uart' = [uart EXCEPT !.loop = FALSE]
  /\ UNCHANGED <<out, port, client, past>>

\* RBR: the oldest character.
ReadChar ==
  /\ uart.rx # <<>>
  /\ uart' = [uart EXCEPT !.rx = Tail(@)]
  /\ UNCHANGED <<out, port, client, past>>

-----------------------------------------------------------------------------
(* The client. *)

Types(item) ==
  /\ client.there /\ client.items < past.max.items
  /\ client' = [client EXCEPT !.wire = @ \o item, !.items = @ + 1]
  /\ past' = [past EXCEPT !.items = Append(@, item)]
  /\ UNCHANGED <<uart, out, port>>

Leaves ==
  /\ client.there
  /\ client' = [client EXCEPT !.there = FALSE]
  /\ UNCHANGED <<uart, out, port, past>>

-----------------------------------------------------------------------------
(* The port's thread. *)

\* WaitForConnection: a new client starts with clean telnet state, and its
\* greeting goes first.
Accept ==
  /\ port.at = "accept" /\ client.number < past.max.clients
  /\ client' = [there |-> TRUE, wire |-> <<>>, items |-> 0, number |-> client.number + 1]
  /\ port' = [port EXCEPT !.at = "send", !.stage = <<>>, !.telnet = NoTelnet]
  /\ out' = [out EXCEPT !.queue = (IF port.raw THEN <<>> ELSE << <<0, 1>> >>) \o @]
  /\ past' = [past EXCEPT !.items = <<>>, !.taken = <<>>]
  /\ UNCHANGED uart

\* send_output: what is sent has gone: the queue is taken.
Swap ==
  /\ port.at = "send" /\ out.sending = <<>>
  /\ out' = [queue |-> <<>>, sending |-> out.queue]
  /\ port' = [port EXCEPT !.at = IF out.queue = <<>> THEN "drain" ELSE @]
  /\ UNCHANGED <<uart, client, past>>

\* The socket takes n bytes.
Send(n) ==
  /\ port.at = "send" /\ n \in 1 .. Len(out.sending)
  /\ out' = [out EXCEPT !.sending = SubSeq(@, n + 1, Len(@))]
  /\ past' = [past EXCEPT !.got = @ \o SubSeq(out.sending, 1, n)]
  /\ UNCHANGED <<uart, port, client>>

\* The socket is full, or its peer is gone: the receive side goes on.
SendStops ==
  /\ port.at = "send" /\ out.sending # <<>>
  /\ port' = [port EXCEPT !.at = "drain"]
  /\ UNCHANGED <<uart, out, client, past>>

\* drain_staging: a typed character once the one before has been read; all
\* that fits for a debugger.  In loopback the line is disconnected.
Drained ==
  IF uart.loop \/ (~port.raw /\ uart.rx # <<>>) THEN <<>>
  ELSE Fits(IF port.raw THEN port.stage ELSE SubSeq(port.stage, 1, 1))

Drain ==
  /\ port.at = "drain" /\ port.stage # <<>>
  /\ uart' = [uart EXCEPT !.rx = @ \o Drained]
  /\ port' = [port EXCEPT !.at = "read", !.stage = SubSeq(@, Len(Drained) + 1, Len(@))]
  /\ past' = [past EXCEPT !.taken = @ \o Drained]
  /\ UNCHANGED <<out, client>>

DrainNothing ==
  /\ port.at = "drain" /\ port.stage = <<>>
  /\ port' = [port EXCEPT !.at = "read"]
  /\ UNCHANGED <<uart, out, client, past>>

\* execute's scan of the bytes b, with the telnet state t: the characters
\* found and the state left.  A sequence cut by the end of b is carried.
RECURSIVE Cook(_, _)
Cook(b, t) ==
  LET IAC == b[1] = "IAC"
      keep == [cooked |-> <<>>, telnet |-> [t EXCEPT !.carry = b]]
      skip(n, u) == Cook(SubSeq(b, n + 1, Len(b)), u)
      give(c, n, u) == LET r == skip(n, u) IN [r EXCEPT !.cooked = <<c>> \o @]
  IN  CASE b = <<>> -> [cooked |-> <<>>, telnet |-> [t EXCEPT !.carry = <<>>]]
        [] b # <<>> /\ t.in_subneg /\ ~IAC -> skip(1, t)
        [] b # <<>> /\ IAC /\ Len(b) = 1 -> keep
        [] Len(b) > 1 /\ t.in_subneg /\ IAC -> skip(2, [t EXCEPT !.in_subneg = b[2] # "SE"])
        [] Len(b) > 1 /\ ~t.in_subneg /\ IAC /\ b[2] = "IAC" -> give("ff", 2, [t EXCEPT !.after_cr = FALSE])
        [] Len(b) > 1 /\ ~t.in_subneg /\ IAC /\ b[2] = "WILL" -> IF Len(b) < 3 THEN keep ELSE skip(3, t)
        [] Len(b) > 1 /\ ~t.in_subneg /\ IAC /\ b[2] = "SB" -> skip(2, [t EXCEPT !.in_subneg = TRUE])
        [] Len(b) > 1 /\ ~t.in_subneg /\ IAC /\ b[2] \notin {"IAC", "WILL", "SB"} -> skip(2, t)
        [] b # <<>> /\ ~t.in_subneg /\ ~IAC /\ b[1] = "nul" /\ t.after_cr -> skip(1, [t EXCEPT !.after_cr = FALSE])
        [] b # <<>> /\ ~t.in_subneg /\ ~IAC /\ ~(b[1] = "nul" /\ t.after_cr) ->
             give(b[1], 1, [t EXCEPT !.after_cr = b[1] = "cr"])

\* The bytes of a read, behind the carry of the one before.
Cooked(b) == Cook(port.telnet.carry \o b, port.telnet)

\* A read of the socket, with nothing staged: n bytes, cooked unless raw.
Receive(n) ==
  /\ port.at = "read" /\ port.stage = <<>> /\ n \in 1 .. Len(client.wire)
  /\ LET b == SubSeq(client.wire, 1, n)
     IN  /\ client' = [client EXCEPT !.wire = SubSeq(@, n + 1, Len(@))]
         /\ IF port.raw
            THEN port' = [port EXCEPT !.at = "drainraw", !.stage = b]
            ELSE port' = [port EXCEPT !.at = "send", !.stage = Cooked(b).cooked,
                                      !.telnet = Cooked(b).telnet]
  /\ UNCHANGED <<uart, out, past>>

\* A debugger's bytes are drained at once.
DrainRaw ==
  /\ port.at = "drainraw"
  /\ uart' = [uart EXCEPT !.rx = @ \o Drained]
  /\ port' = [port EXCEPT !.at = "send", !.stage = SubSeq(@, Len(Drained) + 1, Len(@))]
  /\ past' = [past EXCEPT !.taken = @ \o Drained]
  /\ UNCHANGED <<out, client>>

\* Something staged, nothing to read, or not the tick for it.
NoRead ==
  /\ port.at = "read"
  /\ port' = [port EXCEPT !.at = "send"]
  /\ UNCHANGED <<uart, out, client, past>>

\* What the client had not received, given up.
KeepNone == <<>>

\* What the client had not received is kept for the next, ahead of what was
\* printed since.
Kept == IF port.raw THEN <<>> ELSE out.sending \o out.queue

\* drop_client: the socket's other end closed.
DropClient ==
  /\ port.at = "read" /\ port.stage = <<>> /\ ~client.there
  /\ out' = [queue |-> Kept, sending |-> <<>>]
  /\ past' = [past EXCEPT !.lost = IF port.raw THEN @ \cup {(out.sending \o out.queue)[i] :
                                                i \in DOMAIN (out.sending \o out.queue)} ELSE @]
  /\ port' = [port EXCEPT !.at = "accept"]
  /\ UNCHANGED <<uart, client>>

-----------------------------------------------------------------------------
Processor == (\E ff \in BOOLEAN : Transmit(ff)) \/ LoopOn \/ LoopWrite \/ LoopOff \/ ReadChar

Client == (\E item \in Item : Types(item)) \/ Leaves

Port ==
  \/ Accept \/ Swap \/ SendStops \/ Drain \/ DrainNothing \/ DrainRaw \/ NoRead \/ DropClient
  \/ \E n \in 1 .. Len(out.sending) : Send(n)
  \/ \E n \in 1 .. Len(client.wire) : Receive(n)

Next == Processor \/ Client \/ Port

Spec == Init /\ [][Next]_serialVars

-----------------------------------------------------------------------------
\* What an item is to the guest: a command is nothing, an escape its byte.
Meaning(item) ==
  CASE item = <<"IAC", "IAC">> -> <<"ff">>
    [] item = <<"cr", "nul">> -> <<"cr">>
    [] item[1] # "IAC" /\ item # <<"cr", "nul">> -> item
    [] item[1] = "IAC" /\ item # <<"IAC", "IAC">> -> <<>>

\* The console loses nothing and makes nothing up.  What clients have been
\* sent, with what is queued, is what the guest wrote in order, except the
\* oldest bytes a full queue gave up (write, send_output, drop_client).  And
\* what has been staged for the guest is what the client meant, however its
\* bytes were cut into reads (execute, drain_staging).
ConsoleKept ==
  /\ SelectSeq(past.written, LAMBDA b : b \notin past.lost)
       = SelectSeq(past.got \o out.sending \o out.queue, LAMBDA b : b[1] # 0)
  /\ LET meant == FlattenSeq([i \in DOMAIN past.items |->
                    IF port.raw THEN past.items[i] ELSE Meaning(past.items[i])])
     IN  /\ IsPrefix(past.taken \o port.stage, meant)
         /\ client.there /\ client.wire = <<>> /\ port.telnet.carry = <<>>
              => past.taken \o port.stage = meant

\* A client never gets half of an escaped byte: unescaped, "the client takes
\* it for the start of a command" (the comment on the UART's output).
EscapesWhole ==
  \A i \in DOMAIN past.got : past.got[i][2] = 2 =>
    i > 1 /\ past.got[i - 1] = <<past.got[i][1], 1>>
=============================================================================
