------------------------------ MODULE MsgSocket ------------------------------
(***************************************************************************)
(* The receiving side of one connection (TMsgSocket, snap_msgsock.cpp): a  *)
(* stream of bytes that arrives piece by piece, calls that wait for a      *)
(* number of them with a timeout, and Purge, which throws away what has    *)
(* arrived.  IsoTcp and ModbusTcp are the two users of it.                 *)
(*                                                                         *)
(* Several bytes of the code are one unit here.  A unit names its place in *)
(* what the client sends: message m, packet p of it, and k, where -1 and 0 *)
(* are the two halves of the packet's header and 1, 2 ... its data.        *)
(***************************************************************************)
EXTENDS Integers, Sequences, SequencesExt

CONSTANT TrashSize          \* units that Purge reads at a time

ASSUME TrashAssumption == TrashSize \in Nat \ {0}

VARIABLES
    script,                 \* the messages of this client; never changes
    wire,                   \* units that have not arrived yet
    stream,                 \* units that have arrived and are not read yet
    closed,                 \* the client has closed the connection
    LastTcpError,
    pc,                     \* place of the worker that owns the socket
    clean                   \* history: so far Purge and timeouts have lost nothing

socket == <<script, wire, stream, closed, LastTcpError, pc, clean>>

HeaderSize == 2

Size(m, p) == IF script[m][p].len > 0 THEN script[m][p].len ELSE 0

\* The units of message m: of each packet, the header and then the data.
Units(m) ==
    LET packet(p) == [k \in 1 .. HeaderSize + Size(m, p) |-> [m |-> m, p |-> p, k |-> k - HeaderSize]]
    IN  FlattenSeq([p \in DOMAIN script[m] |-> packet(p)])

IsHeader(units) == units[1].k = -1 /\ units[2] = [units[1] EXCEPT !.k = 0]

SocketInit(Scripts) ==
    /\ script \in Scripts
    /\ wire = FlattenSeq([m \in DOMAIN script |-> Units(m)])
    /\ stream = <<>>
    /\ closed = FALSE
    /\ LastTcpError = "ok"
    /\ clean = TRUE

-----------------------------------------------------------------------------
(* The network and the client *)

Arrive ==
    /\ wire # <<>>
    /\ stream' = Append(stream, Head(wire))
    /\ wire' = Tail(wire)
    /\ UNCHANGED <<script, closed, LastTcpError, pc, clean>>

\* The client leaves; what it has not sent yet is never sent.
Close ==
    /\ ~closed
    /\ closed' = TRUE
    /\ wire' = <<>>
    /\ UNCHANGED <<script, stream, LastTcpError, pc, clean>>

Environment == Arrive \/ Close

-----------------------------------------------------------------------------
(* The calls of the worker; each one ends at the label it is given *)

CanRead == stream # <<>> \/ closed
Eof == closed /\ stream = <<>>

\* WaitForData looks once whether the connection has ended, and then waits.
WaitForData(wait, reset) ==
    /\ LastTcpError' = IF Eof THEN "reset" ELSE "ok"
    /\ pc' = IF Eof THEN reset ELSE wait
    /\ UNCHANGED <<script, wire, stream, closed, clean>>

\* RecvPacket, when enough has arrived.
RecvPacket(n, label) ==
    /\ Len(stream) >= n
    /\ stream' = SubSeq(stream, n + 1, Len(stream))
    /\ pc' = label
    /\ UNCHANGED <<script, wire, closed, LastTcpError, clean>>

\* RecvPacket, when the time is over first; its Purge is at label.  The part of
\* a message that was read before (begun) is lost.
RecvTimeout(n, label, begun) ==
    /\ Len(stream) < n
    /\ LastTcpError' = "timeout"
    /\ clean' = (clean /\ ~begun)
    /\ pc' = label
    /\ UNCHANGED <<script, wire, stream, closed>>

\* Purge begins: there must be something to read, or recv would wait.
Purge(drain, done) ==
    /\ pc' = IF LastTcpError # "reset" /\ CanRead THEN drain ELSE done
    /\ UNCHANGED <<script, wire, stream, closed, LastTcpError, clean>>

\* One recv of Purge.  After a full buffer there is another, which waits for
\* the client if nothing is left.
Drain(drain, done) ==
    /\ CanRead
    /\ LET read == IF Len(stream) < TrashSize THEN Len(stream) ELSE TrashSize
       IN  /\ stream' = SubSeq(stream, read + 1, Len(stream))
           /\ clean' = (clean /\ read = 0)
           /\ pc' = IF read = TrashSize THEN drain ELSE done
    /\ UNCHANGED <<script, wire, closed, LastTcpError>>

\* CanWrite comes first, with a timeout.  Only the error of a connection that the
\* client has ended makes a difference, and only to a caller that looks at it.
SendPacket(sent, reset) ==
    /\ \/ LastTcpError' \in {"ok", "timeout"} /\ pc' = sent
       \/ closed /\ LastTcpError' = "reset" /\ pc' = reset
    /\ UNCHANGED <<script, wire, stream, closed, clean>>

\* A step of the worker that does not touch the socket.
Jump(label) ==
    /\ pc' = label
    /\ UNCHANGED <<script, wire, stream, closed, LastTcpError, clean>>

\* Defect: the worker of a socket without an error goes on.
DestroyLater ==
    \/ pc = "reset" /\ LastTcpError = "reset" /\ Purge("last drain", "ended")
    \/ pc = "last drain" /\ Drain("last drain", "ended")

\* The worker has left its loop, after WSAECONNRESET or a false from Execute:
\* DestroySocket empties the stream and closes the socket.
DestroySocket ==
    \/ pc = "reset" /\ Purge("last drain", "ended")
    \/ pc = "last drain" /\ Drain("last drain", "ended")
=============================================================================
