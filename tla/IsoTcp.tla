-------------------------------- MODULE IsoTcp --------------------------------
(***************************************************************************)
(* ISO on TCP (TIsoTcpSocket, s7_isotcp.cpp) and the loop of the worker    *)
(* that receives with it (TIsoTcpWorker, TS7Worker, s7_server.cpp): the    *)
(* fragments of a telegram are put together in the buffer PDU, which also  *)
(* holds the last answer, and the payload is handed to IsoPerformCommand.  *)
(*                                                                         *)
(* A packet of the client is [type, ok, len, eot]: ok is what CheckPDU     *)
(* finds of the header's own fields, len the length of the data.  The      *)
(* first data unit of a message holds the S7 header, which says its kind:  *)
(*   "job", "userdata"  requests that are answered,                        *)
(*   "silent"           a function that is reported and not answered,      *)
(*   "odd"              a type that is neither a request nor userdata.     *)
(***************************************************************************)
EXTENDS MsgSocket

CONSTANTS
    IsoPayload_Size,        \* units that fit into the payload
    IsoMaxFragments,
    AnswerSize,             \* units of an answer
    Misread,                \* headers that bytes which are none may be taken for
    Kind(_)                 \* of a message

VARIABLES
    header,                 \* header in PDU: [type, ok, len, eot]
    Payload,                \* [Cells -> unit], m = 0 in those of no client
    Offset, pData, NumParts,
    after,                  \* what follows Purge: "peek", "idle", or Purge "again"
    performed,              \* history: payloads handed to a function that answers, and
                            \* whether CheckPDU had passed the PDU
    reports                 \* history: malformed PDUs, unknown functions and groups

iso == <<header, Payload, Offset, pData, NumParts, after, performed, reports>>

\* Three times the payload, for what the sum of the offsets can reach.
Cells == 0 .. 3 * IsoPayload_Size

\* What the worker puts into the buffer: nothing yet (0), the header of an
\* answer to a job (1) or to userdata (2).
Own(n) == [m |-> 0, p |-> n, k |-> 0]
FromClient == Payload[0].m > 0

\* Nothing has been received.
NoHeader == [type |-> "other", ok |-> FALSE, len |-> 1, eot |-> FALSE]

\* What is read as a header need not be one.
HeadersOf(units) == IF IsHeader(units) THEN {script[units[1].m][units[1].p]} ELSE Misread

\* The data of a message, as the diagram "Fragments Recv schema" puts it
\* together (s7_isotcp.cpp:419).
Data(m) ==
    FlattenSeq([p \in DOMAIN script[m] |->
                   [k \in 1 .. Size(m, p) |-> [m |-> m, p |-> p, k |-> k]]])

Total(m) == Len(Data(m))

IsoInit ==
    /\ header = NoHeader
    /\ Payload = [c \in Cells |-> Own(0)]
    /\ Offset = 0 /\ pData = 0 /\ NumParts = 1
    /\ after = "idle"
    /\ performed = <<>>
    /\ reports = 0

-----------------------------------------------------------------------------
(* isoRecvPDU *)

\* ExecuteRecv: CanRead, and isoRecvPDU begins.
ExecuteRecv ==
    /\ pc = "idle" /\ CanRead
    /\ Offset' = 0 /\ pData' = 0 /\ NumParts' = 1
    /\ Jump("fragment")
    /\ UNCHANGED <<header, Payload, after, performed, reports>>

\* Defect: the offset counts twice.
NextFragmentTwice ==
    /\ pc = "fragment"
    /\ pData' = pData + 2 * Offset
    /\ IF Offset < IsoPayload_Size
       THEN WaitForData("header", "reset") /\ UNCHANGED after
       ELSE Jump("purge") /\ after' = "peek"
    /\ UNCHANGED <<header, Payload, Offset, NumParts, performed, reports>>

\* The loop: pData=pData+Offset, and the next fragment if there is room.
NextFragment ==
    /\ pc = "fragment"
    /\ pData' = pData + Offset
    /\ IF Offset < IsoPayload_Size
       THEN WaitForData("header", "reset") /\ UNCHANGED after
       ELSE Jump("purge") /\ after' = "peek"
    /\ UNCHANGED <<header, Payload, Offset, NumParts, performed, reports>>

\* The lengths in the header, and the type, which isoRecvFragment takes from it.
CheckPDU(h) == h.ok

\* Where a header leads to: an error, the end of the fragment, or its data.
AfterHeader(h) ==
    IF h.type \notin {"CR", "DR", "DT"} \/ ~CheckPDU(h) THEN "refuse"
    ELSE IF h.len <= 0 THEN "received"
    ELSE IF h.len > IsoPayload_Size - Offset THEN "refuse"
    ELSE "data"

isoRecvHeader ==
    /\ pc = "header" /\ Len(stream) >= HeaderSize
    /\ \E h \in HeadersOf(SubSeq(stream, 1, HeaderSize)) :
          LET next == AfterHeader(h)
          IN  /\ RecvPacket(HeaderSize,
                    IF next = "data" THEN "wait" ELSE IF next = "refuse" THEN "purge" ELSE next)
              /\ header' = h
              /\ after' = IF next = "refuse" THEN "peek" ELSE after
    /\ UNCHANGED <<Payload, Offset, pData, NumParts, performed, reports>>

\* The second RecvPacket of isoRecvFragment.
isoWaitData ==
    /\ pc = "wait"
    /\ WaitForData("data", "reset")
    /\ UNCHANGED iso

isoRecvData ==
    /\ pc = "data"
    /\ RecvPacket(header.len, "received")
    /\ Payload' = [c \in Cells |-> IF c \in pData .. pData + header.len - 1
                                   THEN stream[c - pData + 1] ELSE Payload[c]]
    /\ UNCHANGED <<header, Offset, pData, NumParts, after, performed, reports>>

\* Purge of RecvPacket, then Purge of isoRecvPDU.
isoTimeout ==
    /\ pc \in {"header", "data"}
    /\ RecvTimeout(IF pc = "header" THEN HeaderSize ELSE header.len, "purge", pc = "data" \/ NumParts > 1)
    /\ after' = "again"
    /\ UNCHANGED <<header, Payload, Offset, pData, NumParts, performed, reports>>

Complete == header.type # "DT" \/ header.eot

\* A fragment is in: the telegram is complete and gets a header with the size
\* of the whole, or the loop goes on, at most IsoMaxFragments times.
FragmentReceived ==
    /\ pc = "received"
    /\ IF Complete
       THEN /\ header' = [header EXCEPT !.len = Offset + @]
            /\ Jump("peek")
            /\ UNCHANGED <<Offset, NumParts, after>>
       ELSE /\ NumParts' = NumParts + 1
            /\ Offset' = Offset + header.len
            /\ IF NumParts + 1 > IsoMaxFragments
               THEN Jump("purge") /\ after' = "peek"
               ELSE Jump("fragment") /\ UNCHANGED after
            /\ UNCHANGED header
    /\ UNCHANGED <<Payload, pData, performed, reports>>

\* A PDU that was refused without an error of the socket goes on to IsoPeek
\* like one that was received.
AfterPurge == IF after = "again" THEN "purge" ELSE after

PurgeStep ==
    /\ \/ pc = "purge" /\ Purge("drain", AfterPurge)
       \/ pc = "drain" /\ Drain("drain", AfterPurge)
    /\ after' = IF after = "again" /\ pc' = "purge" THEN "idle" ELSE after
    /\ UNCHANGED <<header, Payload, Offset, pData, NumParts, performed, reports>>

-----------------------------------------------------------------------------
(* IsoPeek and IsoPerformCommand *)

PduKind ==
    IF header.len = 0 THEN "empty"
    ELSE IF header.len < 0 THEN "invalid"
    ELSE CASE header.type = "CR" -> "connect"
           [] header.type = "DR" -> "disconnect"
           [] header.type = "DT" -> "data"
           [] OTHER -> "unrecognized"

\* The type and the length that the S7 header at the start of the payload
\* gives, the header of the worker's own last answer included.
S7Header ==
    IF Payload[0] = Own(2) THEN [kind |-> "userdata", size |-> AnswerSize]
    ELSE IF FromClient /\ Payload[0].p = 1 /\ Payload[0].k = 1
         THEN [kind |-> Kind(script[Payload[0].m]), size |-> Total(Payload[0].m)]
    ELSE [kind |-> "odd", size |-> 0]

\* CheckPDU_in
Consistent == S7Header.size = header.len /\ S7Header.kind \in {"job", "userdata", "silent"}

\* The confirmation is sent from PDU itself, whose payload stays.
IsoConfirmConnection(next) ==
    /\ header' = [header EXCEPT !.type = IF @ = "CR" THEN "CC" ELSE "DC"]
    /\ SendPacket(next, "reset")
    /\ UNCHANGED <<Payload, Offset, pData, NumParts, after, performed, reports>>

Control ==
    /\ pc = "peek"
    /\ \/ PduKind = "connect" /\ IsoConfirmConnection("idle")
       \/ PduKind = "disconnect" /\ IsoConfirmConnection("reset")
       \/ PduKind \in {"empty", "unrecognized"} /\ Jump("idle") /\ UNCHANGED iso

\* "Here we have an Invalid PDU".
InvalidPDU ==
    /\ pc = "peek" /\ PduKind = "invalid"
    /\ Jump("purge")
    /\ after' = "idle"
    /\ UNCHANGED <<header, Payload, Offset, pData, NumParts, performed, reports>>

\* Not consistent, or nothing in the code handles it.
Report ==
    /\ pc = "peek" /\ PduKind = "data"
    /\ ~Consistent \/ S7Header.kind = "silent" \/ ~FromClient
    /\ reports' = reports + 1
    /\ Jump(IF Consistent THEN "idle" ELSE "reset")
    /\ UNCHANGED <<header, Payload, Offset, pData, NumParts, after, performed>>

\* Defect: the answer is built somewhere else than in PDU.
PerformKeeping ==
    /\ pc = "peek" /\ PduKind = "data"
    /\ Consistent /\ S7Header.kind # "silent" /\ FromClient
    /\ performed' = Append(performed, [data |-> [c \in 1 .. header.len |-> Payload[c - 1]], ok |-> header.ok])
    /\ Jump("idle")
    /\ UNCHANGED <<header, Payload, Offset, pData, NumParts, after, reports>>

\* A function is performed; isoSendBuffer puts its answer into PDU.  Whether
\* that could be sent is not looked at.
IsoPerformCommand ==
    /\ pc = "peek" /\ PduKind = "data"
    /\ Consistent /\ S7Header.kind # "silent" /\ FromClient
    /\ performed' = Append(performed, [data |-> [c \in 1 .. header.len |-> Payload[c - 1]], ok |-> header.ok])
    /\ Payload' = [Payload EXCEPT ![0] = Own(IF S7Header.kind = "userdata" THEN 2 ELSE 1)]
    /\ SendPacket("idle", "idle")
    /\ UNCHANGED <<header, Offset, pData, NumParts, after, reports>>

IsoStep ==
    \/ ExecuteRecv
    \/ NextFragment
    \/ isoRecvHeader
    \/ isoWaitData
    \/ isoRecvData
    \/ isoTimeout
    \/ FragmentReceived
    \/ PurgeStep
    \/ DestroySocket /\ UNCHANGED iso
    \/ Control
    \/ InvalidPDU
    \/ Report
    \/ IsoPerformCommand
=============================================================================
