------------------------------ MODULE ModbusTcp ------------------------------
(***************************************************************************)
(* The worker of the Modbus server as a reader of its stream               *)
(* (TModbusTcpWorker, modbus_server.cpp): the MBAP header, the test of its *)
(* length, the body, and an answer, an exception or neither.  What the     *)
(* functions do to the areas is in AreaAccess.                             *)
(*                                                                         *)
(* A message of the client is one packet [proto, fun, claimed, len, value]:*)
(* len units of body, of which the header's length claims claimed, and     *)
(* value, which says what the tests of the function find.                  *)
(***************************************************************************)
EXTENDS MsgSocket

VARIABLES
    mbap,               \* MbapHeader: the packet it was sent with, and its message
    body,               \* the request that was read
    replies             \* history: [m, reply] handed to SendPacket, m = 0 for a header that was none

modbus == <<mbap, body, replies>>

\* Every request has one unit of body, requests that write several values one
\* more, whose number (ByteCount) the first unit gives.
RequestSize == 1
Multiple(fun) == fun = "write multiple"
Body(packet) == RequestSize + (IF Multiple(packet.fun) THEN 1 ELSE 0)

\* What a well-formed message of the protocol is: its header claims its body.
Conforming(packet) == packet.proto /\ packet.claimed = packet.len /\ packet.len = Body(packet)

Headers == {"proto", "short", "unknown", "read", "write multiple", "encapsulated"}

\* Bytes that are no header can be any.
Garbage(kind) ==
    [proto |-> kind # "proto", fun |-> kind, value |-> "ok", len |-> 0,
     claimed |-> IF kind = "short" THEN -1 ELSE RequestSize]

\* A request that could not be read keeps the bytes its place on the stack had.
Values == {"ok", "refused", "exception"}

ModbusInit ==
    /\ mbap = [packet |-> Garbage("unknown"), m |-> 0]
    /\ body = "ok"
    /\ replies = <<>>

-----------------------------------------------------------------------------
ModbusExecuteRecv ==
    /\ pc = "idle"
    /\ WaitForData("mbap", "reset")
    /\ UNCHANGED modbus

RecvHeader ==
    /\ pc = "mbap"
    /\ RecvPacket(HeaderSize, "check")
    /\ IF IsHeader(SubSeq(stream, 1, HeaderSize))
       THEN LET m == stream[1].m IN mbap' = [packet |-> script[m][1], m |-> m]
       ELSE \E kind \in Headers : mbap' = [packet |-> Garbage(kind), m |-> 0]
    /\ UNCHANGED <<body, replies>>

Reply(reply, label) ==
    /\ replies' = Append(replies, [m |-> mbap.m, reply |-> reply])
    /\ SendPacket(label, label)
    /\ UNCHANGED <<mbap, body>>

\* CheckMbapHeader fails: the exception is sent and the connection closed.
RefuseHeader ==
    /\ pc = "check"
    /\ ~mbap.packet.proto \/ mbap.packet.claimed < 0
    /\ Reply("exception", "reset")

Accepted == pc = "check" /\ mbap.packet.proto /\ mbap.packet.claimed >= 0

\* The default of PerformFunction: its body is left in the stream.
UnknownFunction ==
    /\ Accepted /\ mbap.packet.fun = "unknown"
    /\ Reply("exception", "idle")

\* Defect: a request of the wrong size is refused, and the connection stays.
KeepWrongSize ==
    /\ Accepted /\ mbap.packet.fun # "unknown" /\ mbap.packet.claimed # RequestSize
    /\ Jump("idle")
    /\ UNCHANGED modbus

\* evrWrongSizeData: SetModbusError sends nothing, and the connection is closed.
WrongSize ==
    /\ Accepted /\ mbap.packet.fun # "unknown" /\ mbap.packet.claimed # RequestSize
    /\ Jump("reset")
    /\ UNCHANGED modbus

BeginBody ==
    /\ Accepted /\ mbap.packet.fun # "unknown" /\ mbap.packet.claimed = RequestSize
    /\ WaitForData("body", "unread")
    /\ UNCHANGED modbus

AfterBody == IF Multiple(mbap.packet.fun) THEN "multiple" ELSE "perform"

RecvBody ==
    /\ pc = "body"
    /\ RecvPacket(RequestSize, AfterBody)
    /\ body' \in IF stream[1].k > 0 THEN {script[stream[1].m][1].value} ELSE Values
    /\ UNCHANGED <<mbap, replies>>

\* The result of RecvPacket is not looked at.
Unread ==
    /\ pc = "unread"
    /\ body' \in Values
    /\ Jump(AfterBody)
    /\ UNCHANGED <<mbap, replies>>

BeginMultiple ==
    /\ pc = "multiple"
    /\ WaitForData("data", "perform")
    /\ UNCHANGED modbus

RecvMultiple ==
    /\ pc = "data"
    /\ RecvPacket(1, "perform")
    /\ UNCHANGED modbus

\* Where Purge begins, and where it reads, when the call at a label was too long.
PurgeOf(at) == CASE at = "mbap" -> "mbap purge" [] at = "body" -> "body purge" [] at = "data" -> "data purge"
DrainOf(at) == CASE at = "mbap" -> "mbap drain" [] at = "body" -> "body drain" [] at = "data" -> "data drain"

Wanted == IF pc = "mbap" THEN HeaderSize ELSE 1

ModbusTimeout ==
    /\ pc \in {"mbap", "body", "data"}
    /\ RecvTimeout(Wanted, PurgeOf(pc), pc # "mbap")
    /\ UNCHANGED modbus

\* Purge of RecvPacket, after each of its calls.
ModbusPurge ==
    /\ \E at \in {"mbap", "body", "data"} :
          LET done == CASE at = "mbap" -> "idle" [] at = "body" -> "unread" [] at = "data" -> "perform"
          IN  \/ pc = PurgeOf(at) /\ Purge(DrainOf(at), done)
              \/ pc = DrainOf(at) /\ Drain(DrainOf(at), done)
    /\ UNCHANGED modbus

\* The function: an answer, an exception (of DeviceId), or, when the values are
\* out of range, SetModbusError and no answer.
Perform ==
    /\ pc = "perform"
    /\ IF body = "refused"
       THEN Jump("idle") /\ UNCHANGED modbus
       ELSE Reply(body, "idle")

ModbusStep ==
    \/ ModbusExecuteRecv
    \/ RecvHeader
    \/ RefuseHeader
    \/ UnknownFunction
    \/ WrongSize
    \/ BeginBody
    \/ RecvBody
    \/ Unread
    \/ BeginMultiple
    \/ RecvMultiple
    \/ ModbusTimeout
    \/ ModbusPurge
    \/ Perform
    \/ DestroySocket /\ UNCHANGED modbus
=============================================================================
