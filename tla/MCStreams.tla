------------------------------ MODULE MCStreams ------------------------------
(* Clients for TLC: every sequence of at most Most of the messages below. *)
EXTENDS Streams

CONSTANTS MostIso, MostModbus, Fragments

Packet(type, ok, len, eot) == [type |-> type, ok |-> ok, len |-> len, eot |-> eot]
DT(len) == Packet("DT", TRUE, len, TRUE)
Part(len) == Packet("DT", TRUE, len, FALSE)

Split == << <<Part(1), DT(1)>>, <<Part(1), Part(1), DT(1)>> >>

\* One and several fragments, an empty one, control PDUs, a header of another
\* type, a bad one, a short one, too many fragments and too much data.
IsoMessages ==
    {<<DT(1)>>, <<DT(2)>>, <<DT(0)>>, <<DT(3)>>, Split[Fragments],
     <<Packet("CR", TRUE, 1, FALSE)>>, <<Packet("DR", TRUE, 1, FALSE)>>,
     <<Packet("other", TRUE, 1, TRUE)>>, <<Packet("DT", FALSE, 1, TRUE)>>, <<Packet("DT", FALSE, 2, TRUE)>>,
     <<Packet("DT", FALSE, -1, TRUE)>>,
     <<Part(1), Part(0), Part(1)>>, <<Part(2), DT(3)>>}

\* Bytes that are no header may look like each of these.
MisreadDef == {DT(1), Part(1), Packet("DT", FALSE, 1, TRUE)}

\* The kind of a message goes by its size.
KindDef(message) ==
    LET total == FoldSeq(LAMBDA packet, n : packet.len + n, 0, message)
    IN  IF message[1].len <= 0 \/ message[1].type # "DT" THEN "odd"
        ELSE IF total = 1 THEN "userdata" ELSE IF total = 3 /\ Len(message) = 1 THEN "silent" ELSE "job"

Modbus(proto, fun, claimed, len, value) ==
    [proto |-> proto, fun |-> fun, claimed |-> claimed, len |-> len, value |-> value]

\* Conforming reads and writes, values out of range, a body the code does not
\* expect, an unknown function, other protocols and short lengths.
ModbusMessages ==
    {<<Modbus(TRUE, "read", 1, 1, "ok")>>, <<Modbus(TRUE, "read", 1, 1, "refused")>>,
     <<Modbus(TRUE, "write multiple", 2, 2, "ok")>>, <<Modbus(TRUE, "write multiple", 1, 2, "ok")>>,
     <<Modbus(TRUE, "encapsulated", 1, 1, "exception")>>,
     <<Modbus(TRUE, "unknown", 1, 1, "ok")>>, <<Modbus(FALSE, "read", 1, 1, "ok")>>,
     <<Modbus(TRUE, "read", -1, 0, "ok")>>}

IsoScriptsDef == SeqOf(IsoMessages, MostIso)
ModbusScriptsDef == SeqOf(ModbusMessages, MostModbus)
=============================================================================
