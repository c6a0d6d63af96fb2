------------------------------- MODULE Streams -------------------------------
(***************************************************************************)
(* One connection of the program, from the bytes its client sends to the   *)
(* requests its worker performs: the worker is the one of the S7 server or *)
(* the one of the Modbus server, each on top of the same TMsgSocket.       *)
(***************************************************************************)
EXTENDS IsoTcp, ModbusTcp

CONSTANTS IsoScripts, ModbusScripts     \* what clients of each server send

\* CheckPDU refuses what is longer than the payload, or has no length; the S7
\* header is in the first data unit; a message of Modbus is one packet.
ASSUME ScriptsAssumption ==
    /\ IsoPayload_Size \in Nat \ {0} /\ IsoMaxFragments \in Nat \ {0} /\ AnswerSize \in Nat
    /\ IsoScripts \subseteq
          Seq(Seq([type : {"CR", "DR", "DT", "other"}, ok : BOOLEAN, len : Int, eot : BOOLEAN]) \ {<<>>})
    /\ \A s \in IsoScripts : \A m \in DOMAIN s :
          /\ \A p \in DOMAIN s[m] : s[m][p].ok => s[m][p].len \in 0 .. IsoPayload_Size
          /\ Kind(s[m]) \in {"job", "userdata", "silent"} =>
                s[m][1].type = "DT" /\ s[m][1].len > 0
    /\ Misread \subseteq [type : {"CR", "DR", "DT", "other"}, ok : BOOLEAN, len : Int, eot : BOOLEAN]
    /\ \A h \in Misread : h.ok => h.len \in 0 .. IsoPayload_Size
    /\ ModbusScripts \subseteq
          Seq(Seq([proto : BOOLEAN, fun : Headers \ {"proto", "short"}, claimed : Int, len : Nat, value : Values]))
    /\ \A s \in ModbusScripts : \A m \in DOMAIN s : Len(s[m]) = 1

VARIABLE server                         \* "s7" or "modbus"

vars == <<server, socket, iso, modbus>>

Init ==
    /\ server \in {"s7", "modbus"}
    /\ SocketInit(IF server = "s7" THEN IsoScripts ELSE ModbusScripts)
    /\ pc = "idle"
    /\ IsoInit
    /\ ModbusInit

Worker ==
    \/ server = "s7" /\ IsoStep /\ UNCHANGED <<server, modbus>>
    \/ server = "modbus" /\ ModbusStep /\ UNCHANGED <<server, iso>>

Next ==
    \/ Worker
    \/ Environment /\ UNCHANGED <<server, iso, modbus>>

\* The worker's thread runs, and its timeouts pass.
FairSpec == Init /\ [][Next]_vars /\ WF_vars(Worker)

-----------------------------------------------------------------------------
(* Properties *)

\* What is not read yet, and the messages of which something has been.
Ahead == stream \o wire
AtStart == Ahead = <<>> \/ (Ahead[1].k = -1 /\ Ahead[1].p = 1)
Handled == IF Ahead = <<>> THEN Len(script) ELSE IF AtStart THEN Ahead[1].m - 1 ELSE Ahead[1].m

\* A connection request, or data that isoRecvPDU has room for: a last fragment
\* without data would find none behind others that fill the payload.
Valid(m) ==
    LET last == Len(script[m])
    IN  /\ \A p \in DOMAIN script[m] : script[m][p].ok
        /\ \/ last = 1 /\ script[m][1].type = "CR"
           \/ /\ last <= IsoMaxFragments /\ Total(m) <= IsoPayload_Size
              /\ last > 1 => script[m][last].len > 0
              /\ \A p \in DOMAIN script[m] :
                    script[m][p].type = "DT" /\ script[m][p].eot = (p = last)

Ids == [k \in DOMAIN performed |-> performed[k].data[1].m]

\* A function is handed the data of one message that the client sent, all of
\* it and in its order, whatever was refused, lost or cut short before.  Only a
\* PDU that CheckPDU refuses, and IsoPeek then takes for data, may find part of
\* an older message in the buffer.
Whole == \A k \in DOMAIN performed : performed[k].ok => performed[k].data = Data(Ids[k])

\* No request is performed or answered twice, and none before an earlier one:
\* not even when the buffer still holds one and what follows it is refused.
InOrder ==
    /\ \A k, l \in DOMAIN performed : k < l => Ids[k] < Ids[l]
    /\ \A k, l \in DOMAIN replies :
          k < l /\ 0 \notin {replies[k].m, replies[l].m} => replies[k].m < replies[l].m

\* As long as no timeout and no refusal came in between, requests may come in
\* pieces or several at once: when the worker is back at the start of its loop
\* the stream is at the start of a message, and every request before it has
\* been performed or answered.
NothingLost ==
    pc = "idle" /\ clean /\ ~closed =>
        /\ server = "s7" /\ (\A m \in 1 .. Handled : Valid(m)) =>
              /\ AtStart
              /\ Range(Ids) = {m \in 1 .. Handled : Kind(script[m]) \in {"job", "userdata"}}
        /\ server = "modbus" /\ (\A m \in 1 .. Handled : Conforming(script[m][1]) /\ script[m][1].fun # "unknown") =>
              /\ AtStart
              /\ {r.m : r \in Range(replies)} = {m \in 1 .. Handled : script[m][1].value # "refused"}

\* Messages whose body is not what the code reads behind their header: the
\* default of PerformFunction reads none, a function the length of its structure.
LeavesRest(packet) ==
    \/ packet.fun = "unknown" /\ packet.len > 0
    \/ packet.claimed = RequestSize /\ packet.len # Body(packet)

\* A request that is refused before its body is read does not make the worker
\* answer the body: while no timeout came in between, what it answers are
\* messages, but behind an unknown function or one whose length is not what its
\* header says.
AnswersBelong ==
    server = "modbus" /\ clean /\ (\A m \in 1 .. Handled : ~LeavesRest(script[m][1])) =>
        \A r \in Range(replies) : r.m > 0

\* When its client has closed the connection the worker ends, whatever it is
\* waiting for: half a header, the data of a fragment, or in Purge.
Ends == closed ~> pc = "ended"
=============================================================================
