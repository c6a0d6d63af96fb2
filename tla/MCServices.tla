------------------------------ MODULE MCServices ------------------------------
(* Clients for TLC: two connections from one host, one from another. *)
EXTENDS S7Services

CONSTANTS w1, w2, w3

WorkersDef == {w1, w2, w3}
HostDef == [w \in WorkersDef |-> IF w = w3 THEN "B" ELSE "A"]

\* One list of several packets; of the others one goes by its id, one by its
\* index too, and two are not there.
DataBankDef == {"0019", "001C"}
IndexedDataDef == {[ID |-> "0111", Index |-> 1]}
ListsDef == {[ID |-> "001C", Index |-> 0], [ID |-> "0019", Index |-> 7],
             [ID |-> "0111", Index |-> 1], [ID |-> "0111", Index |-> 5], [ID |-> "0F99", Index |-> 0]}
PacketsDef(l) == IF l.ID = "001C" THEN 3 ELSE 1

MixesDef ==
    {[workers |-> {w1, w2}, groups |-> {"lists"}, full |-> TRUE, memory |-> "stop"],
     [workers |-> {w1, w2, w3}, groups |-> {"jobs"}, full |-> TRUE, memory |-> "stop"],
     [workers |-> {w1, w2}, groups |-> {"control"}, full |-> FALSE, memory |-> "stop"],
     [workers |-> {w1}, groups |-> {"control", "status"}, full |-> FALSE, memory |-> "stop"],
     [workers |-> {w1}, groups |-> {"control", "status"}, full |-> FALSE, memory |-> "run"],
     [workers |-> {w1, w2}, groups |-> {"stateless"}, full |-> FALSE, memory |-> "stop"]}

\* One client that reads lists, with the counters of the program.
OneReader == {[workers |-> {w1}, groups |-> {"lists"}, full |-> TRUE, memory |-> "stop"]}
=============================================================================
