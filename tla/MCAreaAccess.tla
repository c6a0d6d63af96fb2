---------------------------- MODULE MCAreaAccess ----------------------------
(* Requests for the runs of AreaAccess. *)
EXTENDS AreaAccess

Item0(area, wl, start, length) ==
    [area |-> area, wl |-> wl, Start |-> start, Length |-> length, sent |-> 0, data |-> {}]
Value(item, sent, byte) == [item EXCEPT !.sent = sent, !.data = byte]
Read(items) == [fun |-> "read", items |-> items]
Write(items) == [fun |-> "write", items |-> items]

MCAreaSize == [MK |-> 3, PA |-> 1, TM |-> 2]

\* A read with items that are refused before and after a good one, a read of
\* a word; a write of a word and a bit, and a write whose items are refused one
\* after the other.
MCS7Requests ==
    {Read(<<Item0("DB9", "byte", 0, 1), Item0("TM", "timer", 0, 1), Item0("MK", "word", 8, 1)>>),
     Read(<<Item0("MK", "word", 0, 1)>>),
     Write(<<Value(Item0("MK", "word", 0, 1), 2, {0}), Value(Item0("MK", "bit", 8, 1), 1, {})>>),
     Write(<<Value(Item0("MK", "byte", 4, 1), 1, {0}), Value(Item0("TM", "byte", 0, 1), 1, {0}),
             Value(Item0("MK", "other", 0, 1), 1, {0}), Value(Item0("PA", "byte", 0, 1), 2, {0})>>)}

MCModbusRequests ==
    {[fun |-> "registers", Offset |-> 0, Length |-> 1, data |-> {0}],
     [fun |-> "register", Offset |-> 1, Length |-> 1, data |-> {}],
     [fun |-> "coils", Offset |-> 0, Length |-> 1, data |-> {0}],
     [fun |-> "read_coils", Offset |-> 0, Length |-> 2, data |-> {}]}

\* Reads of three bytes, one of them in two items.
PduRequestsOfReads ==
    {Read(<<Item0("MK", "byte", 0, 3)>>),
     Read(<<Item0("MK", "byte", 0, 1), Item0("MK", "word", 8, 1)>>)}

NoRequests == {}
=============================================================================
