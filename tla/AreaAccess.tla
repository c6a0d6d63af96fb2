----------------------------- MODULE AreaAccess -----------------------------
(***************************************************************************)
(* The areas of the PLC (plc_device.cpp) and the workers that read and     *)
(* write them at the same time: TS7Worker (s7_server.cpp), which takes the *)
(* area's critical section to copy bytes, and not to write a bit, and      *)
(* TModbusTcpWorker (modbus_server.cpp), which never takes it.             *)
(*                                                                         *)
(* Memory is copied byte by byte.  A byte is the set of its bits.          *)
(***************************************************************************)
EXTENDS Naturals, Integers, Sequences, FiniteSets, FiniteSetsExt

CONSTANTS
    S7Workers, ModbusWorkers,
    AreaSize,           \* [areas -> bytes]; a name outside is an unknown area
    S7Requests,         \* the requests clients may send
    ModbusRequests,
    PduRequests,        \* the PDU lengths they may ask for
    MinPduSize, IsoPayload_Size,
    DefaultPDULength,   \* before it is negotiated
    None

ASSUME PduAssumption ==
    /\ MinPduSize \in Nat /\ IsoPayload_Size \in Nat
    /\ DefaultPDULength \in MinPduSize .. IsoPayload_Size

ASSUME WorkersAssumption ==
    S7Workers \cap ModbusWorkers = {} /\ None \notin S7Workers \cup ModbusWorkers
ASSUME AreaSizeAssumption == \A a \in DOMAIN AreaSize : AreaSize[a] \in Nat

Workers == S7Workers \cup ModbusWorkers
Areas == DOMAIN AreaSize
Bits == 0 .. 7

VARIABLES
    mem,                \* [Areas -> [0 .. size - 1 -> SUBSET Bits]]
    cs,                 \* [Areas -> worker in the critical section, or None]
    FPDULength,         \* [S7Workers -> negotiated PDU length]
    pc, request, c, i,  \* per worker: place, request, item and byte of it
    PDURemainder,
    data,               \* what a worker has read: byte by byte
    answer, events,     \* return codes answered and reported for the request
    touched             \* history: bytes others stored past the worker's lock

vars == <<mem, cs, FPDULength, pc, request, c, i, PDURemainder, data, answer, events, touched>>

-----------------------------------------------------------------------------
(* Items of S7 requests *)

\* DataSizeByte, 0 for what is not listed.
Multiplier ==
    [wl \in {"bit", "byte", "word", "timer", "counter", "other"} |->
        CASE wl \in {"bit", "byte"} -> 1
          [] wl = "other" -> 0
          [] OTHER -> 2]

IsSequence(s) == s \in Seq({s[k] : k \in DOMAIN s})

ASSUME S7RequestsAssumption ==
    \A r \in S7Requests :
        /\ IsSequence(r.items)
        /\ \A k \in 1 .. Len(r.items) :
              /\ r.items[k].wl \in DOMAIN Multiplier
              /\ r.items[k].Start \in Nat /\ r.items[k].Length \in Nat

Size(item) == Multiplier[item.wl] * item.Length

ByWord(item) == item.wl \in {"timer", "counter"}

\* The first byte, from an address in bits, or the number of a timer.
Start(item) == item.Start \div (IF ByWord(item) THEN 2 ELSE 8)
BitIndex(item) == item.Start % 8

Coherent(item) ==
    /\ (item.area = "TM") = (item.wl = "timer")
    /\ (item.area = "CT") = (item.wl = "counter")

Placed(item) ==
    /\ ~(item.wl = "bit" /\ Size(item) > 1)
    /\ item.wl = "bit" \/ ByWord(item) \/ item.Start % 8 = 0
    /\ Start(item) + Size(item) <= AreaSize[item.area]

\* PDURemainder-Size<=0 compares unsigned values: it holds for 0 only.
OverPdu(remainder, item) == remainder = Size(item)

Sized(item) == item.area \in Areas /\ Multiplier[item.wl] # 0 /\ Coherent(item)

ReadCode(item, remainder) ==
    IF item.area \notin Areas THEN "not found"
    ELSE IF ~Sized(item) THEN "out of range"
    ELSE IF OverPdu(remainder, item) THEN "over PDU"
    ELSE IF ~Placed(item) THEN "out of range"
    ELSE "ok"

WriteCode(item) ==
    IF item.area \notin Areas THEN "not found"
    ELSE IF Multiplier[item.wl] = 0 THEN "transport size"
    ELSE IF ~(Coherent(item) /\ Placed(item)) THEN "out of range"
    ELSE IF item.sent # Size(item) THEN "size mismatch"
    ELSE "ok"

Items(w) == request[w].items
Item(w) == Items(w)[c[w]]
Reading(w) == request[w].fun = "read"
Code(w) == IF Reading(w) THEN ReadCode(Item(w), PDURemainder[w]) ELSE WriteCode(Item(w))

\* Several items are reported one by one, a single one after the answer.
Several(w) == Len(Items(w)) > 1

-----------------------------------------------------------------------------
Idle == [fun |-> "none"]

Init ==
    /\ mem = [a \in Areas |-> [b \in 0 .. AreaSize[a] - 1 |-> {}]]
    /\ cs = [a \in Areas |-> None]
    /\ FPDULength = [w \in S7Workers |-> DefaultPDULength]
    /\ pc = [w \in Workers |-> "idle"]
    /\ request = [w \in Workers |-> Idle]
    /\ c = [w \in Workers |-> 1]
    /\ i = [w \in Workers |-> 0]
    /\ PDURemainder = [w \in S7Workers |-> 0]
    /\ data = [w \in Workers |-> <<>>]
    /\ answer = [w \in Workers |-> <<>>]
    /\ events = [w \in Workers |-> <<>>]
    /\ touched = [w \in Workers |-> {}]

Goto(w, label) == pc' = [pc EXCEPT ![w] = label]

reply == <<answer, events>>
local == <<request, c, i, data>>
areas == <<mem, cs, touched>>
pdu == <<FPDULength, PDURemainder>>

-----------------------------------------------------------------------------
(* TS7Worker *)

PerformFunctionNegotiate(w, length) ==
    /\ pc[w] = "idle"
    /\ FPDULength' = [FPDULength EXCEPT ![w] =
           IF length < MinPduSize THEN MinPduSize
           ELSE IF length > IsoPayload_Size THEN IsoPayload_Size
           ELSE length]
    /\ UNCHANGED <<pc, PDURemainder, reply, local, areas>>

\* PerformFunctionRead or PerformFunctionWrite begins.
Receive(w, r) ==
    /\ pc[w] = "idle"
    /\ request' = [request EXCEPT ![w] = r]
    /\ PDURemainder' = [PDURemainder EXCEPT ![w] = FPDULength[w]]
    /\ Goto(w, IF r.items = <<>> THEN "send" ELSE "item")
    /\ UNCHANGED <<FPDULength, c, i, data, reply, areas>>

\* Defect: an event for each item, and again one for a single item.
FinishTwice(w, code) ==
    /\ answer' = [answer EXCEPT ![w] = Append(@, code)]
    /\ events' = [events EXCEPT ![w] = Append(@, code)]
    /\ c' = [c EXCEPT ![w] = @ + 1]
    /\ i' = [i EXCEPT ![w] = 0]
    /\ data' = [data EXCEPT ![w] = <<>>]
    /\ Goto(w, IF c[w] < Len(Items(w)) THEN "item" ELSE "send")
    /\ UNCHANGED <<request, FPDULength>>

\* What ReadArea or WriteArea returns goes into the answer.
Finish(w, code) ==
    /\ answer' = [answer EXCEPT ![w] = Append(@, code)]
    /\ events' = IF Several(w) THEN [events EXCEPT ![w] = Append(@, code)] ELSE events
    /\ c' = [c EXCEPT ![w] = @ + 1]
    /\ i' = [i EXCEPT ![w] = 0]
    /\ data' = [data EXCEPT ![w] = <<>>]
    /\ Goto(w, IF c[w] < Len(Items(w)) THEN "item" ELSE "send")
    /\ UNCHANGED <<request, FPDULength>>

\* The size of a read counts once it has passed the test against the PDU.
Deduct(w) ==
    PDURemainder' =
        IF Reading(w) /\ Sized(Item(w)) /\ ~OverPdu(PDURemainder[w], Item(w))
        THEN [PDURemainder EXCEPT ![w] = @ - Size(Item(w))]
        ELSE PDURemainder

RefuseItem(w) ==
    /\ pc[w] = "item"
    /\ Code(w) # "ok"
    /\ Deduct(w)
    /\ Finish(w, Code(w))
    /\ UNCHANGED areas

AcceptItem(w) ==
    /\ pc[w] = "item"
    /\ Code(w) = "ok"
    /\ Deduct(w)
    /\ Goto(w, IF Item(w).wl = "bit" /\ ~Reading(w) THEN "load" ELSE "enter")
    /\ UNCHANGED <<FPDULength, reply, local, areas>>

\* Defect: the critical section is not waited for.
EnterAtOnce(w) ==
    LET item == Item(w)
    IN  /\ pc[w] = "enter"
        /\ cs' = [cs EXCEPT ![item.area] = w]
        /\ touched' = [touched EXCEPT ![w] = {}]
        /\ Goto(w, IF Size(item) = 0 THEN "leave" ELSE "copy")
        /\ UNCHANGED <<mem, pdu, reply, local>>

Enter(w) ==
    LET item == Item(w)
    IN  /\ pc[w] = "enter"
        /\ cs[item.area] = None
        /\ cs' = [cs EXCEPT ![item.area] = w]
        /\ touched' = [touched EXCEPT ![w] = {}]
        /\ Goto(w, IF Size(item) = 0 THEN "leave" ELSE "copy")
        /\ UNCHANGED <<mem, pdu, reply, local>>

CopyByte(w) ==
    LET item == Item(w)
        at == Start(item) + i[w]
    IN  /\ pc[w] = "copy"
        /\ IF Reading(w)
           THEN /\ data' = [data EXCEPT ![w] = Append(@, mem[item.area][at])]
                /\ UNCHANGED mem
           ELSE /\ mem' = [mem EXCEPT ![item.area][at] = item.data]
                /\ UNCHANGED data
        /\ i' = [i EXCEPT ![w] = @ + 1]
        /\ Goto(w, IF i[w] + 1 < Size(item) THEN "copy" ELSE "leave")
        /\ UNCHANGED <<cs, touched, request, c, pdu, reply>>

\* Defect: the area stays locked after a write.
LeaveRead(w) ==
    /\ pc[w] = "leave"
    /\ cs' = IF Reading(w) THEN [cs EXCEPT ![Item(w).area] = None] ELSE cs
    /\ Finish(w, "ok")
    /\ UNCHANGED <<mem, touched, PDURemainder>>

Leave(w) ==
    /\ pc[w] = "leave"
    /\ cs' = [cs EXCEPT ![Item(w).area] = None]
    /\ touched' = [touched EXCEPT ![w] = {}]
    /\ Finish(w, "ok")
    /\ UNCHANGED <<mem, PDURemainder>>

\* A store that does not look at the critical section.
Store(w, a, at, byte) ==
    /\ mem' = [mem EXCEPT ![a][at] = byte]
    /\ touched' = [v \in Workers |-> IF cs[a] = v THEN touched[v] \cup {at} ELSE touched[v]]
    /\ UNCHANGED cs

\* *Target|BitMask[BitIndex] or *Target&(~BitMask[BitIndex]): load, then store.
LoadBit(w) ==
    /\ pc[w] = "load"
    /\ w \in S7Workers
    /\ data' = [data EXCEPT ![w] = <<mem[Item(w).area][Start(Item(w))]>>]
    /\ Goto(w, "store")
    /\ UNCHANGED <<request, c, i, areas, pdu, reply>>

StoreBit(w) ==
    LET item == Item(w)
    IN  /\ pc[w] = "store"
        /\ w \in S7Workers
        /\ Store(w, item.area, Start(item),
                 IF 0 \in item.data THEN data[w][1] \cup {BitIndex(item)} ELSE data[w][1] \ {BitIndex(item)})
        /\ Finish(w, "ok")
        /\ UNCHANGED PDURemainder

\* isoSendBuffer, then the event of a single item.
Send(w) ==
    /\ pc[w] = "send"
    /\ w \in S7Workers
    /\ Goto(w, IF Len(Items(w)) = 1 THEN "event" ELSE "answered")
    /\ UNCHANGED <<reply, local, areas, pdu>>

DoEvent(w) ==
    /\ pc[w] = "event"
    /\ events' = [events EXCEPT ![w] = @ \o answer[w]]
    /\ Goto(w, "answered")
    /\ UNCHANGED <<answer, local, areas, pdu>>

-----------------------------------------------------------------------------
(* TModbusTcpWorker *)

ModbusArea ==
    [read_coils |-> "PA", read_inputs |-> "PE", read_holding |-> "MK", read_registers |-> "PE",
     coil |-> "PA", register |-> "MK", coils |-> "PA", registers |-> "MK"]

\* The tests against the size of the area, each as its function has it.
InArea(r) ==
    LET size == AreaSize[ModbusArea[r.fun]]
    IN  CASE r.fun \in {"read_coils", "read_inputs", "coils"} -> size >= (r.Offset + r.Length) \div 8
          [] r.fun \in {"read_holding", "read_registers"} -> size >= 2 * (r.Offset + r.Length)
          [] r.fun = "registers" -> size > 2 * (r.Offset + r.Length)
          [] r.fun = "coil" -> size > r.Offset \div 8
          [] r.fun = "register" -> size > 2 * r.Offset

Writing(r) == r.fun \in {"coil", "coils", "register", "registers"}

\* CopyBit and CopyBits go bit by bit, memcpy byte by byte.  A single register
\* goes to the start of the area.
ByBit(r) == r.fun \in {"coil", "coils"}
Units(r) == IF ByBit(r) THEN r.Length ELSE 2 * r.Length
Target(r, k) ==
    CASE ByBit(r) -> (r.Offset + k) \div 8
      [] r.fun = "registers" -> 2 * r.Offset + k
      [] r.fun = "register" -> k

\* The bits of several coils are all alike here.  Bit 0 of the value of a single coil is 0 in both 0x0000 and 0xFF00.
Bit(r) == IF r.fun = "coil" THEN FALSE ELSE 0 \in r.data

\* RecvPacket and the tests; SetModbusError sends no answer.
PerformFunction(w, r) ==
    /\ pc[w] = "idle"
    /\ request' = [request EXCEPT ![w] = r]
    /\ IF InArea(r) /\ r.Length > 0
       THEN /\ Goto(w, IF ~Writing(r) THEN "send" ELSE IF ByBit(r) THEN "load" ELSE "memcpy")
            /\ UNCHANGED reply
       ELSE /\ Goto(w, "answered")
            /\ events' = [events EXCEPT ![w] = <<"refused">>]
            /\ UNCHANGED answer
    /\ UNCHANGED <<c, i, data, areas, pdu>>

NextUnit(w, label) ==
    /\ i' = [i EXCEPT ![w] = @ + 1]
    /\ Goto(w, IF i[w] + 1 < Units(request[w]) THEN label ELSE "send")
    /\ UNCHANGED <<request, c, pdu, reply>>

CopyBitLoad(w) ==
    /\ pc[w] = "load"
    /\ w \in ModbusWorkers
    /\ data' = [data EXCEPT ![w] = <<mem[ModbusArea[request[w].fun]][Target(request[w], i[w])]>>]
    /\ Goto(w, "store")
    /\ UNCHANGED <<request, c, i, areas, pdu, reply>>

CopyBitStore(w) ==
    LET r == request[w]
        bit == (r.Offset + i[w]) % 8
    IN  /\ pc[w] = "store"
        /\ w \in ModbusWorkers
        /\ Store(w, ModbusArea[r.fun], Target(r, i[w]),
                 IF Bit(r) THEN data[w][1] \cup {bit} ELSE data[w][1] \ {bit})
        /\ data' = [data EXCEPT ![w] = <<>>]
        /\ NextUnit(w, "load")

Memcpy(w) ==
    LET r == request[w]
    IN  /\ pc[w] = "memcpy"
        /\ Store(w, ModbusArea[r.fun], Target(r, i[w]), r.data)
        /\ NextUnit(w, "memcpy")
        /\ UNCHANGED data

\* DoEvent, then SendBuffer.
SendBuffer(w) ==
    /\ pc[w] = "send"
    /\ w \in ModbusWorkers
    /\ events' = [events EXCEPT ![w] = <<"ok">>]
    /\ answer' = [answer EXCEPT ![w] = <<"ok">>]
    /\ Goto(w, "answered")
    /\ UNCHANGED <<local, areas, pdu>>

-----------------------------------------------------------------------------
\* The handler returns, and the worker waits for the next request.
Return(w) ==
    /\ pc[w] = "answered"
    /\ Goto(w, "idle")
    /\ request' = [request EXCEPT ![w] = Idle]
    /\ c' = [c EXCEPT ![w] = 1]
    /\ i' = [i EXCEPT ![w] = 0]
    /\ data' = [data EXCEPT ![w] = <<>>]
    /\ answer' = [answer EXCEPT ![w] = <<>>]
    /\ events' = [events EXCEPT ![w] = <<>>]
    /\ PDURemainder' = [v \in S7Workers |-> IF v = w THEN 0 ELSE PDURemainder[v]]
    /\ UNCHANGED <<FPDULength, areas>>

S7Step(w) ==
    \/ RefuseItem(w)
    \/ AcceptItem(w)
    \/ CopyByte(w)
    \/ Leave(w)
    \/ LoadBit(w)
    \/ StoreBit(w)
    \/ Send(w)
    \/ DoEvent(w)

ModbusStep(w) == CopyBitLoad(w) \/ CopyBitStore(w) \/ Memcpy(w) \/ SendBuffer(w)

Next ==
    \/ \E w \in S7Workers :
          \/ \E length \in PduRequests : PerformFunctionNegotiate(w, length)
          \/ \E r \in S7Requests : Receive(w, r)
          \/ S7Step(w)
          \/ Enter(w)
    \/ \E w \in ModbusWorkers :
          \/ \E r \in ModbusRequests : PerformFunction(w, r)
          \/ ModbusStep(w)
    \/ \E w \in Workers : Return(w)

Spec == Init /\ [][Next]_vars

\* The system runs every worker, and a critical section that is left again and
\* again is given to each that waits.
Fairness ==
    /\ \A w \in S7Workers : WF_vars(S7Step(w)) /\ SF_vars(Enter(w))
    /\ \A w \in ModbusWorkers : WF_vars(ModbusStep(w))

FairSpec == Spec /\ Fairness

-----------------------------------------------------------------------------
(* Properties *)

\* "Lock the area ... Get Data ... Unlock the area" (s7_server.cpp:431): when
\* it leaves the critical section, a worker has read the bytes the area holds,
\* or the area holds all the bytes it has written; no other copy of bytes got
\* in between.  Excepted are the bytes that were stored past the lock meanwhile.
CopyIsWhole ==
    \A w \in S7Workers : pc[w] = "leave" =>
        LET item == Item(w)
        IN  \A k \in 0 .. Size(item) - 1 :
               \/ Start(item) + k \in touched[w]
               \/ mem[item.area][Start(item) + k] = IF Reading(w) THEN data[w][k + 1] ELSE item.data

\* Each item of a request is reported once, and with the code that its client
\* got, be it one of several or a single one whose event follows the answer.
ReportedAsAnswered ==
    \A w \in S7Workers : pc[w] = "answered" =>
        events[w] = answer[w] /\ Len(answer[w]) = Len(Items(w))

\* "The sum of the items must not exceed the PDU size negotiated"
\* (s7_server.cpp:389): what a read answers with fits into FPDULength.
SumWithinPDU ==
    \A w \in S7Workers : pc[w] = "send" /\ Reading(w) =>
        LET read == {k \in DOMAIN answer[w] : answer[w][k] = "ok"}
        IN  MapThenSumSet(LAMBDA k : Size(Items(w)[k]), read) <= FPDULength[w]

\* Each request gets its answer, whoever else works on the areas.
Answered == \A w \in S7Workers : (pc[w] = "item") ~> (pc[w] = "answered")
=============================================================================
