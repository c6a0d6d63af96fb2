------------------------------- MODULE SzlLists -------------------------------
(***************************************************************************)
(* The partial lists of the system state (SZL) as the workers of the S7    *)
(* server hand them out.  A list that does not fit into one PDU is cut:    *)
(* the first packet is sent, the other ones wait in the worker's           *)
(* FragmentMap under a sequence number, and the client asks for each with  *)
(* the number it finds in the packet before.                               *)
(*                                                                         *)
(* The sequence number and the data unit reference (DURN) are counters of  *)
(* the server.  Its workers change them without a lock, so every load and  *)
(* every store of the (unoptimised) code is a step here.                   *)
(***************************************************************************)
EXTENDS Integers, FiniteSets

CONSTANTS
    Workers,
    Lists,                  \* what the clients ask for: [ID, Index]
    DataBank,               \* the ids that are answered whatever the index is
    IndexedData,            \* [ID, Index]: the lists of the other ids
    Packets(_),             \* packets a list takes
    SeqMax,                 \* 0xFF, where the counters start again
    MaxUnderWay,            \* bound on the lists under way at once
    MaxAbandoned            \* bound on the lists abandoned half way

ASSUME SeqMaxAssumption == SeqMax \in Nat /\ SeqMax > 1
ASSUME PacketsAssumption == \A l \in Lists : Packets(l) \in Nat \ {0}

VARIABLES
    counter,                \* sequence_nr and DURN
    pc, counting, reg,      \* of each worker: its next step, the counter it is at, what it loaded
    sequence,               \* the number FragmentMap is used with
    packet,                 \* the answer in preparation
    FragmentMap,            \* the rest of the lists that are under way
    answer,                 \* history: the last packet of a cut list sent over the connection,
                            \* kept while no two lists were under way at once
    overlapped,             \* history: two lists were under way at once
    abandoned               \* history: lists that were never asked for to the end

szlVars == <<counter, pc, counting, reg, sequence, packet, FragmentMap, answer, overlapped, abandoned>>

Numbers == 0 .. SeqMax
Counters == {"sequence_nr", "DURN"}

\* The switch of SZLUseSnap7SZLs: a list goes by its id, or by its index too.
NoList == [ID |-> "none", Index |-> 0]
ById(l) == l.ID \in DataBank
ByIndex(l) == l.ID \notin DataBank /\ l \in IndexedData
Available(l) == ById(l) \/ ByIndex(l)

\* The fragments of a list from a packet on.
NoFragments == [list |-> NoList, next |-> 0]
Fragments(list, n) == [list |-> list, next |-> n]

Packet(list, n) == [list |-> list, n |-> n, last |-> n = Packets(list), Seq |-> 0, durn |-> 0]
NoPacket == [list |-> NoList, n |-> 0, last |-> TRUE, Seq |-> 0, durn |-> 0]

\* A worker is at a list, or its client has not yet asked for all of it.
UnderWay(w) == pc[w] # "idle" \/ \E s \in Numbers : FragmentMap[w][s] # NoFragments
Begun == {v \in Workers : counting[v] = "sequence_nr" /\ pc[v] \in {"load", "store", "test", "restart", "take", "cut"}}
Waiting == {x \in Workers \X Numbers : FragmentMap[x[1]][x[2]] # NoFragments}

SzlInit ==
    /\ counter = [c \in Counters |-> 0]
    /\ pc = [w \in Workers |-> "idle"]
    /\ counting = [w \in Workers |-> "sequence_nr"]
    /\ reg = [w \in Workers |-> 0]
    /\ sequence = [w \in Workers |-> 0]
    /\ packet = [w \in Workers |-> NoPacket]
    /\ FragmentMap = [w \in Workers |-> [s \in Numbers |-> NoFragments]]
    /\ answer = [w \in Workers |-> NoPacket]
    /\ overlapped = FALSE
    /\ abandoned = 0

Goto(w, label) == pc' = [pc EXCEPT ![w] = label]

-----------------------------------------------------------------------------
(* GetNextSeqNr and GetNextDURN *)

StartCounting(w, c) == Goto(w, "load") /\ counting' = [counting EXCEPT ![w] = c]

\* if (++n == 0xFF)
Load(w) ==
    /\ pc[w] = "load"
    /\ reg' = [reg EXCEPT ![w] = counter[counting[w]]]
    /\ Goto(w, "store")
    /\ UNCHANGED <<counter, counting, sequence, packet, FragmentMap, answer, overlapped, abandoned>>

Store(w) ==
    /\ pc[w] = "store"
    /\ counter' = [counter EXCEPT ![counting[w]] = (reg[w] + 1) % (SeqMax + 1)]
    /\ reg' = [reg EXCEPT ![w] = 0]
    /\ Goto(w, "test")
    /\ UNCHANGED <<counting, sequence, packet, FragmentMap, answer, overlapped, abandoned>>

Test(w) ==
    /\ pc[w] = "test"
    /\ Goto(w, IF counter[counting[w]] = SeqMax THEN "restart" ELSE "take")
    /\ UNCHANGED <<counter, counting, reg, sequence, packet, FragmentMap, answer, overlapped, abandoned>>

\* The number goes to FragmentMap, the DURN into the packet.
Return(w, n) ==
    IF counting[w] = "sequence_nr"
    THEN /\ sequence' = [sequence EXCEPT ![w] = n]
         /\ Goto(w, "cut")
         /\ UNCHANGED packet
    ELSE /\ packet' = [packet EXCEPT ![w].durn = n]
         /\ Goto(w, "send")
         /\ UNCHANGED sequence

Restart(w) ==
    /\ pc[w] = "restart"
    /\ counter' = [counter EXCEPT ![counting[w]] = 0]
    /\ Return(w, SeqMax)
    /\ UNCHANGED <<counting, reg, FragmentMap, answer, overlapped, abandoned>>

Take(w) ==
    /\ pc[w] = "take"
    /\ Return(w, counter[counting[w]])
    /\ UNCHANGED <<counter, counting, reg, FragmentMap, answer, overlapped, abandoned>>

-----------------------------------------------------------------------------
(* A new list *)

\* A list of one packet leaves no trace in the server ...
ReadShort(w) ==
    /\ pc[w] = "idle"
    /\ \E l \in Lists : Available(l) /\ Packets(l) = 1
    /\ UNCHANGED szlVars

\* ... nor does one there is not, by its id or by its index (SZLNotAvailable).
ReadAbsent(w) ==
    /\ pc[w] = "idle"
    /\ \E l \in Lists : ~Available(l)
    /\ UNCHANGED szlVars

\* SZLData calls SZLSendAnswer, which begins with GetNextSeqNr.
ReadLong(w) ==
    /\ pc[w] = "idle"
    /\ Cardinality(Begun) + Cardinality(Waiting) < MaxUnderWay
    /\ \E l \in Lists :
          /\ Available(l) /\ Packets(l) > 1
          /\ packet' = [packet EXCEPT ![w] = Packet(l, 1)]
    /\ StartCounting(w, "sequence_nr")
    /\ overlapped' = (overlapped \/ \E v \in Workers : UnderWay(v))
    /\ answer' = IF overlapped' THEN [v \in Workers |-> NoPacket] ELSE answer
    /\ UNCHANGED <<counter, reg, sequence, FragmentMap, abandoned>>

\* SZLSendAnswer: all fragments but the first go into FragmentMap, and
\* SZLPrepareAnswerHeader takes the number of the server again.
SZLSendAnswer(w) ==
    /\ pc[w] = "cut"
    /\ FragmentMap' = [FragmentMap EXCEPT ![w][sequence[w]] = Fragments(packet[w].list, 2)]
    /\ packet' = [packet EXCEPT ![w].Seq = counter["sequence_nr"]]
    /\ StartCounting(w, "DURN")
    /\ UNCHANGED <<counter, reg, sequence, answer, overlapped, abandoned>>

-----------------------------------------------------------------------------
(* A continuation *)

\* SZLSendContinuation, with the header that SZLPrepareAnswerHeader makes.
SZLSendContinuation(w, s) ==
    LET f == FragmentMap[w][s]
    IN  /\ f # NoFragments
        /\ sequence' = [sequence EXCEPT ![w] = s]
        /\ packet' = [packet EXCEPT ![w] = [Packet(f.list, f.next) EXCEPT !.Seq = counter["sequence_nr"]]]
        /\ Goto(w, IF packet'[w].last THEN "decrease" ELSE "unit")
        /\ UNCHANGED <<counter, counting, reg, FragmentMap, answer, overlapped, abandoned>>

\* A number nothing waits under: SZLNotAvailable.  To number 0 nothing is sent.
WrongNumber(w, s) ==
    /\ FragmentMap[w][s] = NoFragments
    /\ UNCHANGED szlVars

ReadNext(w) ==
    /\ pc[w] = "idle"
    /\ \E s \in Numbers \ {0} : SZLSendContinuation(w, s) \/ WrongNumber(w, s)

\* DecrSeqNr: if (sequence_nr != 0x00) sequence_nr--;
DecrTest(w) ==
    /\ pc[w] = "decrease"
    /\ Goto(w, IF counter["sequence_nr"] # 0 THEN "decrLoad" ELSE "unit")
    /\ UNCHANGED <<counter, counting, reg, sequence, packet, FragmentMap, answer, overlapped, abandoned>>

DecrLoad(w) ==
    /\ pc[w] = "decrLoad"
    /\ reg' = [reg EXCEPT ![w] = counter["sequence_nr"]]
    /\ Goto(w, "decrStore")
    /\ UNCHANGED <<counter, counting, sequence, packet, FragmentMap, answer, overlapped, abandoned>>

\* Defect: the number is not given back.
DecrNothing(w) ==
    /\ pc[w] = "decrStore"
    /\ Goto(w, "unit")
    /\ UNCHANGED <<counter, counting, reg, sequence, packet, FragmentMap, answer, overlapped, abandoned>>

DecrStore(w) ==
    /\ pc[w] = "decrStore"
    /\ counter' = [counter EXCEPT !["sequence_nr"] = (reg[w] - 1) % (SeqMax + 1)]
    /\ reg' = [reg EXCEPT ![w] = 0]
    /\ Goto(w, "unit")
    /\ UNCHANGED <<counting, sequence, packet, FragmentMap, answer, overlapped, abandoned>>

\* GetCurrentDURN.
CurrentDURN(w) ==
    /\ pc[w] = "unit"
    /\ packet' = [packet EXCEPT ![w].durn = counter["DURN"]]
    /\ Goto(w, "send")
    /\ UNCHANGED <<counter, counting, reg, sequence, FragmentMap, answer, overlapped, abandoned>>

-----------------------------------------------------------------------------

\* The local variables go back to a fixed value when the request is done.
Forget(w) ==
    /\ packet' = [packet EXCEPT ![w] = NoPacket]
    /\ sequence' = [sequence EXCEPT ![w] = 0]
    /\ counting' = [counting EXCEPT ![w] = "sequence_nr"]

\* Defect: a fragment stays in front when it has been sent.
SendKeeping(w) ==
    /\ pc[w] = "send"
    /\ answer' = IF overlapped THEN answer ELSE [answer EXCEPT ![w] = packet[w]]
    /\ FragmentMap' = IF packet[w].last THEN [FragmentMap EXCEPT ![w][sequence[w]] = NoFragments] ELSE FragmentMap
    /\ Goto(w, "idle")
    /\ Forget(w)
    /\ UNCHANGED <<counter, reg, overlapped, abandoned>>

\* isoSendBuffer; a fragment that was in front is gone, and so is the entry
\* with the last one.
Send(w) ==
    LET p == packet[w]
    IN  /\ pc[w] = "send"
        /\ answer' = IF overlapped THEN answer ELSE [answer EXCEPT ![w] = p]
        /\ FragmentMap' =
              [FragmentMap EXCEPT ![w][sequence[w]] =
                  IF p.last THEN NoFragments ELSE Fragments(@.list, p.n + 1)]
        /\ Goto(w, "idle")
        /\ Forget(w)
        /\ UNCHANGED <<counter, reg, overlapped, abandoned>>

\* The connection ends and another one takes the slot.  FragmentMap dies with
\* the worker, the counters do not.
Reconnect(w) ==
    /\ pc[w] = "idle"
    /\ UnderWay(w) => abandoned < MaxAbandoned
    /\ abandoned' = IF UnderWay(w) THEN abandoned + 1 ELSE abandoned
    /\ FragmentMap' = [FragmentMap EXCEPT ![w] = [s \in Numbers |-> NoFragments]]
    /\ answer' = [answer EXCEPT ![w] = NoPacket]
    /\ UNCHANGED <<counter, pc, counting, reg, sequence, packet, overlapped>>

PerformGroupSZL(w) ==
    \/ ReadShort(w) \/ ReadAbsent(w) \/ ReadLong(w) \/ ReadNext(w)
    \/ Load(w) \/ Store(w) \/ Test(w) \/ Restart(w) \/ Take(w)
    \/ SZLSendAnswer(w)
    \/ DecrTest(w) \/ DecrLoad(w) \/ DecrStore(w) \/ CurrentDURN(w)
    \/ Send(w)

-----------------------------------------------------------------------------
(* Properties *)

\* The comment of GetNextSeqNr (s7_server.h:343) allows one list at a time.
\* Then the numbers hold, until the lists abandoned half way have used up the
\* byte: nothing gives their number back.
Reliable == ~overlapped /\ abandoned < SeqMax - 1

\* The number in a packet that is not the last of its list leads to the next
\* fragment of that list, though SZLSendAnswer stores the fragments under one
\* number and the header takes it from the server again.
Continues ==
    Reliable =>
        \A w \in Workers :
            pc[w] = "idle" /\ ~answer[w].last =>
                FragmentMap[w][answer[w].Seq] = Fragments(answer[w].list, answer[w].n + 1)

\* The packets of a list are sent in order and under one number, and only the
\* last one says that it is the last.
InTurn ==
    Reliable =>
        \A w \in Workers :
            pc[w] = "send" /\ packet[w].n > 1 =>
                packet[w] = [Packet(answer[w].list, answer[w].n + 1)
                                EXCEPT !.Seq = answer[w].Seq, !.durn = packet[w].durn]

\* "The Data Unit Reference (DUR) which references to which Data Unit a packet
\* belongs to" (s7_server.cpp:1497): the packets of a list all carry the same.
SameUnit ==
    Reliable =>
        \A w \in Workers :
            pc[w] = "send" /\ packet[w].n > 1 => packet[w].durn = answer[w].durn
=============================================================================
