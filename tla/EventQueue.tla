------------------------------ MODULE EventQueue ------------------------------
(***************************************************************************)
(* The queue in which a server keeps its events for whoever asks for them  *)
(* (TMsgEventQueue, snap_tcpsrvr.cpp): a ring buffer with an index of the  *)
(* last block put in and one of the last block taken out.  DoEvent puts in *)
(* under CSEvent; in this program nobody takes out or empties it, so       *)
(* IndexOut stays where Flush has left it.                                 *)
(***************************************************************************)
EXTENDS Integers, Sequences

CONSTANTS
    Capacity,               \* FCapacity: the program has MaxEvents, 1500
    NoEvent                 \* what a block holds before the first Insert

ASSUME CapacityAssumption == Capacity \in Nat /\ Capacity > 1

VARIABLES
    Buffer, IndexIn, IndexOut,
    happened                \* history: the first Max events of the server

queue == <<Buffer, IndexIn, IndexOut, happened>>

Max == Capacity - 1

\* Flush, or a server that has been up for long and has had as many events as
\* the queue can hold.
QueueInit(full) ==
    /\ Buffer = [k \in 0 .. Max |-> NoEvent]
    /\ IndexIn = IF full THEN Max ELSE 0
    /\ IndexOut = 0
    /\ happened = IF full THEN [k \in 1 .. Max |-> NoEvent] ELSE <<>>

\* Defect: the end of the buffer is not seen as the block before its start.
FullLate == IndexOut = IndexIn + 1

Full ==
    \/ IndexOut = IndexIn + 1
    \/ IndexIn = Max /\ IndexOut = 0

\* A full queue drops the event.
Insert(event) ==
    /\ IF Full
       THEN UNCHANGED <<Buffer, IndexIn>>
       ELSE /\ IndexIn' = IF IndexIn < Max THEN IndexIn + 1 ELSE 0
            /\ Buffer' = [Buffer EXCEPT ![IndexIn'] = event]
    /\ happened' = IF Len(happened) < Max THEN Append(happened, event) ELSE happened
    /\ UNCHANGED IndexOut

-----------------------------------------------------------------------------
(* Property *)

\* The queue nobody empties holds the events from the first on, in the order in
\* which they happened, as many as fit: what comes later is lost and never
\* overwrites an earlier event, though the index could start again at 0.
EarliestKept ==
    /\ IndexIn = Len(happened)
    /\ \A k \in 1 .. IndexIn : Buffer[k] = happened[k]
=============================================================================
