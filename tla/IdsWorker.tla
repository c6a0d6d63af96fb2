----------------------------- MODULE IdsWorker ------------------------------
(***************************************************************************)
(* IdsWorker of src/PagodaTree/src/indi/hiro/pagoda/IdsWorker.java, the    *)
(* detector of port scans, with RecognizedIntrusion.intoDatabase and the   *)
(* tables its statements go to.                                            *)
(*                                                                         *)
(* The detector sleeps, then removes what is old, collects what terminals  *)
(* have received meanwhile, and recognizes sources with many packets as    *)
(* intrusions; a step is a loop of it, or one turn of a loop that calls    *)
(* others.  Packets come in the order of their capture; of their fields    *)
(* srcAddr and time are told apart.  The statistics of an intrusion        *)
(* are its number of packets n and stopTime.  Statements wait in the queue *)
(* of SqlHelper; each is executed or given up in turn.                     *)
(***************************************************************************)
EXTENDS Integers, FiniteSets, SequencesExt

CONSTANTS
    Addrs,                   \* source addresses, as the int of the code
    DatabaseHost,            \* those buildSrcAddrWhiteList finds
    RECOGNIZE_THRESHOLD,     \* 50
    STORAGE_WINDOW,          \* 3 min
    MEMORY_TIMEOUT,          \* 1 min
    MEMORY_USED_TO_TIMEOUT,  \* 6 h
    MaxDelay,                \* from the capture of a packet until the detector
                             \* takes it: the pipe, and sleep(5 s)
    MaxTime,                 \* bound on the clock
    MaxPackets               \* bound on the packets captured

ASSUME AddrsAssumption ==
    Addrs \subseteq Int /\ IsFiniteSet(Addrs) /\ DatabaseHost \subseteq Addrs

ASSUME LimitsAssumption ==
    /\ RECOGNIZE_THRESHOLD \in Nat \ {0}
    /\ {STORAGE_WINDOW, MEMORY_TIMEOUT, MEMORY_USED_TO_TIMEOUT} \subseteq Nat
    /\ {MaxDelay, MaxTime, MaxPackets} \subseteq Nat
    /\ MaxDelay <= MEMORY_TIMEOUT

VARIABLES
    time,               \* System.currentTimeMillis
    pc,                 \* the detector: "sleep", "remove", "collect", "recognize"
    index, removeTime,  \* i and time of removeRecords
    newRecords, records,
    intrusions,         \* of [srcAddr, start, stop, n, inserted, updated]
    srcAddrWhiteList,
    sqlQueue,           \* of [op, srcAddr, start, stop, n]
    rows,               \* table ids_statistics, in the order of its ids
    received,           \* history: for each source, packets received,
    ignored, expired,   \* and those of them that were dropped, at once or later
    past,               \* history: intrusions removed from memory
    failed              \* history: <<srcAddr, start>> of statements given up

vars == <<time, pc, index, removeTime, newRecords, records, intrusions, srcAddrWhiteList,
          sqlQueue, rows, received, ignored, expired, past, failed>>

loop == <<index, removeTime>>
database == <<rows, failed>>
history == <<ignored, expired, past>>

Init ==
    /\ time = 0
    /\ pc = "sleep"
    /\ index = 0 /\ removeTime = 0
    /\ newRecords = <<>>
    /\ records = <<>>
    /\ intrusions = <<>>
    /\ srcAddrWhiteList = DatabaseHost
    /\ sqlQueue = <<>>
    /\ rows = <<>>
    /\ received = [a \in Addrs |-> 0]
    /\ ignored = [a \in Addrs |-> 0]
    /\ expired = [a \in Addrs |-> 0]
    /\ past = {}
    /\ failed = {}

\* The detector keeps up.
Tick ==
    /\ time < MaxTime
    /\ newRecords # <<>> => time - Head(newRecords).time < MaxDelay
    /\ time' = time + 1
    /\ UNCHANGED <<received, pc, loop, newRecords, records, intrusions, srcAddrWhiteList,
                   sqlQueue, database, history>>

SumOf(f) == FoldFunction(+, 0, f)

\* A terminal thread: handleMessage for "{...}@IDS".
Receive(a) ==
    /\ SumOf(received) < MaxPackets
    /\ received' = [received EXCEPT ![a] = @ + 1]
    /\ newRecords' = Append(newRecords, [srcAddr |-> a, time |-> time])
    /\ UNCHANGED <<time, pc, loop, records, intrusions, srcAddrWhiteList, sqlQueue,
                   database, history>>

-----------------------------------------------------------------------------
(* RecognizedIntrusion *)

Packets(a) == {i \in DOMAIN records : records[i].srcAddr = a}

\* The intrusion made of the records of a.
Found(a) ==
    [srcAddr |-> a,
     start |-> records[Min(Packets(a))].time, stop |-> records[Max(Packets(a))].time,
     n |-> Cardinality(Packets(a)), inserted |-> FALSE, updated |-> FALSE]

\* Defect: the database is not told of the packet.
AddedSilently(ri, pr) == [ri EXCEPT !.stop = pr.time, !.n = @ + 1]

Added(ri, pr) == [ri EXCEPT !.stop = pr.time, !.n = @ + 1, !.updated = FALSE]

\* intoDatabase: what becomes of the intrusion, and its statement, if any.
Saved(ri) == [ri EXCEPT !.inserted = TRUE, !.updated = TRUE]

StatementsOf(ri) ==
    IF ri.updated THEN <<>>
    ELSE << [op |-> IF ri.inserted THEN "UPDATE" ELSE "INSERT", srcAddr |-> ri.srcAddr,
             start |-> ri.start, stop |-> ri.stop, n |-> ri.n] >>

InsertCapture(pr) ==
    [op |-> "CAPTURE", srcAddr |-> pr.srcAddr, start |-> pr.time, stop |-> pr.time, n |-> 1]

-----------------------------------------------------------------------------
(* workLoop of the detector *)

Old(pr) == time - pr.time > STORAGE_WINDOW

\* The records in front that are old; removal stops at the first that is not.
OldRecords ==
    {i \in DOMAIN records : \A j \in 1 .. i : Old(records[j])}

RemoveRecords ==
    LET n == Cardinality(OldRecords)
    IN  /\ pc = "sleep"
        /\ records' = SubSeq(records, n + 1, Len(records))
        /\ expired' = [a \in Addrs |-> expired[a] + Cardinality(OldRecords \cap Packets(a))]
        /\ removeTime' = IF intrusions = <<>> THEN 0 ELSE time
        /\ index' = Len(intrusions)
        /\ pc' = IF intrusions = <<>> THEN "collect" ELSE "remove"
        /\ UNCHANGED <<time, received, newRecords, intrusions, srcAddrWhiteList, sqlQueue,
                       ignored, past, database>>

TimedOut(ri) == removeTime - ri.stop > MEMORY_TIMEOUT
UsedUp(ri) == ~TimedOut(ri) /\ removeTime - ri.start > MEMORY_USED_TO_TIMEOUT

\* Every intrusion is saved, the last first, and some are forgotten; a source
\* that has used its memory is ignored from now on.
RemoveIntrusion ==
    LET ri == intrusions[index]
        gone == TimedOut(ri) \/ UsedUp(ri)
    IN  /\ pc = "remove"
        /\ sqlQueue' = sqlQueue \o StatementsOf(ri)
        /\ intrusions' = IF gone THEN RemoveAt(intrusions, index)
                         ELSE [intrusions EXCEPT ![index] = Saved(ri)]
        /\ past' = IF gone THEN past \cup {Saved(ri)} ELSE past
        /\ srcAddrWhiteList' = srcAddrWhiteList \cup (IF UsedUp(ri) THEN {ri.srcAddr} ELSE {})
        /\ index' = index - 1
        /\ pc' = IF index' = 0 THEN "collect" ELSE "remove"
        /\ removeTime' = IF index' = 0 THEN 0 ELSE removeTime
        /\ UNCHANGED <<time, received, newRecords, records, ignored, expired, database>>

\* collectRecords, one packet from the queue at a time; PacketRecord.
\* intoDatabase keeps those to the ports of the PLC.
Collect(pr) ==
    /\ pc = "collect"
    /\ newRecords # <<>>
    /\ pr = Head(newRecords)
    /\ newRecords' = Tail(newRecords)
    /\ UNCHANGED <<time, received, pc, loop, srcAddrWhiteList, database, expired, past>>

Keep(pr) ==
    /\ pr.srcAddr \notin srcAddrWhiteList
    /\ UNCHANGED ignored
    /\ \/ sqlQueue' = Append(sqlQueue, InsertCapture(pr))
       \/ UNCHANGED sqlQueue

Tracking(a) == {i \in DOMAIN intrusions : intrusions[i].srcAddr = a}

CollectIgnored ==
    LET pr == Head(newRecords)
    IN  /\ Collect(pr)
        /\ pr.srcAddr \in srcAddrWhiteList
        /\ ignored' = [ignored EXCEPT ![pr.srcAddr] = @ + 1]
        /\ UNCHANGED <<records, intrusions, sqlQueue>>

\* Defect: the packet of an intrusion is stored with the others as well.
CollectTwice ==
    LET pr == Head(newRecords)
    IN  /\ Collect(pr)
        /\ Keep(pr)
        /\ \E i \in Tracking(pr.srcAddr) :
              intrusions' = [intrusions EXCEPT ![i] = Added(@, pr)]
        /\ records' = Append(records, pr)

CollectTracked ==
    LET pr == Head(newRecords)
    IN  /\ Collect(pr)
        /\ Keep(pr)
        /\ \E i \in Tracking(pr.srcAddr) :
              /\ \A j \in Tracking(pr.srcAddr) : i <= j
              /\ intrusions' = [intrusions EXCEPT ![i] = Added(@, pr)]
        /\ UNCHANGED records

CollectNew ==
    LET pr == Head(newRecords)
    IN  /\ Collect(pr)
        /\ Keep(pr)
        /\ Tracking(pr.srcAddr) = {}
        /\ records' = Append(records, pr)
        /\ UNCHANGED intrusions

\* IntegerCounter, without the counts below the threshold.
Many == {a \in Addrs : Cardinality(Packets(a)) >= RECOGNIZE_THRESHOLD}

\* recognizeIntrusions goes through the sources in their order.
Recognizing == pc' = IF Many' = {} THEN "sleep" ELSE "recognize"

RecognizeIntrusions ==
    /\ pc = "collect"
    /\ newRecords = <<>>
    /\ UNCHANGED <<time, received, loop, newRecords, records, intrusions, srcAddrWhiteList,
                   sqlQueue, database, history>>
    /\ Recognizing

\* removeIf: what is left of a list without the elements at some indices.
RemoveIf(list, I) ==
    LET left == DOMAIN list \ I
    IN  [n \in 1 .. Cardinality(left) |->
            list[CHOOSE k \in left : Cardinality(left \cap (1 .. k)) = n]]

\* Defect: the records of an intrusion stay with the others.
CopyRecords(a) ==
    /\ pc = "recognize"
    /\ \A b \in Many : a <= b
    /\ intrusions' = Append(intrusions, Found(a))
    /\ pc' = "sleep"
    /\ UNCHANGED <<time, received, loop, newRecords, records, srcAddrWhiteList, sqlQueue,
                   database, history>>

\* collectRecords(int srcAddr).
CollectRecords(a) ==
    /\ pc = "recognize"
    /\ \A b \in Many : a <= b
    /\ intrusions' = Append(intrusions, Found(a))
    /\ records' = RemoveIf(records, Packets(a))
    /\ Recognizing
    /\ UNCHANGED <<time, received, loop, newRecords, srcAddrWhiteList, sqlQueue,
                   database, history>>

-----------------------------------------------------------------------------
(* The SqlConnection thread and the database *)

Matches(row, s) == row.srcAddr = s.srcAddr /\ row.start = s.start

Executed(table, s) ==
    CASE s.op = "INSERT" -> Append(table, [srcAddr |-> s.srcAddr, start |-> s.start,
                                           stop |-> s.stop, n |-> s.n])
      [] s.op = "UPDATE" -> [i \in DOMAIN table |->
                               IF Matches(table[i], s)
                               THEN [table[i] EXCEPT !.stop = s.stop, !.n = s.n]
                               ELSE table[i]]
      [] OTHER -> table

Detector == <<time, received, pc, loop, newRecords, records, intrusions, srcAddrWhiteList, history>>

ExecuteSql ==
    /\ sqlQueue # <<>>
    /\ sqlQueue' = Tail(sqlQueue)
    /\ rows' = Executed(rows, Head(sqlQueue))
    /\ UNCHANGED <<failed, Detector>>

\* executeSql catches the SQLException, and goes on with the next statement.
ExecuteFails ==
    /\ sqlQueue # <<>>
    /\ sqlQueue' = Tail(sqlQueue)
    /\ LET s == Head(sqlQueue)
       IN  failed' = IF s.op = "CAPTURE" THEN failed
                     ELSE failed \cup {<<s.srcAddr, s.start>>}
    /\ UNCHANGED <<rows, Detector>>

\* Everything but Receive.
Detect ==
    \/ Tick
    \/ RemoveRecords
    \/ RemoveIntrusion
    \/ CollectIgnored
    \/ CollectTracked
    \/ CollectNew
    \/ RecognizeIntrusions
    \/ \E a \in Many : CollectRecords(a)
    \/ ExecuteSql
    \/ ExecuteFails

-----------------------------------------------------------------------------
(* Properties *)

\* A source is in one place: it is ignored, or one intrusion in memory collects
\* its packets, or they wait in records; collectRecords relies on that when it
\* gives a packet to the first intrusion it finds.
OneOwner ==
    \A a \in Addrs :
        /\ Cardinality(Tracking(a)) <= 1
        /\ Tracking(a) # {} => Packets(a) = {} /\ a \notin srcAddrWhiteList

\* Each packet that is reported is counted once: it waits, or is in one intrusion,
\* in records, ignored or expired, however often its source is recognized and
\* forgotten.
CountOf(S) == FoldSet(LAMBDA ri, sum : ri.n + sum, 0, S)

CountedOnce ==
    \A a \in Addrs :
        received[a] = ignored[a] + expired[a] + Cardinality(Packets(a))
            + Cardinality({i \in DOMAIN newRecords : newRecords[i].srcAddr = a})
            + CountOf({intrusions[i] : i \in Tracking(a)})
            + CountOf({ri \in past : ri.srcAddr = a})

\* Once the queue is empty, what the table says of an intrusion that is up to
\* date in memory, or forgotten, is what the detector has counted, in one row;
\* unless a statement about it was given up.
Settled == FoldLeft(Executed, rows, sqlQueue)
UpToDate == past \cup {ri \in ToSet(intrusions) : ri.updated}

RowsFollowMemory ==
    \A ri \in UpToDate : <<ri.srcAddr, ri.start>> \notin failed =>
        \E i \in DOMAIN Settled :
            /\ Settled[i].stop = ri.stop /\ Settled[i].n = ri.n
            /\ \A j \in DOMAIN Settled : Matches(Settled[j], ri) <=> j = i
=============================================================================
