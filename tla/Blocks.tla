------------------------------- MODULE Blocks -------------------------------
(***************************************************************************)
(* The blocks of one type in the PLC: TS7AreaContainer (plc_device.cpp), a *)
(* table without lock, and the workers (s7_server.cpp) that list, inspect, *)
(* upload and download blocks in it.                                       *)
(*                                                                         *)
(* An area is an object of the heap, a pointer is its name.  What the code *)
(* leaves undefined, the use of a deleted area, of a slot of the table that *)
(* was never set, or of bytes past a buffer, may end the process, or go    *)
(* through with any value.                                                 *)
(***************************************************************************)
EXTENDS Integers, Sequences, FiniteSets, FiniteSetsExt

CONSTANTS
    Readers,            \* the workers whose clients list and read blocks
    Programmers,        \* the workers whose clients download blocks
    WordSize,           \* 2^16: parameters of the table and fields of an area are words
    Numbers,            \* of the blocks in requests, of which a download reads longwords
    Capacity,
    PointerSize,        \* of the pointers in PList, in bytes
    Loaded,             \* numbers of the blocks there are from the start
    LoadedSize,
    Lengths,            \* BlkLen of downloads
    Fragments,          \* DataLen of their packets
    maxDataSize,        \* bytes in a packet of an upload
    InfoSize,           \* bytes of a block that BLK_GetBlkInfo copies
    LenLoadSize,        \* digits of LenLoad
    Null, Wild

Word(n) == n % WordSize
Words == {Word(n) : n \in Numbers}
Sizes == {Word(length) : length \in Lengths} \cup {LoadedSize}

\* DataLen of the worker's own request: 0 - 4 as a word.
StaleLen == WordSize - 4

ASSUME BlocksAssumption ==
    /\ WordSize \in Nat /\ WordSize > 4 /\ Numbers \subseteq Nat
    /\ Capacity \in Nat \ {0} /\ PointerSize \in Nat \ {0}
    /\ Loaded \in Seq(Words) /\ Len(Loaded) <= Capacity \div PointerSize
    /\ \A i, j \in DOMAIN Loaded : Loaded[i] = Loaded[j] => i = j
    /\ maxDataSize \in Nat \ {0} /\ {InfoSize, LenLoadSize} \subseteq Nat
    /\ Lengths \cup {LoadedSize} \cup Fragments \subseteq Nat
    /\ IsFiniteSet(Programmers)

\* The memory of an area, and pointers to none of those that Add was given.
ASSUME PointersAssumption ==
    /\ Null # Wild /\ {Null, Wild} \cap Int = {}
    /\ Null \notin [Number : Words, Size : Sizes, PData : {"loaded", "unset"}]

Workers == Readers \cup Programmers

Slots == 0 .. Capacity - 1

\* memset(PList, NULL, aCapacity) counts bytes, not pointers.
Cleared == Capacity \div PointerSize

\* Names of areas: those in the table, and one per download.
Areas == 1 .. Capacity + Cardinality(Programmers)

VARIABLES
    heap,               \* [Areas -> area, or Null when there is none]
    PList, AreaCount, MaxIndex,
    crashed,
    pc,                 \* place of each worker
    op                  \* local variables of its handler

vars == <<heap, PList, AreaCount, MaxIndex, crashed, pc, op>>
table == <<PList, AreaCount, MaxIndex>>

Idle == [fun |-> "none"]

Init ==
    /\ heap = [a \in Areas |->
           IF a \in DOMAIN Loaded THEN [Number |-> Loaded[a], Size |-> LoadedSize, PData |-> "loaded"]
           ELSE Null]
    /\ \E rest \in [Slots -> {Null, Wild}] :
          PList = [k \in Slots |-> IF k + 1 \in DOMAIN Loaded THEN k + 1
                                   ELSE IF k < Cleared THEN Null ELSE rest[k]]
    /\ AreaCount = Len(Loaded)
    /\ MaxIndex = IF Loaded = <<>> THEN 0 ELSE Len(Loaded) - 1
    /\ crashed = FALSE
    /\ pc = [w \in Workers |-> "idle"]
    /\ op = [w \in Workers |-> Idle]

-----------------------------------------------------------------------------
(* The table *)

Exists(a) == a \in Areas /\ heap[a] # Null

\* The slots up to MaxIndex with a block of the number, and the first of them.
IndicesOf(number) == {k \in 0 .. MaxIndex : Exists(PList[k]) /\ heap[PList[k]].Number = Word(number)}

IndexOf(number) == IF IndicesOf(number) = {} THEN -1 ELSE Min(IndicesOf(number))

\* FindFirstFree is one look at the table; IndexOf below is a loop.
Free == {k \in Slots : PList[k] = Null}

\* Defect: it starts at the end.
FindLastFree == IF Free = {} THEN -1 ELSE Max(Free)

FindFirstFree == IF Free = {} THEN -1 ELSE Min(Free)

-----------------------------------------------------------------------------
(* Steps of a worker *)

\* The locals of f, and those of g that are not among them.
f ++ g == [x \in DOMAIN f \cup DOMAIN g |-> IF x \in DOMAIN f THEN f[x] ELSE g[x]]

At(w, label) == ~crashed /\ pc[w] = label

Goto(w, label) == pc' = [pc EXCEPT ![w] = label]

Keep(w, locals) == op' = [op EXCEPT ![w] = locals]

Done(w) == Goto(w, "idle") /\ Keep(w, Idle)

Unchanging == UNCHANGED <<heap, table, crashed>>

\* The requests that go on while w changes the table are disturbed.
Disturbing(w, locals) ==
    op' = [v \in Workers |-> IF v = w THEN locals
                             ELSE IF op[v] = Idle THEN Idle
                             ELSE [op[v] EXCEPT !.disturbed = TRUE]]

\* The programmers that are changing the table.
Changing ==
    {w \in Workers : pc[w] \in {"clear", "delete", "countDown", "new", "add", "store", "countUp", "raise"}}

Begin(f) == [fun |-> f, disturbed |-> Changing # {}]

\* What is left of the locals when only some of them are used again.
Local(w) == [fun |-> op[w].fun, disturbed |-> op[w].disturbed]

\* What an expression on the area yields: any value once it is deleted.
Read(a, field, any) == IF Exists(a) THEN {heap[a][field]} ELSE any

(* IndexOf, which Find, Remove and Add begin with: op[w].i is the next slot.   *)
(* The pointer in it is read twice; what can come in between is in Undefined. *)

Searching(w) == pc[w] \in {"find", "remove", "add"} /\ ~crashed

\* Whether the slot's pointer leads to the number that is looked for: that of a
\* deleted area, or one that was never set, may.
Matches(w) ==
    LET a == PList[op[w].i]
    IN  IF a = Null THEN {FALSE}
        ELSE IF Exists(a) THEN {heap[a].Number = Word(op[w].BlkNum)} ELSE BOOLEAN

Hit(w) == op[w].i <= MaxIndex /\ TRUE \in Matches(w)
Miss(w) == op[w].i > MaxIndex

\* The next slot.
Pass(w) ==
    /\ Searching(w)
    /\ op[w].i <= MaxIndex /\ FALSE \in Matches(w)
    /\ Keep(w, [op[w] EXCEPT !.i = @ + 1])
    /\ UNCHANGED pc
    /\ Unchanging

(* PerformFunctionUpload and BLK_GetBlkInfo *)

\* A late pduUpload or pduEndUpload is taken for the start of an upload, of whatever number its bytes make.
Request(w, f, number) ==
    /\ At(w, "idle")
    /\ Keep(w, [BlkNum |-> number, i |-> 0] ++ Begin(f))
    /\ Goto(w, "find")
    /\ Unchanging

\* getArea yields no table for a type it does not know, SFC and SFB among them.
\* Only BLK_GetBlkInfo looks at what it yields.  (A download uses it at its end.)
NoTable(w, f) ==
    /\ At(w, "idle")
    /\ IF f = "info"
       THEN Goto(w, "noResource") /\ Keep(w, Begin(f)) /\ Unchanging
       ELSE crashed' = TRUE /\ UNCHANGED <<heap, table, pc, op>>

\* BLK_GetBlkInfo answers that there is none; "return false" of an upload ends
\* the connection, and the client may open the next one.
NotFound(w) ==
    IF op[w].fun = "info" THEN Goto(w, "noResource") /\ Keep(w, Local(w)) ELSE Done(w)

Find(w) ==
    /\ At(w, "find")
    /\ \/ Miss(w) /\ NotFound(w)
       \/ Hit(w) /\ Goto(w, "fetch") /\ Keep(w, [Index |-> op[w].i] ++ Local(w))
    /\ Unchanging

Fetch(w) ==
    LET a == PList[op[w].Index]
    IN  /\ At(w, "fetch")
        /\ IF a = Null THEN NotFound(w)
           ELSE /\ Goto(w, IF op[w].fun = "info" THEN "info" ELSE "announce")
                /\ Keep(w, [area |-> a] ++ Local(w))
        /\ Unchanging

GetBlkInfo(w) ==
    /\ At(w, "info")
    /\ Goto(w, "event")
    /\ Keep(w, Local(w))
    /\ Unchanging

NoResource(w) ==
    /\ At(w, "noResource")
    /\ Goto(w, "event")
    /\ UNCHANGED op
    /\ Unchanging

\* The first digit is put into the last byte, and so on: byte k is the digit that
\* counts 10^k, whereas AsciiToNum takes the last byte for the units.
NumToAscii(num) == [k \in 0 .. LenLoadSize - 1 |-> (num \div 10^k) % 10]

Announce(w) ==
    /\ At(w, "announce")
    /\ \E size \in Read(op[w].area, "Size", Sizes) : Keep(w, [LenLoad |-> NumToAscii(size), sent |-> 0] ++ op[w])
    /\ Goto(w, "load")
    /\ Unchanging

Load(w) ==
    /\ At(w, "load")
    /\ \E size \in Read(op[w].area, "Size", Sizes) :
          /\ Keep(w, [toSend |-> size] ++ op[w])
          /\ Goto(w, IF size > 0 THEN "chunk" ELSE "end")
    /\ Unchanging

\* Defect: chunks have one size, the last one, too.
SendChunkFull(w) ==
    LET toSend == IF op[w].toSend < maxDataSize THEN 0 ELSE op[w].toSend - maxDataSize
    IN  /\ At(w, "chunk")
        /\ Keep(w, [op[w] EXCEPT !.toSend = toSend, !.sent = @ + maxDataSize])
        /\ Goto(w, IF toSend > 0 THEN "chunk" ELSE "end")
        /\ Unchanging

SendChunk(w) ==
    LET chunkSize == IF op[w].toSend < maxDataSize THEN op[w].toSend ELSE maxDataSize
    IN  /\ At(w, "chunk")
        /\ op[w].toSend > 0
        /\ Keep(w, [op[w] EXCEPT !.toSend = @ - chunkSize, !.sent = @ + chunkSize])
        /\ Goto(w, IF op[w].toSend > chunkSize THEN "chunk" ELSE "end")
        /\ Unchanging

\* Another request came, or none: then PDU holds the worker's own last answer.
BreakUpload(w) ==
    /\ At(w, "chunk")
    /\ Goto(w, "end")
    /\ UNCHANGED op
    /\ Unchanging

EndUpload(w) ==
    /\ At(w, "end")
    /\ Keep(w, [RetCode |-> IF op[w].toSend = 0 THEN "ok" ELSE "mismatch",
                LenLoad |-> op[w].LenLoad, sent |-> op[w].sent] ++ Local(w))
    /\ Goto(w, "event")
    /\ Unchanging

DoEvent(w) ==
    /\ At(w, "event")
    /\ Done(w)
    /\ Unchanging

(* BLK_ListAll and BLK_ListBoT *)

ListAll(w) ==
    /\ At(w, "idle")
    /\ Keep(w, [BCount |-> AreaCount] ++ Begin("listAll"))
    /\ Goto(w, "event")
    /\ Unchanging

ListBoT(w) ==
    /\ At(w, "idle")
    /\ Keep(w, [AreaCount |-> AreaCount, items |-> <<>>] ++ Begin("list"))
    /\ Goto(w, IF AreaCount # 0 THEN "max" ELSE "event")
    /\ Unchanging

ReadMaxIndex(w) ==
    /\ At(w, "max")
    /\ Keep(w, [MaxIndex |-> MaxIndex, i |-> 0] ++ op[w])
    /\ Goto(w, "get")
    /\ Unchanging

\* Defect: i < MaxIndex.
NextItemShort(w, locals) ==
    /\ Keep(w, [locals EXCEPT !.i = @ + 1])
    /\ Goto(w, IF op[w].i + 1 < op[w].MaxIndex THEN "get" ELSE "event")

NextItem(w, locals) ==
    /\ Keep(w, [locals EXCEPT !.i = @ + 1])
    /\ Goto(w, IF op[w].i + 1 <= op[w].MaxIndex THEN "get" ELSE "event")

GetItem(w) ==
    LET a == PList[op[w].i]
    IN  /\ At(w, "get")
        /\ IF a = Null THEN NextItem(w, op[w])
           ELSE Goto(w, "item") /\ Keep(w, [area |-> a] ++ op[w])
        /\ Unchanging

\* Data->Items[i], not the next item of the answer.  The number of a deleted area
\* may be any; Wild stands for it.
SetItem(w) ==
    /\ At(w, "item")
    /\ \E number \in Read(op[w].area, "Number", {Wild}) :
          NextItem(w, [op[w] EXCEPT !.items = [k \in {op[w].i} |-> number] ++ @])
    /\ Unchanging

(* PerformFunctionDownload *)

ReqDownload(w, number, length) ==
    /\ At(w, "idle")
    /\ Keep(w, [BlkNum |-> number, BlkLen |-> length, written |-> 0, last_packet |-> FALSE, sent |-> 0,
                before |-> {PList[k] : k \in IndicesOf(number)}] ++ Begin("download"))
    /\ Goto(w, IF length > 0 THEN "receive" ELSE "ended")
    /\ Unchanging

\* One turn of the loop that writes size bytes.
Write(w, size, last, sent) ==
    /\ At(w, "receive")
    /\ Keep(w, [op[w] EXCEPT !.written = @ + size, !.last_packet = last, !.sent = @ + sent])
    /\ Goto(w, IF ~last /\ op[w].written + size < op[w].BlkLen THEN "receive" ELSE "ended")
    /\ Unchanging

\* No packet came in time, or the connection is lost: PDU holds the worker's
\* own request, with no data and a zero where the mark of the last packet is.
WriteStale(w) == Write(w, StaleLen, TRUE, 0)

\* Defect: the mark of the last packet is enough.
CompleteByMark(locals) == locals.last_packet

Complete(locals) == locals.last_packet /\ locals.written = locals.BlkLen

\* pduDownloadEnded and its acknowledgement, which may be missing.
DownloadEnded(w) ==
    /\ At(w, "ended")
    /\ IF Complete(op[w])
       THEN Goto(w, "remove") /\ Keep(w, [i |-> 0] ++ op[w])
       ELSE Goto(w, "event") /\ Keep(w, [RetCode |-> "mismatch"] ++ op[w])
    /\ Unchanging

Remove(w) ==
    /\ At(w, "remove")
    /\ \/ Miss(w) /\ Goto(w, "new") /\ UNCHANGED op
       \/ Hit(w) /\ Goto(w, "clear") /\ Keep(w, [Index |-> op[w].i] ++ op[w])
    /\ Unchanging

\* Defect: the slot keeps the pointer.
TakeOutPointer(w) ==
    /\ At(w, "clear")
    /\ Disturbing(w, [area |-> PList[op[w].Index]] ++ op[w])
    /\ Goto(w, "delete")
    /\ UNCHANGED <<heap, table, crashed>>

TakeOut(w) ==
    /\ At(w, "clear")
    /\ PList' = [PList EXCEPT ![op[w].Index] = Null]
    /\ Disturbing(w, [area |-> PList[op[w].Index]] ++ op[w])
    /\ Goto(w, "delete")
    /\ UNCHANGED <<heap, AreaCount, MaxIndex, crashed>>

DeleteArea(w) ==
    /\ At(w, "delete")
    /\ heap' = IF op[w].area \in Areas THEN [heap EXCEPT ![op[w].area] = Null] ELSE heap
    /\ Disturbing(w, op[w])
    /\ Goto(w, "countDown")
    /\ UNCHANGED <<table, crashed>>

CountDown(w) ==
    /\ At(w, "countDown")
    /\ AreaCount' = AreaCount - 1
    /\ Disturbing(w, op[w])
    /\ Goto(w, "new")
    /\ UNCHANGED <<heap, PList, MaxIndex, crashed>>

\* new TS7Area, with words for the longwords that were read; it leaves PData as
\* the heap has it, and nothing copies buffer there.
NewArea(w) ==
    /\ At(w, "new")
    /\ LET a == Min({b \in Areas : heap[b] = Null})
       IN  /\ heap' = [heap EXCEPT ![a] = [Number |-> Word(op[w].BlkNum), Size |-> Word(op[w].BlkLen),
                                            PData |-> "unset"]]
           /\ Keep(w, [NewArea |-> a, i |-> 0] ++ op[w])
    /\ Goto(w, "add")
    /\ UNCHANGED <<table, crashed>>

AddFails(w) ==
    /\ At(w, "add")
    /\ Hit(w) \/ (Miss(w) /\ FindFirstFree = -1)
    /\ heap' = [heap EXCEPT ![op[w].NewArea] = Null]
    /\ Keep(w, [RetCode |-> "memoryLimit"] ++ op[w])
    /\ Goto(w, "event")
    /\ UNCHANGED <<table, crashed>>

Add(w) ==
    /\ At(w, "add")
    /\ Miss(w) /\ FindFirstFree # -1
    /\ Keep(w, [Index |-> FindFirstFree] ++ op[w])
    /\ Goto(w, "store")
    /\ Unchanging

Store(w) ==
    /\ At(w, "store")
    /\ PList' = [PList EXCEPT ![op[w].Index] = op[w].NewArea]
    /\ Disturbing(w, op[w])
    /\ Goto(w, "countUp")
    /\ UNCHANGED <<heap, AreaCount, MaxIndex, crashed>>

CountUp(w) ==
    /\ At(w, "countUp")
    /\ AreaCount' = AreaCount + 1
    /\ Disturbing(w, op[w])
    /\ Goto(w, "raise")
    /\ UNCHANGED <<heap, PList, MaxIndex, crashed>>

RaiseMaxIndex(w) ==
    /\ At(w, "raise")
    /\ MaxIndex' = IF MaxIndex < op[w].Index THEN op[w].Index ELSE MaxIndex
    /\ Disturbing(w, [RetCode |-> "ok"] ++ op[w])
    /\ Goto(w, "event")
    /\ UNCHANGED <<heap, PList, AreaCount, crashed>>

-----------------------------------------------------------------------------
\* What w does next has no defined meaning.
Undefined(w) ==
    \/ /\ Searching(w) /\ op[w].i <= MaxIndex
       /\ \/ PList[op[w].i] # Null /\ ~Exists(PList[op[w].i])
          \/ \E v \in Workers \ {w} : pc[v] = "clear" /\ op[v].Index = op[w].i
    \/ pc[w] \in {"info", "announce", "load", "chunk", "item"} /\ ~Exists(op[w].area)
    \/ pc[w] = "delete" /\ op[w].area # Null /\ ~Exists(op[w].area)
    \/ pc[w] = "info" /\ Exists(op[w].area) /\ heap[op[w].area].Size < InfoSize
    \/ pc[w] = "ended" /\ op[w].written > op[w].BlkLen

Crash(w) ==
    /\ ~crashed
    /\ Undefined(w)
    /\ crashed' = TRUE
    /\ UNCHANGED <<heap, table, pc, op>>

ReaderStep(w) ==
    \/ Find(w)
    \/ Fetch(w)
    \/ GetBlkInfo(w)
    \/ NoResource(w)
    \/ Announce(w)
    \/ Load(w)
    \/ SendChunk(w)
    \/ BreakUpload(w)
    \/ EndUpload(w)
    \/ DoEvent(w)
    \/ ReadMaxIndex(w)
    \/ GetItem(w)
    \/ SetItem(w)

DownloadStep(w) ==
    \/ \E size \in Fragments, last \in BOOLEAN : Write(w, size, last, size)
    \/ WriteStale(w)
    \/ DownloadEnded(w)
    \/ Remove(w)
    \/ TakeOut(w)
    \/ DeleteArea(w)
    \/ CountDown(w)
    \/ NewArea(w)
    \/ AddFails(w)
    \/ Add(w)
    \/ Store(w)
    \/ CountUp(w)
    \/ RaiseMaxIndex(w)

Next ==
    \/ \E w \in Readers :
          \/ \E number \in Numbers, f \in {"upload", "info"} : Request(w, f, number)
          \/ \E f \in {"upload", "info", "list"} : NoTable(w, f)
          \/ ListAll(w)
          \/ ListBoT(w)
    \/ \E w \in Programmers, number \in Numbers, length \in Lengths : ReqDownload(w, number, length)
    \/ \E w \in Workers : Pass(w) \/ ReaderStep(w) \/ DownloadStep(w) \/ Crash(w)

Spec == Init /\ [][Next]_vars

-----------------------------------------------------------------------------
(* Properties *)

\* No search comes to a slot that the constructor has not cleared.
InCleared == MaxIndex < Cleared

\* The slots that IndexOf, Get and the items of a list rely on: as long as the
\* table fits into what the constructor has cleared, the blocks fill its first
\* slots, AreaCount counts them, IndexOf reaches them, and no number is twice
\* there.  A replacement fills the gap it has made itself.
Packed ==
    Changing = {} /\ InCleared /\ AreaCount <= Cleared =>
        /\ {k \in Slots : PList[k] \in Areas} = 0 .. AreaCount - 1
        /\ MaxIndex >= AreaCount - 1
        /\ \A k \in 0 .. AreaCount - 1 : Exists(PList[k]) /\ IndexOf(heap[PList[k]].Number) = k

\* A download is successful only when its client has sent the whole block and
\* marked its end, although no error of a receive is looked at.  (A block as
\* long as the stale packet, 65532 bytes, is beyond this.)
InstalledIsWhole ==
    \A w \in Programmers :
        pc[w] \in {"remove", "clear", "delete", "countDown", "new", "add", "store", "countUp", "raise"}
            /\ op[w].BlkLen < StaleLen =>
        op[w].last_packet /\ op[w].sent = op[w].BlkLen

\* A download that is refused, also for lack of room after the old block was
\* removed, leaves the block that was there, as long as no slot is searched that
\* was never set.
RefusedKeepsBlock ==
    \A w \in Programmers :
        InCleared /\ pc[w] = "event" /\ op[w].fun = "download" /\ op[w].RetCode # "ok" =>
            {PList[k] : k \in IndicesOf(op[w].BlkNum)} = op[w].before

\* A list that no download disturbs names each block once, in the AreaCount
\* items its length tells, although items are set by the index in the table.
ListExact ==
    \A w \in Workers :
        InCleared /\ pc[w] = "event" /\ op[w].fun = "list" /\ ~op[w].disturbed /\ op[w].AreaCount <= Cleared =>
            /\ DOMAIN op[w].items = 0 .. op[w].AreaCount - 1
            /\ \A k \in Slots : Exists(PList[k]) =>
                  \E j \in DOMAIN op[w].items : op[w].items[j] = heap[PList[k]].Number

\* An upload that no download disturbs and that is reported successful has sent
\* as many bytes as it announced, in whatever chunks.  (LenLoad is compared as
\* NumToAscii makes it, with its digits in reverse.)
UploadIsWhole ==
    \A w \in Workers :
        InCleared /\ pc[w] = "event" /\ op[w].fun = "upload" /\ ~op[w].disturbed /\ op[w].RetCode = "ok" =>
            NumToAscii(op[w].sent) = op[w].LenLoad

\* "Successful" (s7_text.cpp:365): the block a successful download leaves in the
\* PLC is the one its client has sent.
DownloadStored ==
    \A w \in Programmers :
        pc[w] = "event" /\ op[w].fun = "download" /\ op[w].RetCode = "ok" =>
            \E k \in IndicesOf(op[w].BlkNum) : heap[PList[k]].PData # "unset"
=============================================================================
