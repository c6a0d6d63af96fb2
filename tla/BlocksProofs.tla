---------------------------- MODULE BlocksProofs ----------------------------
(***************************************************************************)
(* Proofs about Blocks, for any numbers, any length of the table, blocks   *)
(* and packets of any length, and any number of workers of whom at most    *)
(* one downloads.                                                          *)
(***************************************************************************)
EXTENDS Blocks, FiniteSetTheorems, WellFoundedInduction, TLAPS

\* There is at most one client that downloads at a time.
OneProgrammer == \A p, q \in Programmers : p = q

-----------------------------------------------------------------------------
(* The inductive invariant *)

AreaRecords == [Number : Words, Size : Sizes, PData : {"loaded", "unset"}]

\* The slots that hold a block, and the blocks of a number.
Filled == {k \in Slots : PList[k] \in Areas}
BlocksOf(number) == {PList[k] : k \in IndicesOf(number)}

ReaderPlaces == {"find", "fetch", "info", "noResource", "announce", "load", "chunk",
    "end", "max", "get", "item"}
Waiting == {"receive", "ended", "remove"}
Exchanging == {"clear", "delete", "countDown", "new", "add", "store", "countUp", "raise"}
Places == {"idle", "event"} \cup ReaderPlaces \cup Waiting \cup Exchanging

\* The programmer p has taken the old block out and not yet put the new one in.
Gaping(p) ==
    \/ pc[p] \in {"delete", "countDown"}
    \/ pc[p] \in {"new", "add", "store"} /\ op[p].before # {}

\* The slots of the blocks, the gap among them, and their number.
Held == Filled \cup {op[p].Index : p \in {q \in Programmers : Gaping(q)}}
Uncounted ==
    \E p \in Programmers :
        \/ pc[p] = "countUp"
        \/ pc[p] \in {"new", "add", "store"} /\ op[p].before # {}
Count == IF Uncounted THEN AreaCount + 1 ELSE AreaCount

TableType ==
    /\ heap \in [Areas -> AreaRecords \cup {Null}]
    /\ PList \in [Slots -> Areas \cup {Null, Wild}]
    /\ AreaCount \in Nat
    /\ MaxIndex \in Slots
    /\ pc \in [Workers -> Places]
    /\ op = [w \in Workers |-> op[w]]

\* Every block in the table exists and is the only one of its number; IndexOf
\* reaches it, unless it has just been stored; nothing else exists but what the
\* programmer is about to delete or to add.
TableOK ==
    /\ \A k \in Slots : k < Cleared => PList[k] # Wild
    /\ \A k \in Filled : Exists(PList[k])
    /\ \A j, k \in Filled : heap[PList[j]].Number = heap[PList[k]].Number => j = k
    /\ \A k \in Filled : k <= MaxIndex
          \/ \E p \in Programmers : pc[p] \in {"countUp", "raise"} /\ k = op[p].Index
    /\ \A a \in Areas : Exists(a) =>
          \/ \E k \in Filled : a = PList[k]
          \/ \E p \in Programmers : \/ pc[p] = "delete" /\ a = op[p].area
                                    \/ pc[p] \in {"add", "store"} /\ a = op[p].NewArea

\* As long as they fit into what is cleared, the blocks fill the first slots.
Prefix ==
    Count <= Cleared => /\ Held = 0 .. Count - 1
                        /\ MaxIndex <= IF Count = 0 THEN 0 ELSE Count - 1

\* How far the download of p has got.
Downloading(p) ==
    /\ pc[p] \in Waiting \cup Exchanging =>
          /\ {"fun", "disturbed", "BlkNum", "BlkLen", "written", "last_packet", "sent", "before"}
                \subseteq DOMAIN op[p]
          /\ op[p].fun = "download"
          /\ op[p].BlkNum \in Numbers /\ op[p].BlkLen \in Lengths
    /\ pc[p] \in Waiting => op[p].before = BlocksOf(op[p].BlkNum)
    /\ pc[p] \in {"remove", "add"} => "i" \in DOMAIN op[p] /\ op[p].i \in Nat
    /\ pc[p] = "remove" => \A k \in IndicesOf(op[p].BlkNum) : op[p].i <= k
    /\ pc[p] = "clear" =>
          "Index" \in DOMAIN op[p] /\ op[p].Index \in IndicesOf(op[p].BlkNum)
    /\ pc[p] \in {"clear", "delete", "countDown"} => op[p].before # {}
    /\ pc[p] \in {"delete", "countDown", "new", "add", "store"} => IndicesOf(op[p].BlkNum) = {}
    /\ Gaping(p) \/ pc[p] = "store" =>
          "Index" \in DOMAIN op[p] /\ op[p].Index \in Slots /\ PList[op[p].Index] = Null
    /\ pc[p] = "delete" => "area" \in DOMAIN op[p] /\ op[p].area \in Areas
          /\ \A k \in Slots : PList[k] # op[p].area
    /\ pc[p] \in {"add", "store"} =>
          /\ "NewArea" \in DOMAIN op[p] /\ Exists(op[p].NewArea)
          /\ heap[op[p].NewArea].Number = Word(op[p].BlkNum)
          /\ \A k \in Slots : PList[k] # op[p].NewArea
    /\ pc[p] = "store" /\ op[p].before = {} /\ AreaCount < Cleared => op[p].Index = AreaCount
    /\ pc[p] \in {"countUp", "raise"} => "Index" \in DOMAIN op[p] /\ op[p].Index \in Filled
    /\ pc[p] = "event" /\ op[p].fun = "download" =>
          /\ {"RetCode", "BlkNum", "before"} \subseteq DOMAIN op[p]
          /\ op[p].RetCode # "ok" => BlocksOf(op[p].BlkNum) = op[p].before

\* The programmer sees the table as it was before its request.
Calm(p) == ~Gaping(p) /\ pc[p] \notin {"add", "store", "countUp", "raise"}

BInv == TableType /\ TableOK /\ Prefix /\ \A p \in Programmers : Downloading(p)

\* What the request of w has in its locals.
Fields(w) ==
    /\ pc[w] = "idle" => op[w] = Idle
    /\ pc[w] # "idle" =>
          {"fun", "disturbed"} \subseteq DOMAIN op[w] /\ op[w].disturbed \in BOOLEAN
    /\ pc[w] \in {"find", "fetch"} => op[w].fun \in {"upload", "info"}
    /\ pc[w] \in {"info", "noResource"} => op[w].fun = "info"
    /\ pc[w] \in {"announce", "load", "chunk", "end"} => op[w].fun = "upload"
    /\ pc[w] \in {"max", "get", "item"} => op[w].fun = "list"
    /\ pc[w] \in Waiting \cup Exchanging => w \in Programmers /\ op[w].fun = "download"

\* An upload that is not disturbed works on a block of the table.
Uploading(w) ==
    pc[w] # "idle" /\ op[w].fun = "upload" /\ ~op[w].disturbed =>
        /\ pc[w] = "find" => {"BlkNum", "i"} \subseteq DOMAIN op[w] /\ op[w].i \in Nat
        /\ pc[w] = "fetch" => "Index" \in DOMAIN op[w] /\ op[w].Index \in Filled
        /\ pc[w] \in {"announce", "load"} =>
              "area" \in DOMAIN op[w] /\ \E k \in Filled : op[w].area = PList[k]
        /\ pc[w] \in {"load", "chunk", "end"} => {"LenLoad", "sent"} \subseteq DOMAIN op[w]
        /\ pc[w] = "load" =>
              op[w].sent = 0 /\ op[w].LenLoad = NumToAscii(heap[op[w].area].Size)
        /\ pc[w] \in {"chunk", "end"} =>
              /\ "toSend" \in DOMAIN op[w] /\ op[w].toSend \in Nat /\ op[w].sent \in Nat
              /\ op[w].LenLoad = NumToAscii(op[w].sent + op[w].toSend)
        /\ pc[w] = "event" =>
              /\ {"RetCode", "LenLoad", "sent"} \subseteq DOMAIN op[w]
              /\ op[w].RetCode = "ok" => op[w].LenLoad = NumToAscii(op[w].sent)

\* No programmer has changed what a list sees.
Steady ==
    \A p \in Programmers : /\ pc[p] \notin {"delete", "countDown", "countUp", "raise"}
                           /\ ~Gaping(p)

\* The items are those of the first n slots.
ItemsOf(w, n) ==
    AreaCount <= Cleared => /\ DOMAIN op[w].items = 0 .. n - 1
                            /\ \A k \in 0 .. n - 1 : op[w].items[k] = heap[PList[k]].Number

\* A list that is not disturbed.
Listing(w) ==
    pc[w] # "idle" /\ op[w].fun = "list" /\ ~op[w].disturbed =>
        /\ Steady
        /\ {"AreaCount", "items"} \subseteq DOMAIN op[w] /\ op[w].AreaCount = AreaCount
        /\ pc[w] = "max" => op[w].items = <<>> /\ AreaCount > 0
        /\ pc[w] \in {"get", "item"} =>
              /\ {"MaxIndex", "i"} \subseteq DOMAIN op[w] /\ op[w].MaxIndex = MaxIndex
              /\ op[w].i \in 0 .. MaxIndex /\ AreaCount > 0
              /\ ItemsOf(w, op[w].i)
        /\ pc[w] = "item" => "area" \in DOMAIN op[w] /\ op[w].area = PList[op[w].i]
        /\ pc[w] = "event" => ItemsOf(w, AreaCount)

RInv == \A w \in Workers : Fields(w) /\ Uploading(w) /\ Listing(w)

\* What the download of w has written, what its client has sent, and the slot it
\* has chosen.
Received(w) ==
    /\ pc[w] \in Waiting \cup Exchanging =>
          {"BlkLen", "written", "last_packet", "sent"} \subseteq DOMAIN op[w]
    /\ pc[w] = "receive" => ~op[w].last_packet /\ op[w].written = op[w].sent
    /\ pc[w] \in {"receive", "ended"} => op[w].sent \in Nat
    /\ pc[w] = "ended" => op[w].written \in {op[w].sent, op[w].sent + StaleLen}
    /\ pc[w] \in {"remove"} \cup Exchanging =>
          op[w].last_packet /\ (op[w].BlkLen < StaleLen => op[w].sent = op[w].BlkLen)
    /\ pc[w] \in {"store", "countUp", "raise"} => "Index" \in DOMAIN op[w] /\ op[w].Index \in Slots

DInv ==
    /\ MaxIndex \in Slots
    /\ pc = [w \in Workers |-> pc[w]] /\ op = [w \in Workers |-> op[w]]
    /\ \A w \in Workers : Received(w)

-----------------------------------------------------------------------------
(* The table *)

\* The least of a set of numbers.
LEMMA MinIs ==
    ASSUME NEW S \in SUBSET Nat, S # {}
    PROVE  Min(S) \in S /\ \A j \in S : Min(S) <= j
<1>1. PICK i \in S : \A j \in S : <<j, i>> \notin OpToRel(<, Nat)
  BY NatLessThanWellFounded, WFMin
<1>2. ASSUME NEW j \in S PROVE i <= j
  <2>1. i \in Nat /\ j \in Nat
    OBVIOUS
  <2>2. ~ (j < i)
    BY <2>1, <1>1 DEF OpToRel
  <2> QED
    BY <2>1, <2>2
<1> QED
  BY <1>2 DEF Min

\* What is cleared lies within the table.
LEMMA SlotsType ==
    Slots \subseteq Nat /\ Cleared \in Nat /\ Cleared <= Capacity /\ Capacity \in Nat
  BY BlocksAssumption DEF Slots, Cleared

\* IndexOf stays within the table.
LEMMA IndexType == TableType => 0 .. MaxIndex \subseteq Slots
  BY SlotsType DEF TableType, Slots

\* What IndexOf yields.
LEMMA IndexOfIs ==
    ASSUME TableType, NEW number
    PROVE  /\ IndicesOf(number) = {} => IndexOf(number) = -1
           /\ IndicesOf(number) # {} =>
                 IndexOf(number) \in IndicesOf(number) /\ IndexOf(number) # -1
<1>1. IndicesOf(number) \in SUBSET Nat
  BY SlotsType DEF IndicesOf, TableType
<1> QED
  BY <1>1, MinIs DEF IndexOf

\* What FindFirstFree yields.
LEMMA FirstFreeIs ==
    /\ Free = {} => FindFirstFree = -1
    /\ Free # {} => /\ FindFirstFree \in Free /\ FindFirstFree # -1
                    /\ \A k \in Free : FindFirstFree <= k
<1>1. Free \in SUBSET Nat
  BY SlotsType DEF Free
<1>2. ASSUME Free # {} PROVE Min(Free) \in Free /\ \A k \in Free : Min(Free) <= k
  BY <1>1, <1>2, MinIs
<1>3. CASE Free = {}
  BY <1>3 DEF FindFirstFree
<1>4. CASE Free # {}
  <2>1. FindFirstFree = Min(Free)
    BY <1>4, Zenon DEF FindFirstFree
  <2>2. \A m \in Free : m # -1
    BY <1>1
  <2> HIDE DEF Free
  <2> QED
    BY <1>2, <1>4, <2>1, <2>2
<1> QED
  BY <1>3, <1>4

\* A word is what it is as a word.
LEMMA WordIs == ASSUME NEW n \in Nat PROVE Word(n) \in Nat /\ Word(Word(n)) = Word(n)
  BY BlocksAssumption DEF Word

\* So are the numbers of areas.
LEMMA WordsAre == \A n \in Words : Word(n) = n
  BY WordIs, BlocksAssumption DEF Words

\* Null and Wild are no areas.
LEMMA PointersType ==
    /\ Null # Wild /\ Null \notin Areas /\ Wild \notin Areas
    /\ Null \notin AreaRecords
    /\ Sizes \subseteq Nat
<1>1. \A length \in Lengths : Word(length) \in Nat
  BY WordIs, BlocksAssumption
<1> QED
  BY <1>1, PointersAssumption, BlocksAssumption DEF Areas, AreaRecords, Sizes

\* What the loop of IndexOf finds in a slot that was set.
LEMMA SearchIs ==
    ASSUME BInv, InCleared, NEW w \in Workers, op[w].i \in Nat
    PROVE  /\ Hit(w) => op[w].i \in IndicesOf(op[w].BlkNum)
           /\ op[w].i <= MaxIndex /\ FALSE \in Matches(w) => op[w].i \notin IndicesOf(op[w].BlkNum)
           /\ \A k \in IndicesOf(op[w].BlkNum) : k <= MaxIndex /\ k \in Nat
<1>1. MaxIndex \in Nat /\ \A k \in IndicesOf(op[w].BlkNum) : k <= MaxIndex /\ k \in Nat
  BY SlotsType DEF BInv, TableType, IndicesOf
<1> DEFINE a == PList[op[w].i]
<1>2. ASSUME op[w].i <= MaxIndex
      PROVE  /\ TRUE \in Matches(w) => op[w].i \in IndicesOf(op[w].BlkNum)
             /\ FALSE \in Matches(w) => op[w].i \notin IndicesOf(op[w].BlkNum)
  <2>1. op[w].i \in 0 .. MaxIndex /\ op[w].i \in Slots /\ op[w].i < Cleared
    BY <1>1, <1>2, IndexType, SlotsType DEF BInv, InCleared
  <2>2. a = Null \/ a \in Areas
    BY <2>1 DEF BInv, TableType, TableOK
  <2>3. CASE a = Null
    <3>1. Matches(w) = {FALSE} /\ ~Exists(a)
      BY <2>3, PointersType DEF Matches, Exists
    <3> QED
      BY <3>1 DEF IndicesOf
  <2>4. CASE a \in Areas
    <3>1. Exists(a) /\ a # Null
      BY <2>1, <2>4, PointersType DEF BInv, TableOK, Filled
    <3>2. Matches(w) = {heap[a].Number = Word(op[w].BlkNum)}
      BY <3>1 DEF Matches
    <3> QED
      BY <2>1, <3>1, <3>2 DEF IndicesOf
  <2> QED
    BY <2>2, <2>3, <2>4
<1> QED
  BY <1>1, <1>2 DEF Hit

\* What there is of the sets that the invariants are about, with one programmer.
LEMMA AloneIs ==
    ASSUME OneProgrammer, NEW p \in Programmers
    PROVE  /\ Programmers = {p}
           /\ Gaping(p) => Held = Filled \cup {op[p].Index}
           /\ ~Gaping(p) => Held = Filled
           /\ Uncounted <=> \/ pc[p] = "countUp"
                            \/ pc[p] \in {"new", "add", "store"} /\ op[p].before # {}
           /\ (Gaping(p) => Held = Filled \cup {op[p].Index})'
           /\ (~Gaping(p) => Held = Filled)'
           /\ (Uncounted <=> \/ pc[p] = "countUp"
                             \/ pc[p] \in {"new", "add", "store"} /\ op[p].before # {})'
<1>1. Programmers = {p}
  BY DEF OneProgrammer
<1> QED
  BY <1>1 DEF Held, Uncounted

\* The table is as it was when nothing in it changes and the programmers stay
\* where they are, or move where they keep nothing.
LEMMA TableKept ==
    ASSUME BInv, TableType', heap' = heap, table' = table,
           \A p \in Programmers : \/ pc'[p] = pc[p] /\ op'[p] = op[p]
                                  \/ Calm(p) /\ Calm(p)'
    PROVE  TableOK' /\ Prefix' /\ \A n : IndicesOf(n)' = IndicesOf(n)
<1>1. /\ Filled' = Filled /\ \A a : Exists(a)' <=> Exists(a)
      /\ PList' = PList /\ AreaCount' = AreaCount /\ MaxIndex' = MaxIndex
  BY DEF table, Filled, Exists
<1>2. \A n : IndicesOf(n)' = IndicesOf(n)
  BY <1>1 DEF IndicesOf
<1>3. \A p \in Programmers : Gaping(p)' <=> Gaping(p)
  BY DEF Calm, Gaping
<1>4. \A p \in Programmers : Gaping(p) => op'[p] = op[p]
  BY DEF Calm
<1>5. Held' = Held
  BY <1>1, <1>3, <1>4 DEF Held
<1>6. Uncounted' <=> Uncounted
  BY DEF Uncounted, Calm, Gaping
<1>7. Prefix'
  BY <1>1, <1>5, <1>6 DEF BInv, Prefix, Count
<1>9. \A p \in Programmers : pc[p] \in {"delete", "add", "store", "countUp", "raise"} =>
         pc'[p] = pc[p] /\ op'[p] = op[p]
  BY DEF Calm, Gaping
<1>8. TableOK'
  <2>1. \A k \in Slots : k < Cleared => PList'[k] # Wild
    BY <1>1 DEF BInv, TableOK
  <2>2. \A k \in Filled' : Exists(PList[k])'
    BY <1>1 DEF BInv, TableOK, Exists
  <2>3. \A j, k \in Filled' : heap'[PList'[j]].Number = heap'[PList'[k]].Number => j = k
    BY <1>1 DEF BInv, TableOK
  <2>4. \A k \in Filled' : k <= MaxIndex'
          \/ \E p \in Programmers : pc'[p] \in {"countUp", "raise"} /\ k = op'[p].Index
    <3> SUFFICES ASSUME NEW k \in Filled, ~(k <= MaxIndex)
                 PROVE  \E p \in Programmers :
                           pc'[p] \in {"countUp", "raise"} /\ k = op'[p].Index
      BY <1>1
    <3>1. PICK p \in Programmers : pc[p] \in {"countUp", "raise"} /\ k = op[p].Index
      BY DEF BInv, TableOK
    <3> QED
      BY <1>9, <3>1
  <2>5. \A a \in Areas : Exists(a)' =>
          \/ \E k \in Filled' : a = PList'[k]
          \/ \E p \in Programmers : \/ pc'[p] = "delete" /\ a = op'[p].area
                                    \/ pc'[p] \in {"add", "store"} /\ a = op'[p].NewArea
    <3> SUFFICES ASSUME NEW a \in Areas, Exists(a), ~ \E k \in Filled : a = PList[k]
                 PROVE  \E p \in Programmers :
                           \/ pc'[p] = "delete" /\ a = op'[p].area
                           \/ pc'[p] \in {"add", "store"} /\ a = op'[p].NewArea
      BY <1>1
    <3>1. PICK p \in Programmers : \/ pc[p] = "delete" /\ a = op[p].area
                                   \/ pc[p] \in {"add", "store"} /\ a = op[p].NewArea
      BY DEF BInv, TableOK
    <3> QED
      BY <1>9, <3>1
  <2> QED
    BY <2>1, <2>2, <2>3, <2>4, <2>5 DEF TableOK
<1> QED
  BY <1>2, <1>7, <1>8

\* So is the download of a programmer that stays where it is.
LEMMA DownloadKept ==
    ASSUME BInv, heap' = heap, table' = table, NEW p \in Programmers,
           pc'[p] = pc[p], op'[p] = op[p]
    PROVE  Downloading(p)'
<1>1. /\ Filled' = Filled /\ \A a : Exists(a)' <=> Exists(a)
      /\ PList' = PList /\ AreaCount' = AreaCount /\ MaxIndex' = MaxIndex
  BY DEF table, Filled, Exists
<1>2. \A n : IndicesOf(n)' = IndicesOf(n)
  BY <1>1 DEF IndicesOf
<1>3. \A n : BlocksOf(n)' = BlocksOf(n)
  BY <1>1, <1>2 DEF BlocksOf
<1>4. Gaping(p)' <=> Gaping(p)
  BY DEF Gaping
<1> QED
  BY <1>1, <1>2, <1>3, <1>4 DEF BInv, Downloading

-----------------------------------------------------------------------------
(* The programmer *)

\* A download begins.
LEMMA ReqDownloadStep ==
    ASSUME OneProgrammer, BInv, RInv, NEW p \in Programmers, NEW number \in Numbers,
           NEW length \in Lengths, ReqDownload(p, number, length)
    PROVE  BInv'
<1> USE DEF BInv
<1>1. Programmers = {p} /\ p \in Workers
  BY AloneIs DEF Workers
<1>2. /\ At(p, "idle") /\ heap' = heap /\ table' = table
      /\ pc' = [pc EXCEPT ![p] = IF length > 0 THEN "receive" ELSE "ended"]
      /\ op' = [op EXCEPT ![p] = [BlkNum |-> number, BlkLen |-> length, written |-> 0,
              last_packet |-> FALSE, sent |-> 0, before |-> BlocksOf(number)] ++ Begin("download")]
  BY DEF ReqDownload, Unchanging, Goto, Keep, BlocksOf
<1>3. TableType'
  BY <1>1, <1>2 DEF TableType, table, Places, Waiting
<1>4. pc[p] = "idle" /\ pc'[p] \in {"receive", "ended"}
  BY <1>1, <1>2 DEF At, TableType
<1>5. op'[p] = [BlkNum |-> number, BlkLen |-> length, written |-> 0, last_packet |-> FALSE,
                sent |-> 0, before |-> BlocksOf(number)] ++ Begin("download")
  BY <1>1, <1>2 DEF TableType
<1>6. Calm(p) /\ Calm(p)'
  BY <1>4 DEF Calm, Gaping
<1>7. TableOK' /\ Prefix' /\ \A n : IndicesOf(n)' = IndicesOf(n)
  BY <1>1, <1>2, <1>3, <1>6, TableKept
<1>8. Downloading(p)'
  <2>1. BlocksOf(number)' = BlocksOf(number)
    BY <1>2, <1>7 DEF BlocksOf, table
  <2>2. /\ {"fun", "disturbed", "BlkNum", "BlkLen", "written", "last_packet", "sent", "before"}
              \subseteq DOMAIN op'[p]
        /\ op'[p].fun = "download" /\ op'[p].BlkNum = number /\ op'[p].BlkLen = length
        /\ op'[p].before = BlocksOf(number)
    BY <1>5 DEF ++, Begin
  <2> QED
    BY <1>4, <2>1, <2>2 DEF Downloading, Gaping
<1> QED
  BY <1>1, <1>3, <1>7, <1>8

\* A packet comes, or none in time.
LEMMA WriteStep ==
    ASSUME OneProgrammer, BInv, NEW p \in Programmers, NEW size, NEW last \in BOOLEAN, NEW sent,
           Write(p, size, last, sent)
    PROVE  BInv'
<1> USE DEF BInv
<1>1. Programmers = {p} /\ p \in Workers
  BY AloneIs DEF Workers
<1>2. /\ pc[p] = "receive" /\ heap' = heap /\ table' = table
      /\ \E l \in {"receive", "ended"} : pc' = [pc EXCEPT ![p] = l]
      /\ op' = [op EXCEPT ![p] = [op[p] EXCEPT !.written = op[p].written + size,
                     !.last_packet = last, !.sent = op[p].sent + sent]]
  BY DEF Write, Unchanging, Goto, Keep, At
<1>3. TableType'
  BY <1>1, <1>2 DEF TableType, table, Places, Waiting
<1>4. pc'[p] \in {"receive", "ended"}
  BY <1>1, <1>2 DEF TableType
<1>5. op'[p] = [op[p] EXCEPT !.written = op[p].written + size,
                     !.last_packet = last, !.sent = op[p].sent + sent]
  BY <1>1, <1>2 DEF TableType
<1>6. Calm(p) /\ Calm(p)'
  BY <1>2, <1>4 DEF Calm, Gaping
<1>7. TableOK' /\ Prefix' /\ \A n : IndicesOf(n)' = IndicesOf(n)
  BY <1>1, <1>2, <1>3, <1>6, TableKept
<1>8. Downloading(p)'
  <2>1. \A n : BlocksOf(n)' = BlocksOf(n)
    BY <1>2, <1>7 DEF BlocksOf, table
  <2>2. /\ {"fun", "disturbed", "BlkNum", "BlkLen", "written", "last_packet", "sent", "before"}
              \subseteq DOMAIN op[p]
        /\ op[p].fun = "download" /\ op[p].BlkNum \in Numbers /\ op[p].BlkLen \in Lengths
        /\ op[p].before = BlocksOf(op[p].BlkNum)
    BY <1>2 DEF Downloading, Waiting
  <2>3. /\ DOMAIN op'[p] = DOMAIN op[p]
        /\ op'[p].fun = op[p].fun /\ op'[p].BlkNum = op[p].BlkNum
        /\ op'[p].BlkLen = op[p].BlkLen /\ op'[p].before = op[p].before
    BY <1>5, <2>2
  <2> QED
    BY <1>4, <2>1, <2>2, <2>3 DEF Downloading, Gaping
<1> QED
  BY <1>1, <1>3, <1>7, <1>8

\* The end of a download.
LEMMA DownloadEndedStep ==
    ASSUME OneProgrammer, BInv, NEW p \in Programmers, DownloadEnded(p)
    PROVE  BInv'
<1> USE DEF BInv
<1>1. Programmers = {p} /\ p \in Workers
  BY AloneIs DEF Workers
<1>2. /\ pc[p] = "ended" /\ heap' = heap /\ table' = table
      /\ \/ /\ pc' = [pc EXCEPT ![p] = "remove"]
            /\ op' = [op EXCEPT ![p] = [i |-> 0] ++ op[p]]
         \/ /\ pc' = [pc EXCEPT ![p] = "event"]
            /\ op' = [op EXCEPT ![p] = [RetCode |-> "mismatch"] ++ op[p]]
  BY DEF DownloadEnded, Unchanging, Goto, Keep, At
<1>3. TableType'
  BY <1>1, <1>2 DEF TableType, table, Places, Waiting
<1>4. \/ pc'[p] = "remove" /\ op'[p] = [i |-> 0] ++ op[p]
      \/ pc'[p] = "event" /\ op'[p] = [RetCode |-> "mismatch"] ++ op[p]
  BY <1>1, <1>2 DEF TableType
<1>6. Calm(p) /\ Calm(p)'
  BY <1>2, <1>4 DEF Calm, Gaping
<1>7. TableOK' /\ Prefix' /\ \A n : IndicesOf(n)' = IndicesOf(n)
  BY <1>1, <1>2, <1>3, <1>6, TableKept
<1>8. Downloading(p)'
  <2>1. \A n : BlocksOf(n)' = BlocksOf(n)
    BY <1>2, <1>7 DEF BlocksOf, table
  <2>2. /\ {"fun", "disturbed", "BlkNum", "BlkLen", "written", "last_packet", "sent", "before"}
              \subseteq DOMAIN op[p]
        /\ op[p].fun = "download" /\ op[p].BlkNum \in Numbers /\ op[p].BlkLen \in Lengths
        /\ op[p].before = BlocksOf(op[p].BlkNum)
    BY <1>2 DEF Downloading, Waiting
  <2>3. CASE pc'[p] = "remove" /\ op'[p] = [i |-> 0] ++ op[p]
    <3>1. /\ DOMAIN op'[p] = DOMAIN op[p] \cup {"i"} /\ op'[p].i = 0
          /\ op'[p].fun = op[p].fun /\ op'[p].BlkNum = op[p].BlkNum
          /\ op'[p].BlkLen = op[p].BlkLen /\ op'[p].before = op[p].before
      BY <2>2, <2>3 DEF ++
    <3>2. \A k \in IndicesOf(op[p].BlkNum)' : 0 <= k
      BY <1>7, SlotsType DEF IndicesOf, TableType
    <3>3. IndicesOf(op[p].BlkNum)' = IndicesOf(op[p].BlkNum)
      BY <1>7, <3>1
    <3> QED
      BY <2>1, <2>2, <2>3, <3>1, <3>2, <3>3 DEF Downloading, Gaping
  <2>4. CASE pc'[p] = "event" /\ op'[p] = [RetCode |-> "mismatch"] ++ op[p]
    <3>1. /\ {"RetCode", "BlkNum", "before"} \subseteq DOMAIN op'[p]
          /\ op'[p].BlkNum = op[p].BlkNum /\ op'[p].before = op[p].before
      BY <2>2, <2>4 DEF ++
    <3> QED
      BY <2>1, <2>2, <2>4, <3>1 DEF Downloading, Gaping, Waiting, Exchanging
  <2> QED
    BY <1>4, <2>3, <2>4
<1> QED
  BY <1>1, <1>3, <1>7, <1>8

\* The loop of IndexOf goes on to the next slot.
LEMMA PassStep ==
    ASSUME OneProgrammer, BInv, InCleared, NEW p \in Programmers, Pass(p),
           pc[p] \in {"remove", "add"}
    PROVE  BInv'
<1> USE DEF BInv
<1> DEFINE number == op[p].BlkNum
<1>1. Programmers = {p} /\ p \in Workers
  BY AloneIs DEF Workers
<1>2. /\ heap' = heap /\ table' = table /\ pc' = pc
      /\ op[p].i <= MaxIndex /\ FALSE \in Matches(p)
      /\ op' = [op EXCEPT ![p] = [op[p] EXCEPT !.i = op[p].i + 1]]
  BY DEF Pass, Unchanging, Keep
<1>3. TableType'
  BY <1>1, <1>2 DEF TableType, table
<1>4. /\ {"fun", "disturbed", "BlkNum", "BlkLen", "written", "last_packet", "sent", "before", "i"}
              \subseteq DOMAIN op[p]
      /\ op[p].i \in Nat
  BY DEF Downloading, Waiting, Exchanging
<1>5. /\ op'[p].i = op[p].i + 1 /\ DOMAIN op'[p] = DOMAIN op[p]
      /\ \A x \in DOMAIN op[p] : x # "i" => op'[p][x] = op[p][x]
  BY <1>1, <1>2, <1>4 DEF TableType
<1>6. /\ op'[p].fun = op[p].fun /\ op'[p].BlkNum = number /\ op'[p].BlkLen = op[p].BlkLen
      /\ op'[p].before = op[p].before
      /\ "Index" \in DOMAIN op[p] => op'[p].Index = op[p].Index
      /\ "NewArea" \in DOMAIN op[p] => op'[p].NewArea = op[p].NewArea
  BY <1>4, <1>5
<1>7. op[p].i \notin IndicesOf(number) /\ \A k \in IndicesOf(number) : k \in Nat
  BY <1>1, <1>2, <1>4, SearchIs
<1>8. /\ Filled' = Filled /\ PList' = PList /\ AreaCount' = AreaCount /\ MaxIndex' = MaxIndex
      /\ \A a : Exists(a)' <=> Exists(a)
      /\ IndicesOf(number)' = IndicesOf(number) /\ BlocksOf(number)' = BlocksOf(number)
  BY <1>2 DEF table, Filled, Exists, IndicesOf, BlocksOf
<1>9. Gaping(p)' <=> Gaping(p)
  BY <1>2, <1>6 DEF Gaping
<1>10. Gaping(p) => "Index" \in DOMAIN op[p]
  BY DEF Downloading
<1>11. Prefix'
  <2>1. Held' = Held
    <3>1. CASE Gaping(p)
      <4>1. Held = Filled \cup {op[p].Index} /\ Held' = Filled' \cup {op'[p].Index}
        BY <1>9, <3>1, AloneIs
      <4> QED
        BY <1>6, <1>8, <1>10, <3>1, <4>1
    <3>2. CASE ~Gaping(p)
      BY <1>8, <1>9, <3>2, AloneIs
    <3> QED
      BY <3>1, <3>2
  <2>2. Uncounted' <=> Uncounted
    BY <1>2, <1>6, AloneIs
  <2> QED
    BY <1>8, <2>1, <2>2 DEF Prefix, Count
<1>12. pc[p] = "add" => "NewArea" \in DOMAIN op[p]
  BY DEF Downloading
<1>13. TableOK'
  <2>1. \A k \in Slots : k < Cleared => PList'[k] # Wild
    BY <1>8 DEF TableOK
  <2>2. \A k \in Filled' : Exists(PList[k])'
    BY <1>8 DEF TableOK, Exists
  <2>3. \A j, k \in Filled' : heap'[PList'[j]].Number = heap'[PList'[k]].Number => j = k
    BY <1>2, <1>8 DEF TableOK
  <2>4. \A k \in Filled' : k <= MaxIndex'
    BY <1>1, <1>8 DEF TableOK
  <2>5. \A a \in Areas : Exists(a)' => \/ \E k \in Filled' : a = PList'[k]
                                       \/ pc'[p] = "add" /\ a = op'[p].NewArea
    BY <1>1, <1>2, <1>6, <1>8, <1>12 DEF TableOK
  <2> QED
    BY <1>1, <2>1, <2>2, <2>3, <2>4, <2>5 DEF TableOK
<1>14. Downloading(p)'
  <2>1. pc[p] = "remove" => \A k \in IndicesOf(number) : op[p].i + 1 <= k
    <3>1. pc[p] = "remove" => \A k \in IndicesOf(number) : op[p].i <= k
      BY DEF Downloading
    <3> QED
      BY <1>4, <1>7, <3>1
  <2>2. CASE pc[p] = "remove"
    BY <1>2, <1>4, <1>5, <1>6, <1>8, <1>9, <2>1, <2>2 DEF Downloading, Gaping, Waiting, Exchanging
  <2>3. CASE pc[p] = "add"
    BY <1>2, <1>4, <1>5, <1>6, <1>8, <1>9, <1>10, <1>12, <2>3
       DEF Downloading, Waiting, Exchanging
  <2> QED
    BY <2>2, <2>3
<1> QED
  BY <1>1, <1>3, <1>11, <1>13, <1>14

\* Remove has found the old block, or there is none.
LEMMA RemoveStep ==
    ASSUME OneProgrammer, BInv, InCleared, NEW p \in Programmers, Remove(p)
    PROVE  BInv'
<1> USE DEF BInv
<1> DEFINE number == op[p].BlkNum
<1>1. Programmers = {p} /\ p \in Workers
  BY AloneIs DEF Workers
<1>2. /\ pc[p] = "remove" /\ heap' = heap /\ table' = table
      /\ \/ Miss(p) /\ pc' = [pc EXCEPT ![p] = "new"] /\ op' = op
         \/ /\ Hit(p) /\ pc' = [pc EXCEPT ![p] = "clear"]
            /\ op' = [op EXCEPT ![p] = [Index |-> op[p].i] ++ op[p]]
  BY DEF Remove, Unchanging, Goto, Keep, At
<1>3. TableType'
  BY <1>1, <1>2 DEF TableType, table, Places, Exchanging
<1>4. \/ Miss(p) /\ pc'[p] = "new" /\ op'[p] = op[p]
      \/ Hit(p) /\ pc'[p] = "clear" /\ op'[p] = [Index |-> op[p].i] ++ op[p]
  BY <1>1, <1>2 DEF TableType
<1>5. /\ {"fun", "disturbed", "BlkNum", "BlkLen", "written", "last_packet", "sent", "before", "i"}
              \subseteq DOMAIN op[p]
      /\ op[p].fun = "download" /\ op[p].BlkNum \in Numbers /\ op[p].BlkLen \in Lengths
      /\ op[p].before = BlocksOf(number) /\ op[p].i \in Nat
  BY <1>2 DEF Downloading, Waiting
<1>6. /\ Miss(p) => IndicesOf(number) = {} /\ op[p].before = {}
      /\ Hit(p) => op[p].i \in IndicesOf(number) /\ op[p].before # {}
  <2>1. /\ Hit(p) => op[p].i \in IndicesOf(number)
        /\ \A k \in IndicesOf(number) : k <= MaxIndex /\ k \in Nat /\ op[p].i <= k
    BY <1>1, <1>2, <1>5, SearchIs DEF Downloading
  <2>2. MaxIndex \in Nat
    BY SlotsType DEF TableType
  <2>3. Miss(p) => IndicesOf(number) = {}
    BY <1>5, <2>1, <2>2 DEF Miss
  <2> QED
    BY <1>5, <2>1, <2>3 DEF BlocksOf
<1>7. Calm(p) /\ Calm(p)'
  BY <1>2, <1>4, <1>6 DEF Calm, Gaping
<1>8. TableOK' /\ Prefix' /\ \A n : IndicesOf(n)' = IndicesOf(n)
  BY <1>1, <1>2, <1>3, <1>7, TableKept
<1>9. Downloading(p)'
  <2>1. CASE Miss(p) /\ pc'[p] = "new" /\ op'[p] = op[p]
    <3>1. IndicesOf(number)' = {}
      BY <1>6, <1>8, <2>1
    <3> QED
      BY <1>5, <1>7, <2>1, <3>1 DEF Downloading, Calm, Waiting
  <2>2. CASE Hit(p) /\ pc'[p] = "clear" /\ op'[p] = [Index |-> op[p].i] ++ op[p]
    <3>1. op[p].i \in IndicesOf(number) /\ op[p].before # {}
      BY <1>6, <2>2
    <3>2. /\ DOMAIN op'[p] = DOMAIN op[p] \cup {"Index"} /\ op'[p].Index = op[p].i
          /\ op'[p].fun = op[p].fun /\ op'[p].BlkNum = op[p].BlkNum
          /\ op'[p].BlkLen = op[p].BlkLen /\ op'[p].before = op[p].before
      BY <1>5, <2>2 DEF ++
    <3> QED
      BY <1>5, <1>7, <1>8, <2>2, <3>1, <3>2 DEF Downloading, Calm, Waiting
  <2> QED
    BY <1>4, <2>1, <2>2
<1> QED
  BY <1>1, <1>3, <1>8, <1>9

\* The old block is taken out of its slot.
LEMMA TakeOutStep ==
    ASSUME OneProgrammer, BInv, NEW p \in Programmers, TakeOut(p)
    PROVE  BInv'
<1> USE DEF BInv
<1> DEFINE number == op[p].BlkNum
           gap == op[p].Index
<1>1. Programmers = {p} /\ p \in Workers
  BY AloneIs DEF Workers
<1>2. /\ pc[p] = "clear" /\ heap' = heap /\ AreaCount' = AreaCount /\ MaxIndex' = MaxIndex
      /\ PList' = [PList EXCEPT ![gap] = Null] /\ pc' = [pc EXCEPT ![p] = "delete"]
      /\ op' = [v \in Workers |-> op'[v]] /\ op'[p] = [area |-> PList[gap]] ++ op[p]
  BY <1>1 DEF TakeOut, Disturbing, Goto, At
<1>3. /\ {"fun", "disturbed", "BlkNum", "BlkLen", "written", "last_packet", "sent", "before",
          "Index"} \subseteq DOMAIN op[p]
      /\ op[p].fun = "download" /\ op[p].BlkNum \in Numbers /\ op[p].BlkLen \in Lengths
      /\ gap \in IndicesOf(number) /\ op[p].before # {}
  BY <1>2 DEF Downloading, Exchanging
<1>4. gap \in Filled /\ gap \in Slots /\ Exists(PList[gap]) /\ heap[PList[gap]].Number = Word(number)
  BY <1>3, IndexType DEF IndicesOf, Filled, Exists
<1>5. /\ pc'[p] = "delete" /\ op'[p].area = PList[gap]
      /\ DOMAIN op'[p] = DOMAIN op[p] \cup {"area"}
      /\ op'[p].fun = "download" /\ op'[p].BlkNum = number /\ op'[p].BlkLen = op[p].BlkLen
      /\ op'[p].before = op[p].before /\ op'[p].Index = gap
  BY <1>1, <1>2, <1>3 DEF TableType, ++
<1>6. TableType'
  BY <1>1, <1>2, PointersType DEF TableType, Places, Exchanging
<1>7. /\ Filled' = Filled \ {gap} /\ PList'[gap] = Null
      /\ \A k \in Slots : k # gap => PList'[k] = PList[k]
      /\ \A k \in Filled' : k \in Filled /\ k \in Slots /\ k # gap /\ PList'[k] = PList[k]
  BY <1>2, <1>4, PointersType DEF Filled, TableType
<1>8. \A k \in Filled' : PList[k] # PList[gap] /\ heap[PList[k]].Number # Word(number)
  BY <1>4, <1>7 DEF TableOK
<1>9. TableOK'
  <2>1. \A k \in Slots : k < Cleared => PList'[k] # Wild
    BY <1>7, PointersType DEF TableOK
  <2>2. \A k \in Filled' : Exists(PList[k])'
    BY <1>2, <1>7 DEF TableOK, Exists
  <2>3. \A j, k \in Filled' : heap'[PList'[j]].Number = heap'[PList'[k]].Number => j = k
    BY <1>2, <1>7 DEF TableOK
  <2>4. \A k \in Filled' : k <= MaxIndex'
    BY <1>1, <1>2, <1>7 DEF TableOK
  <2>5. \A a \in Areas : Exists(a)' => (\E k \in Filled' : a = PList'[k]) \/ a = op'[p].area
    <3>1. \A a \in Areas : Exists(a) => \E k \in Filled : a = PList[k]
      BY <1>1, <1>2 DEF TableOK
    <3>2. \A k \in Filled : k = gap \/ (k \in Filled' /\ PList'[k] = PList[k])
      <4>1. Filled \subseteq Slots
        BY DEF Filled
      <4> QED
        BY <1>7, <4>1
    <3> QED
      BY <1>2, <1>5, <3>1, <3>2 DEF Exists
  <2> QED
    BY <1>1, <1>5, <2>1, <2>2, <2>3, <2>4, <2>5 DEF TableOK
<1>10. Prefix'
  <2>1. ~Gaping(p) /\ Gaping(p)'
    BY <1>2, <1>5 DEF Gaping
  <2>2. Held' = Held
    <3>1. Held = Filled /\ Held' = Filled' \cup {gap}
      BY <1>5, <2>1, AloneIs
    <3> QED
      BY <1>4, <1>7, <3>1
  <2>3. ~Uncounted /\ ~Uncounted'
    BY <1>2, <1>5, AloneIs
  <2> QED
    BY <1>2, <2>2, <2>3 DEF Prefix, Count
<1>11. Downloading(p)'
  <2>1. IndicesOf(number)' = {}
    <3>1. \A k \in 0 .. MaxIndex : k = gap \/ k \in Filled' \/ PList'[k] \notin Areas
      BY <1>7, IndexType DEF Filled
    <3>2. \A k \in 0 .. MaxIndex : Exists(PList[k])' => heap'[PList'[k]].Number # Word(number)
      BY <1>2, <1>7, <1>8, <3>1, PointersType DEF Exists
    <3> QED
      BY <1>2, <1>5, <3>2 DEF IndicesOf, Exists
  <2>2. \A k \in Slots : PList'[k] # op'[p].area
    BY <1>4, <1>5, <1>7, <1>8, PointersType DEF Filled
  <2> QED
    BY <1>3, <1>4, <1>5, <1>7, <2>1, <2>2 DEF Downloading, Gaping, Waiting, Filled
<1> QED
  BY <1>1, <1>6, <1>9, <1>10, <1>11

\* The old block is deleted.
LEMMA DeleteAreaStep ==
    ASSUME OneProgrammer, BInv, NEW p \in Programmers, DeleteArea(p)
    PROVE  BInv'
<1> USE DEF BInv
<1> DEFINE number == op[p].BlkNum
           area == op[p].area
<1>1. Programmers = {p} /\ p \in Workers
  BY AloneIs DEF Workers
<1>2. /\ pc[p] = "delete" /\ PList' = PList /\ AreaCount' = AreaCount /\ MaxIndex' = MaxIndex
      /\ heap' = IF area \in Areas THEN [heap EXCEPT ![area] = Null] ELSE heap
      /\ pc' = [pc EXCEPT ![p] = "countDown"]
      /\ op' = [v \in Workers |-> op'[v]] /\ op'[p] = op[p]
  BY <1>1 DEF DeleteArea, Disturbing, Goto, At, table
<1>3. /\ {"fun", "disturbed", "BlkNum", "BlkLen", "written", "last_packet", "sent", "before",
          "Index"} \subseteq DOMAIN op[p]
      /\ op[p].fun = "download" /\ op[p].BlkNum \in Numbers /\ op[p].BlkLen \in Lengths
      /\ op[p].before # {} /\ IndicesOf(number) = {}
      /\ op[p].Index \in Slots /\ PList[op[p].Index] = Null
      /\ area \in Areas /\ \A k \in Slots : PList[k] # area
  BY <1>2 DEF Downloading, Exchanging, Gaping
<1>4. /\ heap' = [heap EXCEPT ![area] = Null] /\ heap'[area] = Null
      /\ \A k \in Slots : PList[k] \in Areas => heap'[PList[k]] = heap[PList[k]]
      /\ \A a \in Areas : a # area => heap'[a] = heap[a]
  BY <1>2, <1>3 DEF TableType
<1>5. /\ pc'[p] = "countDown" /\ Filled' = Filled
      /\ \A k \in Filled : PList[k] \in Areas /\ heap'[PList[k]] = heap[PList[k]]
  BY <1>1, <1>2, <1>4 DEF TableType, Filled
<1>6. TableType'
  BY <1>1, <1>2, <1>4 DEF TableType, Places, Exchanging
<1>7. \A k \in Slots : Exists(PList[k])' <=> Exists(PList[k])
  BY <1>2, <1>4 DEF Exists
<1>8. TableOK'
  <2>1. \A k \in Slots : k < Cleared => PList'[k] # Wild
    BY <1>2 DEF TableOK
  <2>2. \A k \in Filled' : Exists(PList[k])'
    BY <1>5, <1>7 DEF TableOK, Filled
  <2>3. \A j, k \in Filled' : heap'[PList'[j]].Number = heap'[PList'[k]].Number => j = k
    BY <1>2, <1>5 DEF TableOK
  <2>4. \A k \in Filled' : k <= MaxIndex'
    BY <1>1, <1>2, <1>5 DEF TableOK
  <2>5. \A a \in Areas : Exists(a)' => \E k \in Filled' : a = PList'[k]
    <3>1. \A a \in Areas : Exists(a) /\ a # area => \E k \in Filled : a = PList[k]
      BY <1>1, <1>2 DEF TableOK
    <3> QED
      BY <1>2, <1>4, <1>5, <3>1 DEF Exists
  <2> QED
    BY <2>1, <2>2, <2>3, <2>4, <2>5 DEF TableOK
<1>9. Prefix'
  <2>1. Gaping(p) /\ Gaping(p)'
    BY <1>2, <1>5 DEF Gaping
  <2>2. Held' = Held
    BY <1>2, <1>5, <2>1, AloneIs
  <2>3. ~Uncounted /\ ~Uncounted'
    BY <1>2, <1>5, AloneIs
  <2> QED
    BY <1>2, <2>2, <2>3 DEF Prefix, Count
<1>10. Downloading(p)'
  <2>1. IndicesOf(number)' = {}
    <3>1. \A k \in 0 .. MaxIndex : k \in Slots
      BY IndexType
    <3> QED
      BY <1>2, <1>3, <1>4, <1>7, <3>1 DEF IndicesOf, Exists
  <2> QED
    BY <1>2, <1>3, <1>5, <2>1 DEF Downloading, Gaping, Waiting
<1> QED
  BY <1>1, <1>6, <1>8, <1>9, <1>10

\* The old block is not counted any more.
LEMMA CountDownStep ==
    ASSUME OneProgrammer, BInv, NEW p \in Programmers, CountDown(p)
    PROVE  BInv'
<1> USE DEF BInv
<1> DEFINE number == op[p].BlkNum
<1>1. Programmers = {p} /\ p \in Workers
  BY AloneIs DEF Workers
<1>2. /\ pc[p] = "countDown" /\ PList' = PList /\ AreaCount' = AreaCount - 1
      /\ MaxIndex' = MaxIndex /\ heap' = heap /\ pc' = [pc EXCEPT ![p] = "new"]
      /\ op' = [v \in Workers |-> op'[v]] /\ op'[p] = op[p]
  BY <1>1 DEF CountDown, Disturbing, Goto, At
<1>3. /\ {"fun", "disturbed", "BlkNum", "BlkLen", "written", "last_packet", "sent", "before",
          "Index"} \subseteq DOMAIN op[p]
      /\ op[p].fun = "download" /\ op[p].BlkNum \in Numbers /\ op[p].BlkLen \in Lengths
      /\ op[p].before # {} /\ IndicesOf(number) = {}
      /\ op[p].Index \in Slots /\ PList[op[p].Index] = Null
  BY <1>2 DEF Downloading, Exchanging, Gaping
<1>4. Gaping(p) /\ Gaping(p)' /\ pc'[p] = "new"
  BY <1>1, <1>2, <1>3 DEF Gaping, TableType
<1>5. Filled' = Filled /\ Held' = Held
  <2>1. Filled' = Filled
    BY <1>2 DEF Filled
  <2> QED
    BY <1>2, <1>4, <2>1, AloneIs
<1>6. ~Uncounted /\ Uncounted'
  BY <1>2, <1>3, <1>4, AloneIs
<1>7. AreaCount > 0
  <2>1. Count = AreaCount /\ AreaCount \in Nat
    BY <1>6 DEF Count, TableType
  <2>2. CASE AreaCount <= Cleared
    <3>1. op[p].Index \in 0 .. AreaCount - 1
      BY <1>4, <2>1, <2>2, AloneIs DEF Prefix
    <3> QED
      BY <2>1, <3>1
  <2>3. CASE ~(AreaCount <= Cleared)
    BY <2>1, <2>3, SlotsType
  <2> QED
    BY <2>2, <2>3
<1>8. TableType'
  <2>1. AreaCount' \in Nat
    BY <1>2, <1>7 DEF TableType
  <2> QED
    BY <1>1, <1>2, <2>1 DEF TableType, Places, Exchanging
<1>9. TableOK'
  <2>1. \A k \in Slots : k < Cleared => PList'[k] # Wild
    BY <1>2 DEF TableOK
  <2>2. \A k \in Filled' : Exists(PList[k])'
    BY <1>2, <1>5 DEF TableOK, Exists
  <2>3. \A j, k \in Filled' : heap'[PList'[j]].Number = heap'[PList'[k]].Number => j = k
    BY <1>2, <1>5 DEF TableOK
  <2>4. \A k \in Filled' : k <= MaxIndex'
    BY <1>1, <1>2, <1>5 DEF TableOK
  <2>5. \A a \in Areas : Exists(a)' => \E k \in Filled' : a = PList'[k]
    BY <1>1, <1>2, <1>5 DEF TableOK, Exists
  <2> QED
    BY <2>1, <2>2, <2>3, <2>4, <2>5 DEF TableOK
<1>10. Prefix'
  <2>1. Count' = Count
    <3>1. Count = AreaCount /\ Count' = AreaCount' + 1 /\ AreaCount \in Nat
      BY <1>6 DEF Count, TableType
    <3> QED
      BY <1>2, <3>1
  <2> QED
    BY <1>2, <1>5, <2>1 DEF Prefix
<1>11. Downloading(p)'
  <2>1. IndicesOf(number)' = {}
    BY <1>2, <1>3 DEF IndicesOf, Exists
  <2> QED
    BY <1>2, <1>3, <1>4, <2>1 DEF Downloading, Gaping, Waiting
<1> QED
  BY <1>1, <1>8, <1>9, <1>10, <1>11

\* A new block is made.
LEMMA NewAreaStep ==
    ASSUME OneProgrammer, BInv, NEW p \in Programmers, NewArea(p)
    PROVE  /\ BInv'
           /\ \A a \in Areas : Exists(a) => heap'[a] = heap[a]
<1> USE DEF BInv
<1> DEFINE number == op[p].BlkNum
           new == Min({b \in Areas : heap[b] = Null})
           area == [Number |-> Word(number), Size |-> Word(op[p].BlkLen), PData |-> "unset"]
<1>1. Programmers = {p} /\ p \in Workers
  BY AloneIs DEF Workers
<1>2. /\ pc[p] = "new" /\ PList' = PList /\ AreaCount' = AreaCount /\ MaxIndex' = MaxIndex
      /\ heap' = [heap EXCEPT ![new] = area] /\ pc' = [pc EXCEPT ![p] = "add"]
      /\ op' = [op EXCEPT ![p] = [NewArea |-> new, i |-> 0] ++ op[p]]
  BY <1>1 DEF NewArea, Keep, Goto, At, table
<1>3. /\ {"fun", "disturbed", "BlkNum", "BlkLen", "written", "last_packet", "sent", "before"}
              \subseteq DOMAIN op[p]
      /\ op[p].fun = "download" /\ op[p].BlkNum \in Numbers /\ op[p].BlkLen \in Lengths
      /\ IndicesOf(number) = {}
      /\ Gaping(p) =>
            "Index" \in DOMAIN op[p] /\ op[p].Index \in Slots /\ PList[op[p].Index] = Null
  BY <1>2 DEF Downloading, Exchanging
<1>4. \A a \in Areas : Exists(a) => \E k \in Filled : a = PList[k]
  BY <1>1, <1>2 DEF TableOK
<1>5. new \in Areas /\ ~Exists(new)
  <2>1. {b \in Areas : heap[b] = Null} # {}
    <3> SUFFICES ASSUME \A b \in Areas : heap[b] # Null
                 PROVE  FALSE
      OBVIOUS
    <3> DEFINE at == [k \in Filled |-> PList[k]]
    <3>1. at \in Surjection(Filled, Areas)
      <4>1. \A a \in Areas : \E k \in Filled : a = PList[k]
        BY <1>4 DEF Exists
      <4> QED
        BY <4>1 DEF Filled, Surjection
    <3>2. IsFiniteSet(Slots) /\ Cardinality(Slots) = Capacity
      <4>1. Capacity \in Nat /\ Capacity # 0 /\ Capacity - 1 \in Int
        BY BlocksAssumption
      <4>2. IsFiniteSet(Slots) /\ Cardinality(Slots) = IF 0 > Capacity - 1 THEN 0
                                                       ELSE (Capacity - 1) - 0 + 1
        BY <4>1, FS_Interval DEF Slots
      <4> QED
        BY <4>1, <4>2
    <3>3. IsFiniteSet(Filled) /\ Cardinality(Filled) <= Capacity
      BY <3>2, FS_Subset DEF Filled
    <3>4. Cardinality(Areas) <= Cardinality(Filled)
      <4> HIDE DEF at
      <4> QED
        BY <3>1, <3>3, FS_Surjection
    <3>5. Cardinality(Programmers) = 1
      BY <1>1, FS_Singleton
    <3>6. Cardinality(Areas) = Capacity + 1
      BY <3>5, SlotsType, FS_Interval DEF Areas
    <3>7. Cardinality(Filled) \in Nat
      BY <3>3, FS_CardinalityType
    <3> QED
      BY <3>3, <3>4, <3>6, <3>7, SlotsType
  <2>2. {b \in Areas : heap[b] = Null} \in SUBSET Nat
    BY DEF Areas
  <2> DEFINE S == {b \in Areas : heap[b] = Null}
  <2>3. Min(S) \in S
    <3> HIDE DEF S
    <3> QED
      BY <2>1, <2>2, MinIs DEF S
  <2> QED
    BY <2>3 DEF Exists
<1> HIDE DEF new
<1>6. area \in AreaRecords /\ area # Null
  BY <1>3, PointersType DEF AreaRecords, Words, Sizes
<1> HIDE DEF area
<1>7. /\ heap'[new] = area /\ \A a \in Areas : Exists(a) => a # new
      /\ \A a \in Areas : a # new => heap'[a] = heap[a] /\ (Exists(a)' <=> Exists(a))
  <2>1. DOMAIN heap = Areas
    BY DEF TableType
  <2> QED
    BY <1>2, <1>5, <2>1 DEF Exists
<1>8. /\ DOMAIN op'[p] = DOMAIN op[p] \cup {"NewArea", "i"} /\ op'[p].i = 0
      /\ op'[p].fun = "download" /\ op'[p].BlkNum = number /\ op'[p].BlkLen = op[p].BlkLen
      /\ op'[p].before = op[p].before /\ op'[p].NewArea = new
      /\ "Index" \in DOMAIN op[p] => op'[p].Index = op[p].Index
  <2>1. op'[p] = [NewArea |-> new, i |-> 0] ++ op[p]
    BY <1>1, <1>2 DEF TableType
  <2> QED
    BY <1>3, <2>1 DEF ++
<1>9. pc'[p] = "add" /\ Filled' = Filled
  BY <1>1, <1>2 DEF TableType, Filled
<1>10. \A k \in Slots : PList[k] # new
  <2>1. \A k \in Filled : PList[k] # new
    BY <1>5 DEF TableOK
  <2> QED
    BY <1>5, <2>1 DEF Filled
<1>11. \A k \in Slots : PList[k] \in Areas =>
          heap'[PList[k]] = heap[PList[k]] /\ (Exists(PList[k])' <=> Exists(PList[k]))
  BY <1>2, <1>7, <1>10 DEF Exists
<1>12. TableType'
  BY <1>1, <1>2, <1>6 DEF TableType, Places, Exchanging
<1>13. TableOK'
  <2>1. \A k \in Slots : k < Cleared => PList'[k] # Wild
    BY <1>2 DEF TableOK
  <2>2. \A k \in Filled' : Exists(PList[k])'
    BY <1>9, <1>11 DEF TableOK, Filled
  <2>3. \A j, k \in Filled' : heap'[PList'[j]].Number = heap'[PList'[k]].Number => j = k
    <3>1. \A k \in Filled : PList'[k] = PList[k] /\ heap'[PList[k]] = heap[PList[k]]
      BY <1>2, <1>11 DEF Filled
    <3> QED
      BY <1>9, <3>1 DEF TableOK
  <2>4. \A k \in Filled' : k <= MaxIndex'
    BY <1>1, <1>2, <1>9 DEF TableOK
  <2>5. \A a \in Areas : Exists(a)' => (\E k \in Filled' : a = PList'[k]) \/ a = op'[p].NewArea
    BY <1>2, <1>4, <1>7, <1>8, <1>9
  <2> QED
    BY <1>1, <1>9, <2>1, <2>2, <2>3, <2>4, <2>5 DEF TableOK
<1>14. Gaping(p)' <=> Gaping(p)
  BY <1>2, <1>8, <1>9 DEF Gaping
<1>15. Prefix'
  <2>1. Held' = Held
    <3>1. CASE Gaping(p)
      <4>1. Held = Filled \cup {op[p].Index} /\ Held' = Filled' \cup {op'[p].Index}
        BY <1>14, <3>1, AloneIs
      <4> QED
        BY <1>3, <1>8, <1>9, <3>1, <4>1
    <3>2. CASE ~Gaping(p)
      BY <1>9, <1>14, <3>2, AloneIs
    <3> QED
      BY <3>1, <3>2
  <2>2. Uncounted' <=> Uncounted
    BY <1>2, <1>8, <1>9, AloneIs
  <2> QED
    BY <1>2, <2>1, <2>2 DEF Prefix, Count
<1>16. Downloading(p)'
  <2>1. IndicesOf(number)' = {}
    <3>1. \A k \in 0 .. MaxIndex : ~ (Exists(PList[k]) /\ heap[PList[k]].Number = Word(number))
      BY <1>3 DEF IndicesOf
    <3>2. \A k \in 0 .. MaxIndex :
             Exists(PList[k])' => Exists(PList[k]) /\ heap'[PList[k]] = heap[PList[k]]
      BY <1>2, <1>11, IndexType DEF Exists
    <3> QED
      BY <1>2, <1>8, <3>1, <3>2 DEF IndicesOf, Exists
  <2>2. heap'[new].Number = Word(number)
    BY <1>7 DEF area
  <2>3. \A k \in Slots : PList'[k] # op'[p].NewArea
    BY <1>2, <1>8, <1>10
  <2>4. Gaping(p)' => op'[p].Index \in Slots /\ PList'[op'[p].Index] = Null
    BY <1>2, <1>3, <1>8, <1>14
  <2> QED
    <3>1. Exists(op[p].NewArea)'
      BY <1>5, <1>6, <1>7, <1>8 DEF Exists
    <3>2. heap'[op'[p].NewArea].Number = Word(op'[p].BlkNum)
      BY <1>8, <2>2
    <3>3. IndicesOf(op[p].BlkNum)' = {}
      BY <2>1
    <3> QED
      BY <1>3, <1>8, <1>9, <1>14, <2>3, <2>4, <3>1, <3>2, <3>3 DEF Downloading, Waiting
<1>17. \A a \in Areas : Exists(a) => heap'[a] = heap[a]
  BY <1>7
<1> QED
  BY <1>1, <1>12, <1>13, <1>15, <1>16, <1>17

\* There is no room for it: then there was no old block.
LEMMA AddFailsStep ==
    ASSUME OneProgrammer, BInv, InCleared, NEW p \in Programmers, AddFails(p)
    PROVE  /\ BInv'
           /\ \A k \in Slots : PList[k] \in Areas => heap'[PList[k]] = heap[PList[k]]
<1> USE DEF BInv
<1> DEFINE number == op[p].BlkNum
           new == op[p].NewArea
<1>1. Programmers = {p} /\ p \in Workers
  BY AloneIs DEF Workers
<1>2. /\ pc[p] = "add" /\ PList' = PList /\ AreaCount' = AreaCount /\ MaxIndex' = MaxIndex
      /\ Hit(p) \/ FindFirstFree = -1
      /\ heap' = [heap EXCEPT ![new] = Null] /\ pc' = [pc EXCEPT ![p] = "event"]
      /\ op' = [op EXCEPT ![p] = [RetCode |-> "memoryLimit"] ++ op[p]]
  BY <1>1 DEF AddFails, Keep, Goto, At, table
<1>3. /\ {"fun", "disturbed", "BlkNum", "BlkLen", "written", "last_packet", "sent", "before",
          "NewArea"} \subseteq DOMAIN op[p]
      /\ op[p].fun = "download" /\ IndicesOf(number) = {} /\ op[p].i \in Nat
      /\ new \in Areas /\ \A k \in Slots : PList[k] # new
      /\ Gaping(p) => op[p].Index \in Slots /\ PList[op[p].Index] = Null
  BY <1>2 DEF Downloading, Exchanging, Exists
<1>4. Free = {}
  BY <1>1, <1>2, <1>3, SearchIs, FirstFreeIs
<1>5. ~Gaping(p) /\ op[p].before = {}
  BY <1>2, <1>3, <1>4 DEF Free, Gaping
<1>6. /\ pc'[p] = "event" /\ {"RetCode", "BlkNum", "before"} \subseteq DOMAIN op'[p]
      /\ op'[p].BlkNum = number /\ op'[p].before = {}
  <2>1. pc'[p] = "event" /\ op'[p] = [RetCode |-> "memoryLimit"] ++ op[p]
    BY <1>1, <1>2 DEF TableType
  <2> QED
    BY <1>3, <1>5, <2>1 DEF ++
<1>7. /\ heap'[new] = Null /\ \A a \in Areas : a # new => heap'[a] = heap[a]
      /\ \A k \in Slots : PList[k] \in Areas => heap'[PList[k]] = heap[PList[k]]
  BY <1>2, <1>3 DEF TableType
<1>8. /\ Filled' = Filled
      /\ \A k \in Filled : /\ PList[k] \in Areas /\ PList'[k] = PList[k]
                           /\ heap'[PList[k]] = heap[PList[k]]
  BY <1>2, <1>7 DEF Filled
<1>9. TableType'
  BY <1>1, <1>2 DEF TableType, Places
<1>10. TableOK'
  <2>1. \A k \in Slots : k < Cleared => PList'[k] # Wild
    BY <1>2 DEF TableOK
  <2>2. \A k \in Filled' : Exists(PList[k])'
    BY <1>8 DEF TableOK, Exists
  <2>3. \A j, k \in Filled' : heap'[PList'[j]].Number = heap'[PList'[k]].Number => j = k
    BY <1>8 DEF TableOK
  <2>4. \A k \in Filled' : k <= MaxIndex'
    BY <1>1, <1>2, <1>8 DEF TableOK
  <2>5. \A a \in Areas : Exists(a)' => \E k \in Filled' : a = PList'[k]
    <3>1. \A a \in Areas : Exists(a) /\ a # new => \E k \in Filled : a = PList[k]
      BY <1>1, <1>2 DEF TableOK
    <3> QED
      BY <1>7, <1>8, <3>1 DEF Exists
  <2> QED
    BY <2>1, <2>2, <2>3, <2>4, <2>5 DEF TableOK
<1>11. ~Gaping(p)'
  BY <1>6 DEF Gaping
<1>12. Prefix'
  <2>1. Held' = Held
    BY <1>5, <1>8, <1>11, AloneIs
  <2>2. ~Uncounted' /\ ~Uncounted
    BY <1>2, <1>5, <1>6, AloneIs
  <2> QED
    BY <1>2, <2>1, <2>2 DEF Prefix, Count
<1>13. Downloading(p)'
  <2>1. BlocksOf(number)' = {}
    <3>1. \A k \in 0 .. MaxIndex : ~ (Exists(PList[k]) /\ heap[PList[k]].Number = Word(number))
      BY <1>3 DEF IndicesOf
    <3>2. \A k \in 0 .. MaxIndex :
             Exists(PList[k])' => Exists(PList[k]) /\ heap'[PList[k]] = heap[PList[k]]
      BY <1>2, <1>7, IndexType DEF Exists
    <3> QED
      BY <1>2, <1>6, <3>1, <3>2 DEF BlocksOf, IndicesOf, Exists
  <2> QED
    BY <1>6, <1>11, <2>1 DEF Downloading, Waiting, Exchanging
<1> QED
  BY <1>1, <1>7, <1>9, <1>10, <1>12, <1>13

\* There is room for the new block.
LEMMA AddStep ==
    ASSUME OneProgrammer, BInv, NEW p \in Programmers, Add(p)
    PROVE  BInv'
<1> USE DEF BInv
<1> DEFINE number == op[p].BlkNum
           slot == FindFirstFree
<1>1. Programmers = {p} /\ p \in Workers
  BY AloneIs DEF Workers
<1>2. /\ pc[p] = "add" /\ heap' = heap /\ PList' = PList /\ AreaCount' = AreaCount
      /\ MaxIndex' = MaxIndex /\ FindFirstFree # -1
      /\ pc' = [pc EXCEPT ![p] = "store"]
      /\ op' = [op EXCEPT ![p] = [Index |-> slot] ++ op[p]]
  BY <1>1 DEF Add, Keep, Goto, At, Unchanging, table
<1>3. /\ {"fun", "disturbed", "BlkNum", "BlkLen", "written", "last_packet", "sent", "before",
          "NewArea"} \subseteq DOMAIN op[p]
      /\ op[p].fun = "download" /\ op[p].BlkNum \in Numbers /\ op[p].BlkLen \in Lengths
      /\ IndicesOf(number) = {}
      /\ Exists(op[p].NewArea) /\ heap[op[p].NewArea].Number = Word(number)
      /\ \A k \in Slots : PList[k] # op[p].NewArea
      /\ Gaping(p) => op[p].Index \in Slots /\ PList[op[p].Index] = Null
  BY <1>2 DEF Downloading, Exchanging
<1>4. Free # {} /\ slot \in Free /\ \A k \in Free : slot <= k
  BY <1>2, FirstFreeIs
<1>5. slot \in Slots /\ PList[slot] = Null /\ slot \notin Filled /\ slot \in Nat
  BY <1>4, SlotsType, PointersType DEF Free, Filled
<1> HIDE DEF slot
<1>6. /\ DOMAIN op'[p] = DOMAIN op[p] \cup {"Index"} /\ op'[p].Index = slot
      /\ op'[p].fun = "download" /\ op'[p].BlkNum = number /\ op'[p].BlkLen = op[p].BlkLen
      /\ op'[p].before = op[p].before /\ op'[p].NewArea = op[p].NewArea
  <2>1. op'[p] = [Index |-> slot] ++ op[p]
    BY <1>1, <1>2 DEF TableType
  <2> QED
    BY <1>3, <2>1 DEF ++
<1>7. pc'[p] = "store" /\ Filled' = Filled /\ \A a : Exists(a)' <=> Exists(a)
  BY <1>1, <1>2 DEF TableType, Filled, Exists
<1>8. TableType'
  BY <1>1, <1>2 DEF TableType, Places, Exchanging
<1>9. TableOK'
  <2>1. \A k \in Slots : k < Cleared => PList'[k] # Wild
    BY <1>2 DEF TableOK
  <2>2. \A k \in Filled' : Exists(PList[k])'
    BY <1>2, <1>7 DEF TableOK, Exists
  <2>3. \A j, k \in Filled' : heap'[PList'[j]].Number = heap'[PList'[k]].Number => j = k
    BY <1>2, <1>7 DEF TableOK
  <2>4. \A k \in Filled' : k <= MaxIndex'
    BY <1>1, <1>2, <1>7 DEF TableOK
  <2>5. \A a \in Areas : Exists(a)' => (\E k \in Filled' : a = PList'[k]) \/ a = op'[p].NewArea
    BY <1>1, <1>2, <1>6, <1>7 DEF TableOK
  <2> QED
    BY <1>1, <1>7, <2>1, <2>2, <2>3, <2>4, <2>5 DEF TableOK
<1>10. Gaping(p)' <=> Gaping(p)
  BY <1>2, <1>6, <1>7 DEF Gaping
<1>11. Count' = Count
  <2>1. Uncounted' <=> Uncounted
    BY <1>2, <1>6, <1>7, AloneIs
  <2> QED
    BY <1>2, <2>1 DEF Count
<1>12. Filled \subseteq Slots /\ Filled \cap Free = {}
  BY PointersType DEF Filled, Free
<1>13. CASE Gaping(p)
  <2>1. Prefix'
    <3>1. Held = Filled \cup {op[p].Index} /\ Held' = Filled' \cup {slot}
      BY <1>6, <1>10, <1>13, AloneIs
    <3>2. ASSUME Count <= Cleared PROVE slot = op[p].Index
      <4>1. op[p].Index \in Free /\ slot <= op[p].Index /\ op[p].Index \in Nat
        BY <1>3, <1>4, <1>13, SlotsType DEF Free
      <4>2. Held = 0 .. Count - 1 /\ Count \in Nat
        BY <3>2 DEF Prefix, Count, TableType
      <4>3. op[p].Index <= Count - 1
        BY <3>1, <4>1, <4>2
      <4>4. slot \in Held
        BY <1>5, <4>1, <4>2, <4>3
      <4> QED
        BY <1>5, <3>1, <4>4
    <3> QED
      BY <1>2, <1>7, <1>11, <3>1, <3>2 DEF Prefix
  <2>2. Downloading(p)'
    <3>1. IndicesOf(op[p].BlkNum)' = {}
      BY <1>2, <1>3, <1>6 DEF IndicesOf, Exists
    <3>2. op'[p].before # {}
      BY <1>2, <1>6, <1>13 DEF Gaping
    <3> QED
      BY <1>2, <1>3, <1>5, <1>6, <1>7, <3>1, <3>2 DEF Downloading, Waiting
  <2> QED
    BY <1>1, <1>8, <1>9, <2>1, <2>2
<1>14. CASE ~Gaping(p)
  <2>1. Prefix'
    <3>1. Held' = Held
      BY <1>7, <1>10, <1>14, AloneIs
    <3> QED
      BY <1>2, <1>11, <3>1 DEF Prefix
  <2>2. ASSUME AreaCount < Cleared PROVE slot = AreaCount
    <3>1. Count = AreaCount /\ AreaCount \in Nat /\ Held = Filled
      BY <1>2, <1>14, AloneIs DEF Count, TableType, Gaping
    <3>2. Filled = 0 .. AreaCount - 1
      BY <2>2, <3>1, SlotsType DEF Prefix
    <3>3. AreaCount \in Slots
      BY <2>2, <3>1, SlotsType DEF Slots
    <3>4. AreaCount \in Free
      BY <2>2, <3>1, <3>2, <3>3 DEF TableOK, Filled, Free, TableType
    <3>5. slot <= AreaCount
      BY <1>4, <3>4
    <3>6. ~ (slot < AreaCount)
      BY <1>5, <3>1, <3>2
    <3> QED
      BY <1>5, <3>1, <3>5, <3>6
  <2>3. Downloading(p)'
    <3>1. IndicesOf(op[p].BlkNum)' = {}
      BY <1>2, <1>3, <1>6 DEF IndicesOf, Exists
    <3>2. op'[p].before = {} /\ (AreaCount' < Cleared => op'[p].Index = AreaCount')
      BY <1>2, <1>6, <1>14, <2>2 DEF Gaping
    <3> QED
      BY <1>2, <1>3, <1>5, <1>6, <1>7, <3>1, <3>2 DEF Downloading, Waiting
  <2> QED
    BY <1>1, <1>8, <1>9, <2>1, <2>3
<1> QED
  BY <1>13, <1>14

\* The new block is put into its slot.
LEMMA StoreStep ==
    ASSUME OneProgrammer, BInv, NEW p \in Programmers, Store(p)
    PROVE  BInv'
<1> USE DEF BInv
<1> DEFINE number == op[p].BlkNum
           slot == op[p].Index
           new == op[p].NewArea
<1>1. Programmers = {p} /\ p \in Workers
  BY AloneIs DEF Workers
<1>2. /\ pc[p] = "store" /\ heap' = heap /\ AreaCount' = AreaCount /\ MaxIndex' = MaxIndex
      /\ PList' = [PList EXCEPT ![slot] = new]
      /\ pc' = [pc EXCEPT ![p] = "countUp"]
      /\ op' = [v \in Workers |-> op'[v]] /\ op'[p] = op[p]
  BY <1>1 DEF Store, Disturbing, Goto, At
<1>3. /\ {"fun", "disturbed", "BlkNum", "BlkLen", "written", "last_packet", "sent", "before",
          "NewArea", "Index"} \subseteq DOMAIN op[p]
      /\ op[p].fun = "download" /\ op[p].BlkNum \in Numbers /\ op[p].BlkLen \in Lengths
      /\ IndicesOf(number) = {}
      /\ new \in Areas /\ Exists(new) /\ heap[new].Number = Word(number)
      /\ \A k \in Slots : PList[k] # new
      /\ slot \in Slots /\ PList[slot] = Null
      /\ op[p].before = {} /\ AreaCount < Cleared => slot = AreaCount
  BY <1>2 DEF Downloading, Exchanging, Exists
<1>4. pc'[p] = "countUp" /\ \A a : Exists(a)' <=> Exists(a)
  BY <1>1, <1>2 DEF TableType, Exists
<1>5. /\ PList'[slot] = new /\ \A k \in Slots : k # slot => PList'[k] = PList[k]
      /\ Filled' = Filled \cup {slot} /\ slot \notin Filled /\ Filled \subseteq Slots
  BY <1>2, <1>3, PointersType DEF TableType, Filled
<1>6. TableType'
  BY <1>1, <1>2, <1>3 DEF TableType, Places, Exchanging
<1>7. \A k \in Filled : k <= MaxIndex /\ heap[PList[k]].Number # Word(number)
  <2>1. \A k \in Filled : k <= MaxIndex
    BY <1>1, <1>2 DEF TableOK
  <2>2. \A k \in Filled : Exists(PList[k]) /\ k \in Nat
    BY <1>5, SlotsType DEF TableOK
  <2> QED
    BY <1>3, <2>1, <2>2, SlotsType DEF IndicesOf, TableType
<1>8. TableOK'
  <2>1. \A k \in Slots : k < Cleared => PList'[k] # Wild
    BY <1>3, <1>5, PointersType DEF TableOK
  <2>2. \A k \in Filled' : Exists(PList[k])'
    BY <1>2, <1>3, <1>5 DEF TableOK, Exists
  <2>3. \A j, k \in Filled' : heap'[PList'[j]].Number = heap'[PList'[k]].Number => j = k
    <3>1. \A k \in Filled : PList'[k] = PList[k]
      BY <1>5
    <3> QED
      BY <1>2, <1>3, <1>5, <1>7, <3>1 DEF TableOK
  <2>4. \A k \in Filled' : k <= MaxIndex' \/ k = op'[p].Index
    BY <1>2, <1>5, <1>7
  <2>5. \A a \in Areas : Exists(a)' => \E k \in Filled' : a = PList'[k]
    <3>1. \A a \in Areas : Exists(a) => (\E k \in Filled : a = PList[k]) \/ a = new
      BY <1>1, <1>2 DEF TableOK
    <3> QED
      BY <1>4, <1>5, <3>1
  <2> QED
    BY <1>1, <1>4, <2>1, <2>2, <2>3, <2>4, <2>5 DEF TableOK
<1>9. ~Gaping(p)' /\ Uncounted' /\ Held' = Filled'
  <2>1. ~Gaping(p)'
    BY <1>4 DEF Gaping
  <2> QED
    BY <1>4, <2>1, AloneIs
<1>10. Prefix'
  <2>1. Count' = AreaCount + 1 /\ AreaCount \in Nat
    BY <1>2, <1>9 DEF Count, TableType
  <2>2. CASE Gaping(p)
    <3>1. Uncounted /\ Held = Filled \cup {slot}
      BY <1>2, <2>2, AloneIs DEF Gaping
    <3>2. Count = AreaCount + 1
      BY <3>1 DEF Count
    <3> QED
      BY <1>2, <1>5, <1>9, <2>1, <3>1, <3>2 DEF Prefix
  <2>3. CASE ~Gaping(p)
    <3>1. ~Uncounted /\ Held = Filled /\ op[p].before = {}
      BY <1>2, <2>3, AloneIs DEF Gaping
    <3>2. Count = AreaCount
      BY <3>1 DEF Count
    <3>3. ASSUME Count' <= Cleared
          PROVE  Held' = 0 .. Count' - 1 /\ MaxIndex' <= IF Count' = 0 THEN 0 ELSE Count' - 1
      <4>1. AreaCount < Cleared /\ slot = AreaCount
        BY <1>3, <2>1, <3>1, <3>3, SlotsType
      <4>2. Filled = 0 .. AreaCount - 1 /\ MaxIndex <= IF AreaCount = 0 THEN 0 ELSE AreaCount - 1
        BY <2>1, <3>1, <3>2, <4>1, SlotsType DEF Prefix
      <4>3. (0 .. AreaCount - 1) \cup {AreaCount} = 0 .. AreaCount
        BY <2>1
      <4>4. Held' = 0 .. AreaCount
        BY <1>5, <1>9, <4>1, <4>2, <4>3
      <4>5. MaxIndex' <= AreaCount /\ MaxIndex \in Nat
        BY <1>2, <2>1, <4>2, SlotsType DEF TableType
      <4> QED
        BY <2>1, <4>4, <4>5
    <3> QED
      BY <3>3 DEF Prefix
  <2> QED
    BY <2>2, <2>3
<1>11. Downloading(p)'
  BY <1>2, <1>3, <1>4, <1>5, <1>9 DEF Downloading, Waiting
<1> QED
  BY <1>1, <1>6, <1>8, <1>10, <1>11

\* The new block is counted.
LEMMA CountUpStep ==
    ASSUME OneProgrammer, BInv, NEW p \in Programmers, CountUp(p)
    PROVE  BInv'
<1> USE DEF BInv
<1>1. Programmers = {p} /\ p \in Workers
  BY AloneIs DEF Workers
<1>2. /\ pc[p] = "countUp" /\ heap' = heap /\ PList' = PList /\ MaxIndex' = MaxIndex
      /\ AreaCount' = AreaCount + 1 /\ pc' = [pc EXCEPT ![p] = "raise"]
      /\ op' = [v \in Workers |-> op'[v]] /\ op'[p] = op[p]
  BY <1>1 DEF CountUp, Disturbing, Goto, At
<1>3. pc'[p] = "raise" /\ Filled' = Filled /\ \A a : Exists(a)' <=> Exists(a)
  BY <1>1, <1>2 DEF TableType, Exists, Filled
<1>4. TableType'
  <2>1. AreaCount' \in Nat
    BY <1>2 DEF TableType
  <2> QED
    BY <1>1, <1>2, <2>1 DEF TableType, Places, Exchanging
<1>5. TableOK'
  <2>1. \A k \in Slots : k < Cleared => PList'[k] # Wild
    BY <1>2 DEF TableOK
  <2>2. \A k \in Filled' : Exists(PList[k])'
    BY <1>2, <1>3 DEF TableOK, Exists
  <2>3. \A j, k \in Filled' : heap'[PList'[j]].Number = heap'[PList'[k]].Number => j = k
    BY <1>2, <1>3 DEF TableOK
  <2>4. \A k \in Filled' : k <= MaxIndex' \/ k = op'[p].Index
    BY <1>1, <1>2, <1>3 DEF TableOK
  <2>5. \A a \in Areas : Exists(a)' => \E k \in Filled' : a = PList'[k]
    BY <1>1, <1>2, <1>3 DEF TableOK
  <2> QED
    BY <1>1, <1>3, <2>1, <2>2, <2>3, <2>4, <2>5 DEF TableOK
<1>6. Prefix'
  <2>1. ~Gaping(p) /\ ~Gaping(p)'
    BY <1>2, <1>3 DEF Gaping
  <2>2. Held' = Held /\ Uncounted /\ ~Uncounted'
    BY <1>2, <1>3, <2>1, AloneIs
  <2>3. Count' = Count
    BY <1>2, <2>2 DEF Count
  <2> QED
    BY <1>2, <2>2, <2>3 DEF Prefix
<1>7. Downloading(p)'
  BY <1>2, <1>3 DEF Downloading, Waiting, Exchanging, Gaping
<1> QED
  BY <1>1, <1>4, <1>5, <1>6, <1>7

\* IndexOf reaches the new block.
LEMMA RaiseMaxIndexStep ==
    ASSUME OneProgrammer, BInv, NEW p \in Programmers, RaiseMaxIndex(p)
    PROVE  BInv'
<1> USE DEF BInv
<1> DEFINE slot == op[p].Index
<1>1. Programmers = {p} /\ p \in Workers
  BY AloneIs DEF Workers
<1>2. /\ pc[p] = "raise" /\ heap' = heap /\ PList' = PList /\ AreaCount' = AreaCount
      /\ MaxIndex' = (IF MaxIndex < slot THEN slot ELSE MaxIndex)
      /\ pc' = [pc EXCEPT ![p] = "event"]
      /\ op' = [v \in Workers |-> op'[v]] /\ op'[p] = [RetCode |-> "ok"] ++ op[p]
  BY <1>1 DEF RaiseMaxIndex, Disturbing, Goto, At
<1>3. /\ {"fun", "disturbed", "BlkNum", "BlkLen", "written", "last_packet", "sent", "before"}
              \subseteq DOMAIN op[p]
      /\ slot \in Filled /\ slot \in Slots /\ slot \in Nat /\ MaxIndex \in Nat
      /\ Filled \subseteq Nat
  BY <1>2, SlotsType DEF Downloading, Exchanging, Filled, TableType
<1>4. pc'[p] = "event" /\ Filled' = Filled /\ \A a : Exists(a)' <=> Exists(a)
  BY <1>1, <1>2 DEF TableType, Exists, Filled
<1>5. TableType'
  BY <1>1, <1>2, <1>3 DEF TableType, Places
<1>6. TableOK'
  <2>1. \A k \in Slots : k < Cleared => PList'[k] # Wild
    BY <1>2 DEF TableOK
  <2>2. \A k \in Filled' : Exists(PList[k])'
    BY <1>2, <1>4 DEF TableOK, Exists
  <2>3. \A j, k \in Filled' : heap'[PList'[j]].Number = heap'[PList'[k]].Number => j = k
    BY <1>2, <1>4 DEF TableOK
  <2>4. \A k \in Filled' : k <= MaxIndex'
    <3>1. \A k \in Filled : k <= MaxIndex \/ k = slot
      BY <1>1, <1>2 DEF TableOK
    <3> QED
      BY <1>2, <1>3, <1>4, <3>1
  <2>5. \A a \in Areas : Exists(a)' => \E k \in Filled' : a = PList'[k]
    BY <1>1, <1>2, <1>4 DEF TableOK
  <2> QED
    BY <2>1, <2>2, <2>3, <2>4, <2>5 DEF TableOK
<1>7. Prefix'
  <2>1. ~Gaping(p) /\ ~Gaping(p)'
    BY <1>2, <1>4 DEF Gaping
  <2>2. Held' = Held /\ Held = Filled /\ ~Uncounted /\ ~Uncounted'
    BY <1>2, <1>4, <2>1, AloneIs
  <2>3. Count' = Count /\ Count \in Nat
    BY <1>2, <2>2 DEF Count, TableType
  <2>4. ASSUME Count <= Cleared
        PROVE  Held = 0 .. Count - 1 /\ MaxIndex' <= IF Count = 0 THEN 0 ELSE Count - 1
    <3>1. Held = 0 .. Count - 1 /\ MaxIndex <= IF Count = 0 THEN 0 ELSE Count - 1
      BY <2>4 DEF Prefix
    <3>2. slot <= Count - 1
      BY <1>3, <2>2, <2>3, <3>1
    <3> QED
      BY <1>2, <1>3, <2>3, <3>1, <3>2
  <2> QED
    BY <2>2, <2>3, <2>4 DEF Prefix
<1>8. Downloading(p)'
  <2>1. {"RetCode", "BlkNum", "before"} \subseteq DOMAIN op'[p] /\ op'[p].RetCode = "ok"
    BY <1>2, <1>3 DEF ++
  <2> QED
    BY <1>4, <2>1 DEF Downloading, Waiting, Exchanging, Gaping
<1> QED
  BY <1>1, <1>5, <1>6, <1>7, <1>8

-----------------------------------------------------------------------------
(* The readers *)

\* Between two changes the blocks fill the first slots, up to MaxIndex.
LEMMA SteadyTable ==
    ASSUME BInv, Steady, AreaCount <= Cleared
    PROVE  /\ Filled = 0 .. AreaCount - 1
           /\ AreaCount > 0 => MaxIndex = AreaCount - 1
<1>1. Held = Filled /\ ~Uncounted
  BY DEF Steady, Held, Uncounted, Gaping
<1>2. Count = AreaCount /\ AreaCount \in Nat
  BY <1>1 DEF Count, BInv, TableType
<1>3. Filled = 0 .. AreaCount - 1 /\ MaxIndex <= IF AreaCount = 0 THEN 0 ELSE AreaCount - 1
  BY <1>1, <1>2 DEF BInv, Prefix
<1>4. \A k \in Filled : k <= MaxIndex
  BY DEF Steady, BInv, TableOK
<1>5. AreaCount > 0 => MaxIndex = AreaCount - 1
  <2>1. MaxIndex \in Nat
    BY SlotsType DEF BInv, TableType
  <2>2. AreaCount > 0 => AreaCount - 1 \in Filled
    BY <1>2, <1>3
  <2> QED
    BY <1>2, <1>3, <1>4, <2>1, <2>2
<1> QED
  BY <1>3, <1>5

\* A worker that is not disturbed goes on as it was when the blocks of the table
\* stay what they are.
LEMMA OthersKept ==
    ASSUME BInv, NEW v \in Workers, Fields(v), Uploading(v), Listing(v),
           PList' = PList, AreaCount' = AreaCount, MaxIndex' = MaxIndex,
           \A k \in Slots : PList[k] \in Areas => heap'[PList[k]] = heap[PList[k]],
           Steady => Steady', pc'[v] = pc[v], op'[v] = op[v]
    PROVE  Fields(v)' /\ Uploading(v)' /\ Listing(v)'
<1>1. Filled' = Filled /\ \A k \in Filled : k \in Slots /\ heap'[PList[k]] = heap[PList[k]]
  BY DEF Filled
<1>2. Fields(v)'
  BY DEF Fields
<1>3. Uploading(v)'
  BY <1>1 DEF Uploading
<1>4. Listing(v)'
  <2> SUFFICES ASSUME pc[v] # "idle", op[v].fun = "list", ~op[v].disturbed
               PROVE  Listing(v)'
    BY DEF Listing
  <2>1. Steady /\ Steady'
    BY DEF Listing
  <2>2. AreaCount <= Cleared =>
           \A k \in 0 .. AreaCount - 1 : PList'[k] = PList[k] /\ heap'[PList[k]] = heap[PList[k]]
    BY <1>1, <2>1, SteadyTable
  <2>3. pc[v] \in {"get", "item"} => ItemsOf(v, op[v].i)'
    <3> SUFFICES ASSUME pc[v] \in {"get", "item"}, AreaCount <= Cleared
                 PROVE  /\ DOMAIN op[v].items = 0 .. op[v].i - 1
                        /\ \A k \in 0 .. op[v].i - 1 : op[v].items[k] = heap'[PList'[k]].Number
      BY DEF ItemsOf
    <3>1. op[v].i \in 0 .. MaxIndex /\ AreaCount > 0 /\ ItemsOf(v, op[v].i)
      BY DEF Listing
    <3>2. MaxIndex = AreaCount - 1 /\ AreaCount \in Nat
      BY <2>1, <3>1, SteadyTable DEF BInv, TableType
    <3>3. \A k \in 0 .. op[v].i - 1 : k \in 0 .. AreaCount - 1
      BY <3>1, <3>2
    <3> QED
      BY <2>2, <3>1, <3>3 DEF ItemsOf
  <2>4. pc[v] = "event" => ItemsOf(v, AreaCount)'
    <3> SUFFICES ASSUME pc[v] = "event", AreaCount <= Cleared
                 PROVE  /\ DOMAIN op[v].items = 0 .. AreaCount - 1
                        /\ \A k \in 0 .. AreaCount - 1 : op[v].items[k] = heap'[PList'[k]].Number
      BY DEF ItemsOf
    <3>1. ItemsOf(v, AreaCount)
      BY DEF Listing
    <3> QED
      BY <2>2, <3>1 DEF ItemsOf
  <2> QED
    BY <2>1, <2>3, <2>4 DEF Listing
<1> QED
  BY <1>2, <1>3, <1>4

\* A worker that is disturbed keeps no more than its fields.
LEMMA OthersDisturbed ==
    ASSUME NEW v \in Workers, Fields(v), pc'[v] = pc[v],
           op'[v] = IF op[v] = Idle THEN Idle ELSE [op[v] EXCEPT !.disturbed = TRUE]
    PROVE  Fields(v)' /\ Uploading(v)' /\ Listing(v)'
<1>1. CASE pc[v] = "idle"
  BY <1>1 DEF Fields, Uploading, Listing, Waiting, Exchanging
<1>2. CASE pc[v] # "idle"
  <2>1. {"fun", "disturbed"} \subseteq DOMAIN op[v]
    BY <1>2 DEF Fields
  <2>2. op[v] # Idle
    BY <2>1 DEF Idle
  <2>3. /\ DOMAIN op'[v] = DOMAIN op[v] /\ op'[v].fun = op[v].fun /\ op'[v].disturbed = TRUE
    BY <2>1, <2>2
  <2> QED
    BY <1>2, <2>1, <2>3 DEF Fields, Uploading, Listing
<1> QED
  BY <1>1, <1>2

\* What a worker does that only reads, or the end of a request, leaves the table
\* and the others alone.
LEMMA ReaderKeeps ==
    ASSUME BInv, RInv, NEW w \in Workers, heap' = heap, table' = table,
           NEW l \in {"idle", "event"} \cup ReaderPlaces, NEW locals,
           pc[w] \in {"idle", "event"} \cup ReaderPlaces,
           pc' = [pc EXCEPT ![w] = l], op' = [op EXCEPT ![w] = locals],
           l = "event" => locals.fun # "download"
    PROVE  /\ pc'[w] = l /\ op'[w] = locals
           /\ Steady => Steady'
           /\ Fields(w)' /\ Uploading(w)' /\ Listing(w)' => BInv' /\ RInv'
<1>1. pc'[w] = l /\ op'[w] = locals
  BY DEF BInv, TableType
<1>2. \A v \in Workers \ {w} : pc'[v] = pc[v] /\ op'[v] = op[v]
  BY DEF BInv, TableType
<1>3. PList' = PList /\ AreaCount' = AreaCount /\ MaxIndex' = MaxIndex
  BY DEF table
<1>4. Calm(w) /\ Calm(w)'
  BY <1>1 DEF Calm, Gaping, ReaderPlaces
<1>5. Programmers \subseteq Workers
  BY DEF Workers
<1>6. Steady => Steady'
  <2>1. w \in Programmers => pc'[w] \notin {"delete", "countDown", "countUp", "raise"}
    BY <1>1 DEF ReaderPlaces
  <2>2. \A p \in Programmers \ {w} : Gaping(p)' <=> Gaping(p)
    BY <1>2, <1>5 DEF Gaping
  <2> QED
    BY <1>2, <1>4, <1>5, <2>1, <2>2 DEF Steady, Calm
<1>7. TableType'
  BY <1>3 DEF BInv, TableType, Places
<1>8. TableOK' /\ Prefix'
  BY <1>2, <1>4, <1>5, <1>7, TableKept
<1>9. \A p \in Programmers : Downloading(p)'
  <2>1. \A p \in Programmers \ {w} : Downloading(p)'
    BY <1>2, <1>5, DownloadKept
  <2>2. Downloading(w)'
    BY <1>1, <1>4 DEF Downloading, Calm, Waiting, Exchanging, ReaderPlaces
  <2> QED
    BY <2>1, <2>2
<1>10. \A v \in Workers \ {w} : Fields(v)' /\ Uploading(v)' /\ Listing(v)'
  BY <1>2, <1>3, <1>6, OthersKept DEF RInv
<1> QED
  BY <1>1, <1>6, <1>7, <1>8, <1>9, <1>10 DEF BInv, RInv

\* What a programmer does that changes nothing others see.
LEMMA ProgrammerKeeps ==
    ASSUME OneProgrammer, BInv, RInv, NEW p \in Programmers,
           PList' = PList, AreaCount' = AreaCount, MaxIndex' = MaxIndex,
           \A k \in Slots : PList[k] \in Areas => heap'[PList[k]] = heap[PList[k]],
           Steady => Steady',
           \A v \in Workers \ {p} : pc'[v] = pc[v] /\ op'[v] = op[v],
           pc'[p] # "idle", pc'[p] \notin ReaderPlaces, op'[p].fun = "download",
           {"fun", "disturbed"} \subseteq DOMAIN op'[p], op'[p].disturbed \in BOOLEAN
    PROVE  RInv'
<1>1. \A v \in Workers \ {p} : Fields(v)' /\ Uploading(v)' /\ Listing(v)'
  BY OthersKept DEF RInv
<1>2. Fields(p)' /\ Uploading(p)' /\ Listing(p)'
  BY DEF Fields, Uploading, Listing, ReaderPlaces
<1> QED
  BY <1>1, <1>2 DEF RInv

\* What a programmer does that disturbs the others.
LEMMA ProgrammerDisturbs ==
    ASSUME RInv, NEW p \in Programmers, NEW locals, Disturbing(p, locals),
           \A v \in Workers \ {p} : pc'[v] = pc[v],
           pc'[p] # "idle", pc'[p] \notin ReaderPlaces, locals.fun = "download",
           {"fun", "disturbed"} \subseteq DOMAIN locals, locals.disturbed \in BOOLEAN
    PROVE  RInv'
<1>1. op'[p] = locals
  BY DEF Disturbing, Workers
<1>2. \A v \in Workers \ {p} :
         op'[v] = IF op[v] = Idle THEN Idle ELSE [op[v] EXCEPT !.disturbed = TRUE]
  BY DEF Disturbing
<1>3. \A v \in Workers \ {p} : Fields(v)' /\ Uploading(v)' /\ Listing(v)'
  BY <1>2, OthersDisturbed DEF RInv
<1>4. Fields(p)' /\ Uploading(p)' /\ Listing(p)'
  BY <1>1 DEF Fields, Uploading, Listing, ReaderPlaces
<1> QED
  BY <1>3, <1>4 DEF RInv

\* One programmer has changed what a list sees, or none.
LEMMA SteadyAlone ==
    ASSUME OneProgrammer, NEW p \in Programmers
    PROVE  /\ Steady <=> pc[p] \notin {"delete", "countDown", "countUp", "raise"} /\ ~Gaping(p)
           /\ (Steady <=> pc[p] \notin {"delete", "countDown", "countUp", "raise"} /\ ~Gaping(p))'
  BY AloneIs DEF Steady

\* What a programmer does before it changes the table keeps the invariant.
LEMMA QuietSteps ==
    ASSUME OneProgrammer, BInv, RInv, InCleared, NEW p \in Programmers,
           \/ \E number \in Numbers, length \in Lengths : ReqDownload(p, number, length)
           \/ Pass(p) /\ pc[p] \in {"remove", "add"}
           \/ \E size, sent : \E last \in BOOLEAN : Write(p, size, last, sent)
           \/ DownloadEnded(p)
           \/ Remove(p)
           \/ NewArea(p)
           \/ AddFails(p)
           \/ Add(p)
    PROVE  BInv' /\ RInv'
<1>1. /\ p \in Workers /\ pc \in [Workers -> Places]
      /\ op = [w \in Workers |-> op[w]] /\ DOMAIN op = Workers
  BY DEF Workers, BInv, TableType
<1>2. /\ pc[p] \in Waiting \cup Exchanging =>
            /\ {"fun", "disturbed", "before", "BlkNum", "written", "last_packet", "sent"}
                  \subseteq DOMAIN op[p]
            /\ op[p].fun = "download" /\ op[p].disturbed \in BOOLEAN
      /\ pc[p] \in Waiting => op[p].before = BlocksOf(op[p].BlkNum)
  <2>1. Downloading(p) /\ Fields(p)
    BY <1>1 DEF BInv, RInv
  <2>2. pc[p] \in Waiting \cup Exchanging => pc[p] # "idle"
    BY DEF Waiting, Exchanging
  <2> QED
    BY <2>1, <2>2 DEF Downloading, Fields
<1>3. ASSUME NEW l, NEW locals, pc' = [pc EXCEPT ![p] = l], op' = [op EXCEPT ![p] = locals],
             BInv', PList' = PList, AreaCount' = AreaCount, MaxIndex' = MaxIndex,
             \A k \in Slots : PList[k] \in Areas => heap'[PList[k]] = heap[PList[k]],
             l \notin {"idle", "delete", "countDown", "countUp", "raise"} \cup ReaderPlaces,
             l \in {"new", "add", "store"} /\ ~Gaping(p) => locals.before = {},
             locals.fun = "download",
             {"fun", "disturbed"} \subseteq DOMAIN locals, locals.disturbed \in BOOLEAN
      PROVE  BInv' /\ RInv'
  <2>1. pc'[p] = l /\ op'[p] = locals
    BY <1>1, <1>3
  <2>2. \A v \in Workers \ {p} : pc'[v] = pc[v] /\ op'[v] = op[v]
    BY <1>1, <1>3
  <2>3. Steady => Steady'
    <3>1. ~Gaping(p) => ~Gaping(p)'
      BY <1>3, <2>1 DEF Gaping
    <3> QED
      BY <1>3, <2>1, <3>1, SteadyAlone
  <2> QED
    BY <1>3, <2>1, <2>2, <2>3, ProgrammerKeeps
<1>4. ASSUME NEW number \in Numbers, NEW length \in Lengths, ReqDownload(p, number, length)
      PROVE  BInv' /\ RInv'
  <2> DEFINE l == IF length > 0 THEN "receive" ELSE "ended"
             locals == [BlkNum |-> number, BlkLen |-> length, written |-> 0, last_packet |-> FALSE,
                        sent |-> 0, before |-> {PList[k] : k \in IndicesOf(number)}]
                       ++ Begin("download")
  <2>1. /\ pc' = [pc EXCEPT ![p] = l] /\ op' = [op EXCEPT ![p] = locals]
        /\ heap' = heap /\ PList' = PList /\ AreaCount' = AreaCount /\ MaxIndex' = MaxIndex
    BY <1>4 DEF ReqDownload, Unchanging, Goto, Keep, table
  <2>2. /\ locals.fun = "download" /\ {"fun", "disturbed"} \subseteq DOMAIN locals
        /\ locals.disturbed \in BOOLEAN
    BY DEF ++, Begin
  <2>3. l \in {"receive", "ended"}
    OBVIOUS
  <2>4. BInv'
    BY <1>4, ReqDownloadStep
  <2> HIDE DEF l, locals
  <2> QED
    BY <1>3, <2>1, <2>2, <2>3, <2>4 DEF ReaderPlaces
<1>5. ASSUME NEW size, NEW sent, NEW last \in BOOLEAN, Write(p, size, last, sent)
      PROVE  BInv' /\ RInv'
  <2> DEFINE l == IF ~last /\ op[p].written + size < op[p].BlkLen THEN "receive" ELSE "ended"
             locals == [op[p] EXCEPT !.written = op[p].written + size,
                        !.last_packet = last, !.sent = op[p].sent + sent]
  <2>1. /\ pc' = [pc EXCEPT ![p] = l] /\ op' = [op EXCEPT ![p] = locals]
        /\ heap' = heap /\ PList' = PList /\ AreaCount' = AreaCount /\ MaxIndex' = MaxIndex
        /\ pc[p] = "receive"
    BY <1>5 DEF Write, Unchanging, Goto, Keep, table, At
  <2>2. /\ locals.fun = "download" /\ {"fun", "disturbed"} \subseteq DOMAIN locals
        /\ locals.disturbed \in BOOLEAN
    BY <1>2, <2>1 DEF Waiting
  <2>3. l \in {"receive", "ended"}
    OBVIOUS
  <2>4. BInv'
    BY <1>5, WriteStep
  <2> HIDE DEF l, locals
  <2> QED
    BY <1>3, <2>1, <2>2, <2>3, <2>4 DEF ReaderPlaces
<1>6. CASE DownloadEnded(p)
  <2>1. PICK l \in {"remove", "event"},
             locals \in {[i |-> 0] ++ op[p], [RetCode |-> "mismatch"] ++ op[p]} :
           /\ pc' = [pc EXCEPT ![p] = l] /\ op' = [op EXCEPT ![p] = locals]
    BY <1>6 DEF DownloadEnded, Goto, Keep
  <2>2. /\ heap' = heap /\ PList' = PList /\ AreaCount' = AreaCount /\ MaxIndex' = MaxIndex
        /\ pc[p] = "ended"
    BY <1>6 DEF DownloadEnded, Unchanging, table, At
  <2>3. /\ locals.fun = "download" /\ {"fun", "disturbed"} \subseteq DOMAIN locals
        /\ locals.disturbed \in BOOLEAN
    BY <1>2, <2>1, <2>2 DEF Waiting, ++
  <2>4. BInv'
    BY <1>6, DownloadEndedStep
  <2> QED
    BY <1>3, <2>1, <2>2, <2>3, <2>4 DEF ReaderPlaces
<1>7. CASE Remove(p)
  <2>1. PICK l \in {"new", "clear"},
             locals \in {op[p], [Index |-> op[p].i] ++ op[p]} :
           /\ pc' = [pc EXCEPT ![p] = l] /\ op' = [op EXCEPT ![p] = locals]
           /\ l = "new" => locals = op[p] /\ Miss(p)
    <3>1. op' = op => op' = [op EXCEPT ![p] = op[p]]
      BY <1>1
    <3> QED
      BY <1>7, <3>1 DEF Remove, Goto, Keep
  <2>2. /\ heap' = heap /\ PList' = PList /\ AreaCount' = AreaCount /\ MaxIndex' = MaxIndex
        /\ pc[p] = "remove"
    BY <1>7 DEF Remove, Unchanging, table, At
  <2>3. /\ locals.fun = "download" /\ {"fun", "disturbed"} \subseteq DOMAIN locals
        /\ locals.disturbed \in BOOLEAN
    BY <1>2, <2>1, <2>2 DEF Waiting, ++
  <2>4. BInv'
    BY <1>7, RemoveStep
  <2>5. l = "new" => locals.before = {}
    <3>1. /\ op[p].i \in Nat /\ \A k \in IndicesOf(op[p].BlkNum) : op[p].i <= k
          /\ MaxIndex \in Nat
      BY <2>2, SlotsType DEF BInv, Downloading, TableType
    <3>2. \A k \in IndicesOf(op[p].BlkNum) : k <= MaxIndex /\ k \in Nat
      BY <1>1, <3>1, SearchIs
    <3>3. l = "new" => IndicesOf(op[p].BlkNum) = {}
      BY <2>1, <3>1, <3>2 DEF Miss
    <3> QED
      BY <1>2, <2>1, <2>2, <3>3 DEF BlocksOf, Waiting
  <2> QED
    BY <1>3, <2>1, <2>2, <2>3, <2>4, <2>5 DEF ReaderPlaces
<1>8. CASE NewArea(p)
  <2>1. PICK a : /\ pc' = [pc EXCEPT ![p] = "add"]
                 /\ op' = [op EXCEPT ![p] = [NewArea |-> a, i |-> 0] ++ op[p]]
                 /\ PList' = PList /\ AreaCount' = AreaCount /\ MaxIndex' = MaxIndex
                 /\ pc[p] = "new"
    BY <1>8 DEF NewArea, Goto, Keep, table, At
  <2> DEFINE locals == [NewArea |-> a, i |-> 0] ++ op[p]
  <2>2. /\ locals.fun = "download" /\ {"fun", "disturbed"} \subseteq DOMAIN locals
        /\ locals.disturbed \in BOOLEAN /\ locals.before = op[p].before
    BY <1>2, <2>1 DEF Exchanging, ++
  <2>3. BInv' /\ \A b \in Areas : Exists(b) => heap'[b] = heap[b]
    BY <1>8, NewAreaStep
  <2>4. \A k \in Slots : PList[k] \in Areas => heap'[PList[k]] = heap[PList[k]]
    BY <2>3 DEF BInv, TableOK, Filled
  <2>5. ~Gaping(p) => op[p].before = {}
    BY <2>1 DEF Gaping
  <2> HIDE DEF locals
  <2>6. op' = [op EXCEPT ![p] = locals]
    BY <2>1 DEF locals
  <2> QED
    BY <1>3, <2>1, <2>2, <2>3, <2>4, <2>5, <2>6 DEF ReaderPlaces
<1>9. CASE AddFails(p)
  <2> DEFINE locals == [RetCode |-> "memoryLimit"] ++ op[p]
  <2>1. /\ pc' = [pc EXCEPT ![p] = "event"] /\ op' = [op EXCEPT ![p] = locals]
        /\ PList' = PList /\ AreaCount' = AreaCount /\ MaxIndex' = MaxIndex
        /\ pc[p] = "add"
    BY <1>9 DEF AddFails, Goto, Keep, table, At
  <2>2. /\ locals.fun = "download" /\ {"fun", "disturbed"} \subseteq DOMAIN locals
        /\ locals.disturbed \in BOOLEAN
    BY <1>2, <2>1 DEF Exchanging, ++
  <2>3. BInv' /\ \A k \in Slots : PList[k] \in Areas => heap'[PList[k]] = heap[PList[k]]
    BY <1>9, AddFailsStep
  <2> HIDE DEF locals
  <2> QED
    BY <1>3, <2>1, <2>2, <2>3 DEF ReaderPlaces
<1>10. CASE Add(p)
  <2> DEFINE locals == [Index |-> FindFirstFree] ++ op[p]
  <2>1. /\ pc' = [pc EXCEPT ![p] = "store"] /\ op' = [op EXCEPT ![p] = locals]
        /\ heap' = heap /\ PList' = PList /\ AreaCount' = AreaCount /\ MaxIndex' = MaxIndex
        /\ pc[p] = "add"
    BY <1>10 DEF Add, Goto, Keep, table, At, Unchanging
  <2>2. /\ locals.fun = "download" /\ {"fun", "disturbed"} \subseteq DOMAIN locals
        /\ locals.disturbed \in BOOLEAN /\ locals.before = op[p].before
    BY <1>2, <2>1 DEF Exchanging, ++
  <2>3. ~Gaping(p) => op[p].before = {}
    BY <2>1 DEF Gaping
  <2>4. BInv'
    BY <1>10, AddStep
  <2> HIDE DEF locals
  <2> QED
    BY <1>3, <2>1, <2>2, <2>3, <2>4 DEF ReaderPlaces
<1>11. CASE Pass(p) /\ pc[p] \in {"remove", "add"}
  <2> DEFINE locals == [op[p] EXCEPT !.i = op[p].i + 1]
  <2>1. PICK l \in {"remove", "add"} : pc[p] = l
    BY <1>11
  <2>2. /\ pc' = [pc EXCEPT ![p] = l] /\ op' = [op EXCEPT ![p] = locals]
        /\ heap' = heap /\ PList' = PList /\ AreaCount' = AreaCount /\ MaxIndex' = MaxIndex
    BY <1>1, <1>11, <2>1 DEF Pass, Keep, table, Unchanging
  <2>3. /\ locals.fun = "download" /\ {"fun", "disturbed"} \subseteq DOMAIN locals
        /\ locals.disturbed \in BOOLEAN /\ locals.before = op[p].before
    BY <1>2, <2>1 DEF Waiting, Exchanging
  <2>4. l \in {"new", "add", "store"} /\ ~Gaping(p) => op[p].before = {}
    BY <2>1 DEF Gaping
  <2>5. BInv'
    BY <1>11, PassStep
  <2> HIDE DEF locals
  <2> QED
    BY <1>3, <2>1, <2>2, <2>3, <2>4, <2>5 DEF ReaderPlaces
<1> QED
  BY <1>4, <1>5, <1>6, <1>7, <1>8, <1>9, <1>10, <1>11

\* So does what it does to the table.
LEMMA DisturbingSteps ==
    ASSUME OneProgrammer, BInv, RInv, NEW p \in Programmers,
           \/ TakeOut(p)
           \/ DeleteArea(p)
           \/ CountDown(p)
           \/ Store(p)
           \/ CountUp(p)
           \/ RaiseMaxIndex(p)
    PROVE  BInv' /\ RInv'
<1>1. p \in Workers /\ pc \in [Workers -> Places]
  BY DEF Workers, BInv, TableType
<1>2. pc[p] \in Exchanging
  BY DEF TakeOut, DeleteArea, CountDown, Store, CountUp, RaiseMaxIndex, At, Exchanging
<1>3. /\ {"fun", "disturbed"} \subseteq DOMAIN op[p]
      /\ op[p].fun = "download" /\ op[p].disturbed \in BOOLEAN
  <2>1. Downloading(p) /\ Fields(p)
    BY <1>1 DEF BInv, RInv
  <2>2. pc[p] # "idle"
    BY <1>2 DEF Exchanging
  <2> QED
    BY <1>2, <2>1, <2>2 DEF Downloading, Fields
<1>4. BInv'
  BY TakeOutStep, DeleteAreaStep, CountDownStep, StoreStep, CountUpStep, RaiseMaxIndexStep
<1>5. \E l \in {"delete", "countDown", "new", "countUp", "raise", "event"} :
         pc' = [pc EXCEPT ![p] = l]
  BY DEF TakeOut, DeleteArea, CountDown, Store, CountUp, RaiseMaxIndex, Goto
<1>6. pc'[p] # "idle" /\ pc'[p] \notin ReaderPlaces /\ \A v \in Workers \ {p} : pc'[v] = pc[v]
  BY <1>1, <1>5 DEF ReaderPlaces
<1>7. \E extra : \/ Disturbing(p, op[p])
                 \/ Disturbing(p, [area |-> extra] ++ op[p])
                 \/ Disturbing(p, [RetCode |-> extra] ++ op[p])
  BY DEF TakeOut, DeleteArea, CountDown, Store, CountUp, RaiseMaxIndex
<1>8. PICK locals :
         /\ Disturbing(p, locals) /\ locals.fun = "download"
         /\ {"fun", "disturbed"} \subseteq DOMAIN locals /\ locals.disturbed \in BOOLEAN
  <2>1. ASSUME NEW g, DOMAIN g \in {{"area"}, {"RetCode"}}
        PROVE  LET locals == g ++ op[p]
               IN  /\ locals.fun = "download"
                   /\ {"fun", "disturbed"} \subseteq DOMAIN locals /\ locals.disturbed \in BOOLEAN
    BY <1>3, <2>1 DEF ++
  <2>2. \A extra : DOMAIN [area |-> extra] = {"area"} /\ DOMAIN [RetCode |-> extra] = {"RetCode"}
    OBVIOUS
  <2> QED
    BY <1>3, <1>7, <2>1, <2>2
<1> QED
  BY <1>4, <1>6, <1>8, ProgrammerDisturbs

-----------------------------------------------------------------------------
(* What readers do *)

\* What a worker finds when it is at a place of a reader.
LEMMA ReaderAt ==
    ASSUME BInv, RInv, NEW w \in Workers
    PROVE  /\ pc[w] # "idle" =>
                {"fun", "disturbed"} \subseteq DOMAIN op[w] /\ op[w].disturbed \in BOOLEAN
           /\ Fields(w) /\ Uploading(w) /\ Listing(w)
           /\ op = [op EXCEPT ![w] = op[w]]
  BY DEF RInv, Fields, BInv, TableType

\* A worker that neither uploads nor lists.
LEMMA PlainReader ==
    ASSUME BInv, RInv, NEW w \in Workers, heap' = heap, table' = table,
           NEW l \in {"idle", "event", "find", "fetch", "info", "noResource"}, NEW locals,
           pc[w] \in {"idle", "event"} \cup ReaderPlaces,
           pc' = [pc EXCEPT ![w] = l], op' = [op EXCEPT ![w] = locals],
           \/ l = "idle" /\ locals = Idle
           \/ /\ {"fun", "disturbed"} \subseteq DOMAIN locals /\ locals.disturbed \in BOOLEAN
              /\ \/ l # "idle" /\ locals.fun = "info"
                 \/ l = "event" /\ locals.fun = "listAll"
    PROVE  BInv' /\ RInv'
<1>1. /\ pc'[w] = l /\ op'[w] = locals
      /\ Fields(w)' /\ Uploading(w)' /\ Listing(w)' => BInv' /\ RInv'
  <2>1. l \in {"idle", "event"} \cup ReaderPlaces /\ (l = "event" => locals.fun # "download")
    BY DEF ReaderPlaces
  <2> QED
    BY <2>1, ReaderKeeps
<1>2. Fields(w)'
  BY <1>1 DEF Fields, Waiting, Exchanging
<1>3. Uploading(w)' /\ Listing(w)'
  BY <1>1 DEF Uploading, Listing
<1> QED
  BY <1>1, <1>2, <1>3

\* A worker that uploads.
LEMMA Uploader ==
    ASSUME BInv, RInv, NEW w \in Workers, heap' = heap, table' = table,
           NEW l \in {"find", "fetch", "announce", "load", "chunk", "end", "event"}, NEW locals,
           pc[w] \in {"idle"} \cup ReaderPlaces,
           pc' = [pc EXCEPT ![w] = l], op' = [op EXCEPT ![w] = locals],
           {"fun", "disturbed"} \subseteq DOMAIN locals, locals.disturbed \in BOOLEAN,
           locals.fun = "upload",
           ~locals.disturbed =>
             /\ l = "find" => {"BlkNum", "i"} \subseteq DOMAIN locals /\ locals.i \in Nat
             /\ l = "fetch" => "Index" \in DOMAIN locals /\ locals.Index \in Filled
             /\ l \in {"announce", "load"} =>
                   "area" \in DOMAIN locals /\ \E k \in Filled : locals.area = PList[k]
             /\ l \in {"load", "chunk", "end"} => {"LenLoad", "sent"} \subseteq DOMAIN locals
             /\ l = "load" =>
                   locals.sent = 0 /\ locals.LenLoad = NumToAscii(heap[locals.area].Size)
             /\ l \in {"chunk", "end"} =>
                   /\ "toSend" \in DOMAIN locals /\ locals.toSend \in Nat /\ locals.sent \in Nat
                   /\ locals.LenLoad = NumToAscii(locals.sent + locals.toSend)
             /\ l = "event" =>
                   /\ {"RetCode", "LenLoad", "sent"} \subseteq DOMAIN locals
                   /\ locals.RetCode = "ok" => locals.LenLoad = NumToAscii(locals.sent)
    PROVE  BInv' /\ RInv'
<1>1. /\ pc'[w] = l /\ op'[w] = locals
      /\ Fields(w)' /\ Uploading(w)' /\ Listing(w)' => BInv' /\ RInv'
  <2>1. l \in {"idle", "event"} \cup ReaderPlaces
    BY DEF ReaderPlaces
  <2> QED
    BY <2>1, ReaderKeeps
<1>2. Fields(w)'
  BY <1>1 DEF Fields, Waiting, Exchanging
<1>3. Uploading(w)'
  BY <1>1 DEF Uploading, Filled, table
<1>4. Listing(w)'
  BY <1>1 DEF Listing
<1> QED
  BY <1>1, <1>2, <1>3, <1>4

\* A worker that makes a list.
LEMMA Lister ==
    ASSUME BInv, RInv, NEW w \in Workers, heap' = heap, table' = table,
           NEW l \in {"max", "get", "item", "event"}, NEW locals,
           pc[w] \in {"idle"} \cup ReaderPlaces,
           pc' = [pc EXCEPT ![w] = l], op' = [op EXCEPT ![w] = locals],
           {"fun", "disturbed"} \subseteq DOMAIN locals, locals.disturbed \in BOOLEAN,
           locals.fun = "list",
           ~locals.disturbed =>
             /\ Steady
             /\ {"AreaCount", "items"} \subseteq DOMAIN locals /\ locals.AreaCount = AreaCount
             /\ l = "max" => locals.items = <<>> /\ AreaCount > 0
             /\ l \in {"get", "item"} =>
                   /\ {"MaxIndex", "i"} \subseteq DOMAIN locals /\ locals.MaxIndex = MaxIndex
                   /\ locals.i \in 0 .. MaxIndex /\ AreaCount > 0
                   /\ AreaCount <= Cleared =>
                        /\ DOMAIN locals.items = 0 .. locals.i - 1
                        /\ \A k \in 0 .. locals.i - 1 : locals.items[k] = heap[PList[k]].Number
             /\ l = "item" => "area" \in DOMAIN locals /\ locals.area = PList[locals.i]
             /\ l = "event" /\ AreaCount <= Cleared =>
                  /\ DOMAIN locals.items = 0 .. AreaCount - 1
                  /\ \A k \in 0 .. AreaCount - 1 : locals.items[k] = heap[PList[k]].Number
    PROVE  BInv' /\ RInv'
<1>1. /\ pc'[w] = l /\ op'[w] = locals
      /\ Steady => Steady'
      /\ Fields(w)' /\ Uploading(w)' /\ Listing(w)' => BInv' /\ RInv'
  <2>1. l \in {"idle", "event"} \cup ReaderPlaces
    BY DEF ReaderPlaces
  <2> QED
    BY <2>1, ReaderKeeps
<1>2. Fields(w)'
  BY <1>1 DEF Fields, Waiting, Exchanging
<1>3. Uploading(w)'
  BY <1>1 DEF Uploading
<1>4. PList' = PList /\ AreaCount' = AreaCount /\ MaxIndex' = MaxIndex
  BY DEF table
<1>5. Listing(w)'
  <2> SUFFICES ASSUME ~locals.disturbed
               PROVE  Listing(w)'
    BY <1>1 DEF Listing
  <2>1. l \in {"get", "item"} => ItemsOf(w, op[w].i)'
    BY <1>1, <1>4 DEF ItemsOf
  <2>2. l = "event" => ItemsOf(w, AreaCount)'
    BY <1>1, <1>4 DEF ItemsOf
  <2> QED
    BY <1>1, <1>4, <2>1, <2>2 DEF Listing
<1> QED
  BY <1>1, <1>2, <1>3, <1>5

\* Requests of readers.
LEMMA RequestSteps ==
    ASSUME BInv, RInv, NEW w \in Workers,
           \/ \E number \in Numbers, f \in {"upload", "info"} : Request(w, f, number)
           \/ \E f \in {"upload", "info", "list"} : NoTable(w, f) /\ ~crashed'
           \/ ListAll(w)
           \/ ListBoT(w)
    PROVE  BInv' /\ RInv'
<1>1. ASSUME NEW number \in Numbers, NEW f \in {"upload", "info"}, Request(w, f, number)
      PROVE  BInv' /\ RInv'
  <2> DEFINE locals == [BlkNum |-> number, i |-> 0] ++ Begin(f)
  <2>1. /\ pc[w] = "idle" /\ pc' = [pc EXCEPT ![w] = "find"] /\ op' = [op EXCEPT ![w] = locals]
        /\ heap' = heap /\ table' = table
    BY <1>1 DEF Request, At, Goto, Keep, Unchanging
  <2>2. /\ {"fun", "disturbed", "BlkNum", "i"} \subseteq DOMAIN locals /\ locals.i = 0
        /\ locals.disturbed \in BOOLEAN /\ locals.fun = f
    BY DEF ++, Begin
  <2> HIDE DEF locals
  <2>3. CASE f = "info"
    BY <2>1, <2>2, <2>3, PlainReader
  <2>4. CASE f = "upload"
    <3>1. locals.i \in Nat /\ pc[w] \in {"idle"} \cup ReaderPlaces
      BY <2>1, <2>2
    <3> QED
      BY <2>1, <2>2, <2>4, <3>1, Uploader
  <2> QED
    BY <2>3, <2>4
<1>2. ASSUME NEW f \in {"upload", "info", "list"}, NoTable(w, f), ~crashed'
      PROVE  BInv' /\ RInv'
  <2> DEFINE locals == Begin("info")
  <2>1. /\ pc[w] = "idle" /\ pc' = [pc EXCEPT ![w] = "noResource"]
        /\ op' = [op EXCEPT ![w] = locals]
        /\ heap' = heap /\ table' = table
    BY <1>2 DEF NoTable, At, Goto, Keep, Unchanging
  <2>2. /\ {"fun", "disturbed"} \subseteq DOMAIN locals /\ locals.disturbed \in BOOLEAN
        /\ locals.fun = "info"
    BY DEF Begin
  <2> HIDE DEF locals
  <2> QED
    BY <2>1, <2>2, PlainReader
<1>3. CASE ListAll(w)
  <2> DEFINE locals == [BCount |-> AreaCount] ++ Begin("listAll")
  <2>1. /\ pc[w] = "idle" /\ pc' = [pc EXCEPT ![w] = "event"] /\ op' = [op EXCEPT ![w] = locals]
        /\ heap' = heap /\ table' = table
    BY <1>3 DEF ListAll, At, Goto, Keep, Unchanging
  <2>2. /\ {"fun", "disturbed"} \subseteq DOMAIN locals /\ locals.disturbed \in BOOLEAN
        /\ locals.fun = "listAll"
    BY DEF ++, Begin
  <2> HIDE DEF locals
  <2> QED
    BY <2>1, <2>2, PlainReader
<1>4. CASE ListBoT(w)
  <2> DEFINE locals == [AreaCount |-> AreaCount, items |-> <<>>] ++ Begin("list")
             l == IF AreaCount # 0 THEN "max" ELSE "event"
  <2>1. /\ pc[w] = "idle" /\ pc' = [pc EXCEPT ![w] = l] /\ op' = [op EXCEPT ![w] = locals]
        /\ heap' = heap /\ table' = table
    BY <1>4 DEF ListBoT, At, Goto, Keep, Unchanging
  <2>2. /\ {"fun", "disturbed", "AreaCount", "items"} \subseteq DOMAIN locals
        /\ locals.fun = "list" /\ locals.disturbed = (Changing # {})
        /\ locals.AreaCount = AreaCount /\ locals.items = <<>>
    BY DEF ++, Begin
  <2>3. Changing = {} => Steady
    BY DEF Changing, Steady, Gaping, Workers
  <2>4. \/ l = "max" /\ AreaCount > 0
        \/ l = "event" /\ AreaCount = 0
    BY DEF BInv, TableType
  <2>5. l = "event" => /\ DOMAIN locals.items = 0 .. AreaCount - 1
                       /\ \A k \in 0 .. AreaCount - 1 : locals.items[k] = heap[PList[k]].Number
    <3>1. DOMAIN <<>> = {} /\ 0 .. 0 - 1 = {}
      OBVIOUS
    <3> HIDE DEF locals, l
    <3> QED
      BY <2>2, <2>4, <3>1
  <2> HIDE DEF locals, l
  <2>6. pc[w] \in {"idle"} \cup ReaderPlaces /\ locals.disturbed \in BOOLEAN
    BY <2>1, <2>2
  <2> QED
    BY <2>1, <2>2, <2>3, <2>4, <2>5, <2>6, Lister
<1> QED
  BY <1>1, <1>2, <1>3, <1>4

\* A block is looked up, for an upload or for what is known of it.
LEMMA LookupSteps ==
    ASSUME BInv, RInv, InCleared, NEW w \in Workers,
           \/ Pass(w) /\ pc[w] = "find"
           \/ Find(w)
           \/ Fetch(w)
           \/ GetBlkInfo(w)
           \/ NoResource(w)
    PROVE  BInv' /\ RInv'
<1>1. /\ pc[w] \in {"find", "fetch", "info", "noResource"} /\ heap' = heap /\ table' = table
  BY DEF Pass, Find, Fetch, GetBlkInfo, NoResource, At, Unchanging
<1>2. /\ {"fun", "disturbed"} \subseteq DOMAIN op[w] /\ op[w].disturbed \in BOOLEAN
      /\ Fields(w) /\ Uploading(w) /\ op = [op EXCEPT ![w] = op[w]]
  BY <1>1, ReaderAt
<1>3. op[w].fun \in {"upload", "info"} /\ (pc[w] \in {"info", "noResource"} => op[w].fun = "info")
  BY <1>1, <1>2 DEF Fields
<1>4. pc[w] \in {"idle", "event"} \cup ReaderPlaces
  BY <1>1 DEF ReaderPlaces
<1>5. /\ {"fun", "disturbed"} \subseteq DOMAIN Local(w) /\ Local(w).disturbed = op[w].disturbed
      /\ Local(w).fun = op[w].fun
  BY DEF Local
<1>6. ASSUME NotFound(w)
      PROVE  BInv' /\ RInv'
  <2>1. CASE op[w].fun = "info"
    BY <1>1, <1>2, <1>4, <1>5, <1>6, <2>1, PlainReader DEF NotFound, Goto, Keep
  <2>2. CASE op[w].fun # "info"
    BY <1>1, <1>4, <1>6, <2>2, PlainReader DEF NotFound, Done, Goto, Keep
  <2> QED
    BY <2>1, <2>2
<1>7. CASE Find(w)
  <2> DEFINE k == op[w].i
             locals == [Index |-> k] ++ Local(w)
  <2> SUFFICES ASSUME Hit(w), Goto(w, "fetch"), Keep(w, locals)
               PROVE  BInv' /\ RInv'
    BY <1>6, <1>7 DEF Find
  <2>1. pc' = [pc EXCEPT ![w] = "fetch"] /\ op' = [op EXCEPT ![w] = locals] /\ pc[w] = "find"
    BY <1>7 DEF Find, At, Goto, Keep
  <2>2. /\ {"fun", "disturbed", "Index"} \subseteq DOMAIN locals
        /\ locals.disturbed = op[w].disturbed /\ locals.fun = op[w].fun /\ locals.Index = k
    BY <1>5 DEF ++
  <2>3. op[w].fun = "upload" /\ ~op[w].disturbed => k \in Filled
    <3> SUFFICES ASSUME op[w].fun = "upload", ~op[w].disturbed
                 PROVE  k \in Filled
      OBVIOUS
    <3>1. op[w].i \in Nat
      BY <1>2, <2>1 DEF Uploading
    <3>2. k \in IndicesOf(op[w].BlkNum)
      BY <3>1, SearchIs
    <3> QED
      BY <3>2, IndexType DEF IndicesOf, Filled, Exists, BInv
  <2> HIDE DEF locals, k
  <2>4. CASE op[w].fun = "info"
    BY <1>1, <1>2, <1>4, <2>1, <2>2, <2>4, PlainReader
  <2>5. CASE op[w].fun = "upload"
    <3>1. pc[w] \in {"idle"} \cup ReaderPlaces
      BY <2>1 DEF ReaderPlaces
    <3> QED
      BY <1>1, <1>2, <2>1, <2>2, <2>3, <2>5, <3>1, Uploader
  <2> QED
    BY <1>3, <2>4, <2>5
<1>8. CASE Fetch(w)
  <2> DEFINE a == PList[op[w].Index]
             l == IF op[w].fun = "info" THEN "info" ELSE "announce"
             locals == [area |-> a] ++ Local(w)
  <2> SUFFICES ASSUME a # Null
               PROVE  BInv' /\ RInv'
    BY <1>6, <1>8 DEF Fetch
  <2>1. pc' = [pc EXCEPT ![w] = l] /\ op' = [op EXCEPT ![w] = locals] /\ pc[w] = "fetch"
    BY <1>8 DEF Fetch, At, Goto, Keep
  <2>2. /\ {"fun", "disturbed", "area"} \subseteq DOMAIN locals
        /\ locals.disturbed = op[w].disturbed /\ locals.fun = op[w].fun /\ locals.area = a
    BY <1>5 DEF ++
  <2>3. op[w].fun = "upload" /\ ~op[w].disturbed => \E k \in Filled : a = PList[k]
    BY <1>2, <2>1 DEF Uploading
  <2>4. \/ op[w].fun = "info" /\ l = "info"
        \/ op[w].fun = "upload" /\ l = "announce"
    BY <1>3
  <2>5. pc[w] \in {"idle"} \cup ReaderPlaces
    BY <2>1 DEF ReaderPlaces
  <2> HIDE DEF locals, a, l
  <2>6. CASE l = "info"
    BY <1>1, <1>2, <1>4, <2>1, <2>2, <2>4, <2>6, PlainReader
  <2>7. CASE l = "announce"
    BY <1>1, <1>2, <2>1, <2>2, <2>3, <2>4, <2>5, <2>7, Uploader
  <2> QED
    BY <2>4, <2>6, <2>7
<1>9. CASE GetBlkInfo(w)
  <2>1. /\ pc' = [pc EXCEPT ![w] = "event"] /\ op' = [op EXCEPT ![w] = Local(w)]
        /\ pc[w] = "info"
    BY <1>9 DEF GetBlkInfo, At, Goto, Keep
  <2> QED
    BY <1>1, <1>2, <1>3, <1>4, <1>5, <2>1, PlainReader
<1>10. CASE NoResource(w)
  <2>1. /\ pc' = [pc EXCEPT ![w] = "event"] /\ op' = [op EXCEPT ![w] = op[w]]
        /\ pc[w] = "noResource"
    BY <1>2, <1>10 DEF NoResource, At, Goto
  <2> QED
    BY <1>1, <1>2, <1>3, <1>4, <2>1, PlainReader
<1>11. CASE Pass(w) /\ pc[w] = "find"
  <2> DEFINE locals == [op[w] EXCEPT !.i = op[w].i + 1]
  <2>1. pc' = [pc EXCEPT ![w] = "find"] /\ op' = [op EXCEPT ![w] = locals] /\ pc[w] = "find"
    BY <1>11 DEF Pass, Keep, BInv, TableType
  <2>2. /\ DOMAIN locals = DOMAIN op[w]
        /\ locals.disturbed = op[w].disturbed /\ locals.fun = op[w].fun
        /\ "i" \in DOMAIN op[w] => locals.i = op[w].i + 1
    BY <1>2
  <2>3. op[w].fun = "upload" /\ ~op[w].disturbed =>
           {"BlkNum", "i"} \subseteq DOMAIN op[w] /\ op[w].i \in Nat
    BY <1>2, <2>1 DEF Uploading
  <2> HIDE DEF locals
  <2>4. CASE op[w].fun = "info"
    BY <1>1, <1>2, <1>4, <2>1, <2>2, <2>4, PlainReader
  <2>5. CASE op[w].fun = "upload"
    <3>1. pc[w] \in {"idle"} \cup ReaderPlaces
      BY <2>1 DEF ReaderPlaces
    <3>2. ~locals.disturbed => {"BlkNum", "i"} \subseteq DOMAIN locals /\ locals.i \in Nat
      BY <2>2, <2>3, <2>5
    <3> QED
      BY <1>1, <1>2, <2>1, <2>2, <2>5, <3>1, <3>2, Uploader
  <2> QED
    BY <1>3, <2>4, <2>5
<1> QED
  BY <1>7, <1>8, <1>9, <1>10, <1>11

\* An upload goes on.
LEMMA UploadSteps ==
    ASSUME BInv, RInv, NEW w \in Workers,
           \/ Announce(w)
           \/ Load(w)
           \/ SendChunk(w)
           \/ BreakUpload(w)
           \/ EndUpload(w)
    PROVE  BInv' /\ RInv'
<1>1. /\ pc[w] \in {"announce", "load", "chunk", "end"} /\ heap' = heap /\ table' = table
  BY DEF Announce, Load, SendChunk, BreakUpload, EndUpload, At, Unchanging
<1>2. /\ {"fun", "disturbed"} \subseteq DOMAIN op[w] /\ op[w].disturbed \in BOOLEAN
      /\ Fields(w) /\ Uploading(w) /\ op = [op EXCEPT ![w] = op[w]]
  BY <1>1, ReaderAt
<1>3. op[w].fun = "upload"
  BY <1>1, <1>2 DEF Fields
<1>4. pc[w] \in {"idle"} \cup ReaderPlaces
  BY <1>1 DEF ReaderPlaces
<1>5. ASSUME ~op[w].disturbed, pc[w] \in {"announce", "load"}
      PROVE  \A any : Read(op[w].area, "Size", any) = {heap[op[w].area].Size}
  <2>1. PICK k \in Filled : op[w].area = PList[k]
    BY <1>2, <1>3, <1>5 DEF Uploading
  <2>2. Exists(op[w].area)
    BY <2>1 DEF BInv, TableOK
  <2> QED
    BY <2>2 DEF Read
<1>6. CASE Announce(w)
  <2>1. PICK size \in Read(op[w].area, "Size", Sizes) :
           op' = [op EXCEPT ![w] = [LenLoad |-> NumToAscii(size), sent |-> 0] ++ op[w]]
    BY <1>6 DEF Announce, Keep
  <2> DEFINE locals == [LenLoad |-> NumToAscii(size), sent |-> 0] ++ op[w]
  <2>2. pc' = [pc EXCEPT ![w] = "load"] /\ pc[w] = "announce"
    BY <1>6 DEF Announce, At, Goto
  <2>3. /\ {"fun", "disturbed", "LenLoad", "sent"} \subseteq DOMAIN locals
        /\ locals.disturbed = op[w].disturbed /\ locals.fun = "upload"
        /\ locals.LenLoad = NumToAscii(size) /\ locals.sent = 0
        /\ "area" \in DOMAIN op[w] => "area" \in DOMAIN locals /\ locals.area = op[w].area
    BY <1>2, <1>3 DEF ++
  <2>4. ~op[w].disturbed => /\ size = heap[op[w].area].Size /\ "area" \in DOMAIN op[w]
                            /\ \E k \in Filled : op[w].area = PList[k]
    BY <1>2, <1>3, <1>5, <2>1, <2>2 DEF Uploading
  <2>5. op' = [op EXCEPT ![w] = locals]
    BY <2>1
  <2> HIDE DEF locals
  <2>6. ~locals.disturbed =>
           /\ "area" \in DOMAIN locals /\ \E k \in Filled : locals.area = PList[k]
           /\ {"LenLoad", "sent"} \subseteq DOMAIN locals
           /\ locals.sent = 0 /\ locals.LenLoad = NumToAscii(heap[locals.area].Size)
    BY <2>3, <2>4
  <2>7. {"fun", "disturbed"} \subseteq DOMAIN locals /\ locals.disturbed \in BOOLEAN
    BY <1>2, <2>3
  <2> QED
    BY <1>1, <1>4, <2>2, <2>3, <2>5, <2>6, <2>7, Uploader
<1>7. CASE Load(w)
  <2>1. PICK size \in Read(op[w].area, "Size", Sizes) :
           /\ op' = [op EXCEPT ![w] = [toSend |-> size] ++ op[w]]
           /\ pc' = [pc EXCEPT ![w] = IF size > 0 THEN "chunk" ELSE "end"]
    BY <1>7 DEF Load, Keep, Goto
  <2> DEFINE locals == [toSend |-> size] ++ op[w]
             l == IF size > 0 THEN "chunk" ELSE "end"
  <2>2. pc[w] = "load"
    BY <1>7 DEF Load, At
  <2>3. /\ {"fun", "disturbed", "toSend"} \subseteq DOMAIN locals
        /\ locals.disturbed = op[w].disturbed /\ locals.fun = "upload" /\ locals.toSend = size
        /\ {"LenLoad", "sent"} \subseteq DOMAIN op[w] =>
              /\ {"LenLoad", "sent"} \subseteq DOMAIN locals
              /\ locals.LenLoad = op[w].LenLoad /\ locals.sent = op[w].sent
    BY <1>2, <1>3 DEF ++
  <2>4. ~op[w].disturbed =>
           /\ size = heap[op[w].area].Size /\ {"LenLoad", "sent"} \subseteq DOMAIN op[w]
           /\ op[w].sent = 0 /\ op[w].LenLoad = NumToAscii(heap[op[w].area].Size)
    BY <1>2, <1>3, <1>5, <2>1, <2>2 DEF Uploading
  <2>5. ~op[w].disturbed => size \in Nat
    <3> SUFFICES ASSUME ~op[w].disturbed
                 PROVE  size \in Nat
      OBVIOUS
    <3>1. PICK k \in Filled : op[w].area = PList[k]
      BY <1>2, <1>3, <2>2 DEF Uploading
    <3>2. heap[PList[k]] \in AreaRecords
      BY <3>1 DEF BInv, TableType, TableOK, Exists
    <3> QED
      BY <2>4, <3>1, <3>2, PointersType DEF AreaRecords
  <2>6. ~op[w].disturbed => locals.sent \in Nat
                            /\ locals.LenLoad = NumToAscii(locals.sent + locals.toSend)
    BY <2>3, <2>4, <2>5
  <2>7. op' = [op EXCEPT ![w] = locals] /\ pc' = [pc EXCEPT ![w] = l] /\ l \in {"chunk", "end"}
    BY <2>1
  <2> HIDE DEF locals, l
  <2> QED
    BY <1>1, <1>2, <1>4, <2>3, <2>4, <2>5, <2>6, <2>7, Uploader
<1>8. CASE SendChunk(w)
  <2> DEFINE size == IF op[w].toSend < maxDataSize THEN op[w].toSend ELSE maxDataSize
             locals == [op[w] EXCEPT !.toSend = op[w].toSend - size, !.sent = op[w].sent + size]
             l == IF op[w].toSend > size THEN "chunk" ELSE "end"
  <2>1. /\ pc[w] = "chunk" /\ op' = [op EXCEPT ![w] = locals] /\ pc' = [pc EXCEPT ![w] = l]
    BY <1>8 DEF SendChunk, Keep, Goto, At
  <2>2. /\ DOMAIN locals = DOMAIN op[w]
        /\ locals.disturbed = op[w].disturbed /\ locals.fun = "upload"
    BY <1>2, <1>3
  <2>3. ASSUME ~op[w].disturbed
        PROVE  /\ {"LenLoad", "sent", "toSend"} \subseteq DOMAIN op[w]
               /\ locals.toSend \in Nat /\ locals.sent \in Nat
               /\ locals.LenLoad = NumToAscii(locals.sent + locals.toSend)
    <3>1. /\ {"LenLoad", "sent", "toSend"} \subseteq DOMAIN op[w]
          /\ op[w].toSend \in Nat /\ op[w].sent \in Nat
          /\ op[w].LenLoad = NumToAscii(op[w].sent + op[w].toSend)
      BY <1>2, <1>3, <2>1, <2>3 DEF Uploading
    <3>2. /\ locals.LenLoad = op[w].LenLoad /\ locals.sent = op[w].sent + size
          /\ locals.toSend = op[w].toSend - size
      BY <3>1
    <3>3. size \in Nat /\ size <= op[w].toSend
      BY <3>1, BlocksAssumption
    <3>4. locals.toSend \in Nat /\ locals.sent \in Nat
          /\ locals.sent + locals.toSend = op[w].sent + op[w].toSend
      <4> HIDE DEF size, locals
      <4> QED
        BY <3>1, <3>2, <3>3
    <3> HIDE DEF locals
    <3> QED
      BY <3>1, <3>2, <3>4
  <2>4. l \in {"chunk", "end"}
    OBVIOUS
  <2> HIDE DEF locals, l
  <2> QED
    BY <1>1, <1>2, <1>4, <2>1, <2>2, <2>3, <2>4, Uploader
<1>9. CASE BreakUpload(w)
  <2>1. pc[w] = "chunk" /\ pc' = [pc EXCEPT ![w] = "end"] /\ op' = [op EXCEPT ![w] = op[w]]
    BY <1>2, <1>9 DEF BreakUpload, Goto, At
  <2>2. ~op[w].disturbed =>
           /\ {"LenLoad", "sent", "toSend"} \subseteq DOMAIN op[w]
           /\ op[w].toSend \in Nat /\ op[w].sent \in Nat
           /\ op[w].LenLoad = NumToAscii(op[w].sent + op[w].toSend)
    BY <1>2, <1>3, <2>1 DEF Uploading
  <2> QED
    <3> DEFINE locals == op[w]
    <3>1. /\ op' = [op EXCEPT ![w] = locals] /\ locals.fun = "upload"
          /\ {"fun", "disturbed"} \subseteq DOMAIN locals /\ locals.disturbed \in BOOLEAN
      BY <1>2, <1>3, <2>1
    <3>2. ~locals.disturbed =>
             /\ {"LenLoad", "sent"} \subseteq DOMAIN locals
             /\ "toSend" \in DOMAIN locals /\ locals.toSend \in Nat /\ locals.sent \in Nat
             /\ locals.LenLoad = NumToAscii(locals.sent + locals.toSend)
      BY <2>2
    <3> HIDE DEF locals
    <3> QED
      BY <1>1, <1>4, <2>1, <3>1, <3>2, Uploader
<1>10. CASE EndUpload(w)
  <2> DEFINE locals == [RetCode |-> IF op[w].toSend = 0 THEN "ok" ELSE "mismatch",
                LenLoad |-> op[w].LenLoad, sent |-> op[w].sent] ++ Local(w)
  <2>1. pc[w] = "end" /\ pc' = [pc EXCEPT ![w] = "event"] /\ op' = [op EXCEPT ![w] = locals]
    BY <1>10 DEF EndUpload, Goto, At, Keep
  <2>2. /\ {"fun", "disturbed", "RetCode", "LenLoad", "sent"} \subseteq DOMAIN locals
        /\ locals.disturbed = op[w].disturbed /\ locals.fun = "upload"
        /\ locals.LenLoad = op[w].LenLoad /\ locals.sent = op[w].sent
        /\ locals.RetCode = "ok" => op[w].toSend = 0
    BY <1>3 DEF ++, Local
  <2>3. ~op[w].disturbed /\ op[w].toSend = 0 => op[w].LenLoad = NumToAscii(op[w].sent)
    BY <1>2, <1>3, <2>1 DEF Uploading
  <2> HIDE DEF locals
  <2> QED
    BY <1>1, <1>2, <1>4, <2>1, <2>2, <2>3, Uploader
<1> QED
  BY <1>6, <1>7, <1>8, <1>9, <1>10

\* A list goes on.
LEMMA ListSteps ==
    ASSUME BInv, RInv, NEW w \in Workers,
           \/ ReadMaxIndex(w)
           \/ GetItem(w)
           \/ SetItem(w)
    PROVE  BInv' /\ RInv'
<1> DEFINE Longer(number) == [k \in {op[w].i} |-> number] ++ op[w].items
<1> HIDE DEF Longer
<1>1. /\ pc[w] \in {"max", "get", "item"} /\ heap' = heap /\ table' = table
  BY DEF ReadMaxIndex, GetItem, SetItem, At, Unchanging
<1>2. /\ {"fun", "disturbed"} \subseteq DOMAIN op[w] /\ op[w].disturbed \in BOOLEAN
      /\ Fields(w) /\ Listing(w) /\ op = [op EXCEPT ![w] = op[w]]
  BY <1>1, ReaderAt
<1>3. op[w].fun = "list"
  BY <1>1, <1>2 DEF Fields
<1>4. pc[w] \in {"idle"} \cup ReaderPlaces
  BY <1>1 DEF ReaderPlaces
<1>5. MaxIndex \in Nat /\ AreaCount \in Nat
  BY SlotsType DEF BInv, TableType
<1>6. CASE ReadMaxIndex(w)
  <2> DEFINE locals == [MaxIndex |-> MaxIndex, i |-> 0] ++ op[w]
  <2>1. pc[w] = "max" /\ pc' = [pc EXCEPT ![w] = "get"] /\ op' = [op EXCEPT ![w] = locals]
    BY <1>6 DEF ReadMaxIndex, At, Goto, Keep
  <2>2. ~op[w].disturbed => /\ Steady /\ {"AreaCount", "items"} \subseteq DOMAIN op[w]
                            /\ op[w].AreaCount = AreaCount
                            /\ op[w].items = <<>> /\ AreaCount > 0
    BY <1>2, <1>3, <2>1 DEF Listing
  <2>3. /\ {"fun", "disturbed", "MaxIndex", "i"} \subseteq DOMAIN locals
        /\ locals.fun = "list" /\ locals.disturbed = op[w].disturbed
        /\ locals.MaxIndex = MaxIndex /\ locals.i = 0
        /\ {"AreaCount", "items"} \subseteq DOMAIN op[w] =>
              /\ {"AreaCount", "items"} \subseteq DOMAIN locals
              /\ locals.AreaCount = op[w].AreaCount /\ locals.items = op[w].items
    BY <1>2, <1>3 DEF ++
  <2> HIDE DEF locals
  <2>4. ~locals.disturbed =>
           /\ DOMAIN locals.items = 0 .. locals.i - 1
           /\ \A k \in 0 .. locals.i - 1 : locals.items[k] = heap[PList[k]].Number
    <3>1. DOMAIN <<>> = {} /\ 0 .. 0 - 1 = {}
      OBVIOUS
    <3> QED
      BY <2>2, <2>3, <3>1
  <2>5. ~locals.disturbed => /\ Steady /\ {"AreaCount", "items"} \subseteq DOMAIN locals
                             /\ locals.AreaCount = AreaCount /\ AreaCount > 0
                             /\ locals.i \in 0 .. MaxIndex
    BY <1>5, <2>2, <2>3
  <2> QED
    BY <1>1, <1>2, <1>4, <2>1, <2>3, <2>4, <2>5, Lister
<1>7. ASSUME NEW number, pc[w] \in {"get", "item"},
             ~op[w].disturbed /\ AreaCount <= Cleared => number = heap[PList[op[w].i]].Number,
             NEW locals, NextItem(w, locals),
             DOMAIN locals = DOMAIN op[w], locals.fun = "list",
             locals.disturbed = op[w].disturbed,
             ~op[w].disturbed => /\ locals.i = op[w].i
                                 /\ locals.AreaCount = op[w].AreaCount
                                 /\ locals.MaxIndex = op[w].MaxIndex,
             ~op[w].disturbed /\ AreaCount <= Cleared =>
                locals.items = Longer(number)
      PROVE  BInv' /\ RInv'
  <2> DEFINE next == [locals EXCEPT !.i = locals.i + 1]
             l == IF op[w].i + 1 <= op[w].MaxIndex THEN "get" ELSE "event"
  <2>1. pc' = [pc EXCEPT ![w] = l] /\ op' = [op EXCEPT ![w] = next]
    BY <1>7 DEF NextItem, Goto, Keep
  <2>2. /\ DOMAIN next = DOMAIN op[w] /\ next.fun = "list" /\ next.disturbed = op[w].disturbed
    BY <1>2, <1>7
  <2>3. ASSUME ~op[w].disturbed
        PROVE  /\ Steady /\ {"AreaCount", "items", "MaxIndex", "i"} \subseteq DOMAIN op[w]
               /\ op[w].AreaCount = AreaCount /\ op[w].MaxIndex = MaxIndex /\ AreaCount > 0
               /\ op[w].i \in 0 .. MaxIndex /\ ItemsOf(w, op[w].i)
    BY <1>2, <1>3, <1>7, <2>3 DEF Listing
  <2>4. ASSUME ~op[w].disturbed
        PROVE  /\ next.i = op[w].i + 1 /\ next.items = locals.items
               /\ next.AreaCount = AreaCount /\ next.MaxIndex = MaxIndex
    BY <1>7, <2>3, <2>4
  <2>5. ASSUME ~op[w].disturbed, AreaCount <= Cleared
        PROVE  /\ DOMAIN next.items = 0 .. op[w].i
               /\ \A k \in 0 .. op[w].i : next.items[k] = heap[PList[k]].Number
    <3> DEFINE items == next.items
    <3>1. items = [k \in {op[w].i} |-> number] ++ op[w].items
      BY <1>7, <2>4, <2>5 DEF Longer
    <3> HIDE DEF next, items
    <3>2. /\ DOMAIN op[w].items = 0 .. op[w].i - 1 /\ op[w].i \in Nat
          /\ \A k \in 0 .. op[w].i - 1 : op[w].items[k] = heap[PList[k]].Number
      BY <1>5, <2>3, <2>5 DEF ItemsOf
    <3>3. number = heap[PList[op[w].i]].Number
      BY <1>7, <2>5
    <3>4. DOMAIN items = {op[w].i} \cup (0 .. op[w].i - 1)
      BY <3>1, <3>2 DEF ++
    <3>5. \A k \in DOMAIN items : items[k] = IF k = op[w].i THEN number ELSE op[w].items[k]
      BY <3>1, <3>4 DEF ++
    <3>6. {op[w].i} \cup (0 .. op[w].i - 1) = 0 .. op[w].i
      BY <3>2
    <3>7. ASSUME NEW k \in 0 .. op[w].i
          PROVE  items[k] = heap[PList[k]].Number
      <4>1. k \in DOMAIN items /\ (k # op[w].i => k \in 0 .. op[w].i - 1)
        BY <3>4, <3>6
      <4> QED
        BY <3>2, <3>3, <3>5, <4>1
    <3> QED
      BY <3>4, <3>6, <3>7 DEF items
  <2>6. ASSUME ~op[w].disturbed, AreaCount <= Cleared
        PROVE  MaxIndex = AreaCount - 1
    BY <2>3, <2>6, SteadyTable
  <2>7. l \in {"get", "event"}
    OBVIOUS
  <2>8. ~op[w].disturbed => /\ l = "get" => next.i \in 0 .. MaxIndex
                            /\ l = "event" => op[w].i = MaxIndex
    BY <1>5, <2>3, <2>4
  <2> HIDE DEF next, l
  <2>9. ASSUME ~op[w].disturbed, AreaCount <= Cleared
        PROVE  /\ DOMAIN next.items = 0 .. next.i - 1
               /\ \A k \in 0 .. next.i - 1 : next.items[k] = heap[PList[k]].Number
               /\ l = "event" => next.i = AreaCount
    <3>1. op[w].i \in Nat
      BY <1>5, <2>3, <2>9
    <3>2. next.i - 1 = op[w].i
      BY <2>4, <2>9, <3>1
    <3> QED
      BY <1>5, <2>4, <2>5, <2>6, <2>8, <2>9, <3>1, <3>2
  <2>10. ~next.disturbed =>
            /\ Steady /\ {"AreaCount", "items"} \subseteq DOMAIN next
            /\ next.AreaCount = AreaCount
            /\ l = "get" => /\ {"MaxIndex", "i"} \subseteq DOMAIN next /\ next.MaxIndex = MaxIndex
                            /\ next.i \in 0 .. MaxIndex /\ AreaCount > 0
                            /\ AreaCount <= Cleared =>
                                 /\ DOMAIN next.items = 0 .. next.i - 1
                                 /\ \A k \in 0 .. next.i - 1 :
                                       next.items[k] = heap[PList[k]].Number
            /\ l = "event" /\ AreaCount <= Cleared =>
                 /\ DOMAIN next.items = 0 .. AreaCount - 1
                 /\ \A k \in 0 .. AreaCount - 1 : next.items[k] = heap[PList[k]].Number
    BY <2>2, <2>3, <2>4, <2>8, <2>9
  <2>11. {"fun", "disturbed"} \subseteq DOMAIN next /\ next.disturbed \in BOOLEAN
    BY <1>2, <2>2
  <2> QED
    BY <1>1, <1>4, <2>1, <2>2, <2>7, <2>10, <2>11, Lister
<1>8. ASSUME ~op[w].disturbed, AreaCount <= Cleared, pc[w] \in {"get", "item"}
      PROVE  op[w].i \in Filled
  <2>1. Steady /\ op[w].i \in 0 .. MaxIndex /\ AreaCount > 0
    BY <1>2, <1>3, <1>8 DEF Listing
  <2> QED
    BY <1>5, <1>8, <2>1, SteadyTable
<1>9. CASE GetItem(w)
  <2> DEFINE a == PList[op[w].i]
  <2>1. pc[w] = "get"
    BY <1>9 DEF GetItem, At
  <2>2. CASE a = Null
    <3>1. op[w].disturbed \/ AreaCount > Cleared
      BY <1>2, <1>5, <1>8, <2>1, <2>2, PointersType, SlotsType DEF Filled
    <3>2. NextItem(w, op[w])
      BY <1>9, <2>2 DEF GetItem
    <3>3. ~op[w].disturbed /\ AreaCount <= Cleared => FALSE
      BY <1>5, <3>1, SlotsType
    <3> DEFINE number == heap[PList[op[w].i]].Number
    <3> HIDE DEF number
    <3>4. ~op[w].disturbed /\ AreaCount <= Cleared => number = heap[PList[op[w].i]].Number
      BY DEF number
    <3> QED
      BY <1>2, <1>3, <1>7, <2>1, <3>2, <3>3, <3>4
  <2>3. CASE a # Null
    <3> DEFINE locals == [area |-> a] ++ op[w]
    <3>1. pc' = [pc EXCEPT ![w] = "item"] /\ op' = [op EXCEPT ![w] = locals]
      BY <1>9, <2>3 DEF GetItem, Goto, Keep
    <3>2. ~op[w].disturbed =>
             /\ Steady /\ {"AreaCount", "items", "MaxIndex", "i"} \subseteq DOMAIN op[w]
             /\ op[w].AreaCount = AreaCount /\ op[w].MaxIndex = MaxIndex /\ AreaCount > 0
             /\ op[w].i \in 0 .. MaxIndex /\ ItemsOf(w, op[w].i)
      BY <1>2, <1>3, <2>1 DEF Listing
    <3>3. /\ {"fun", "disturbed", "area"} \subseteq DOMAIN locals
          /\ locals.fun = "list" /\ locals.disturbed = op[w].disturbed /\ locals.area = a
          /\ {"AreaCount", "items", "MaxIndex", "i"} \subseteq DOMAIN op[w] =>
              /\ {"AreaCount", "items", "MaxIndex", "i"} \subseteq DOMAIN locals
              /\ locals.AreaCount = op[w].AreaCount /\ locals.items = op[w].items
              /\ locals.MaxIndex = op[w].MaxIndex /\ locals.i = op[w].i
      BY <1>2, <1>3 DEF ++
    <3>4. ~op[w].disturbed /\ AreaCount <= Cleared =>
             /\ DOMAIN op[w].items = 0 .. op[w].i - 1
             /\ \A k \in 0 .. op[w].i - 1 : op[w].items[k] = heap[PList[k]].Number
      BY <3>2 DEF ItemsOf
    <3> HIDE DEF locals
    <3>5. ~locals.disturbed =>
             /\ Steady /\ {"AreaCount", "items", "MaxIndex", "i", "area"} \subseteq DOMAIN locals
             /\ locals.AreaCount = AreaCount /\ locals.MaxIndex = MaxIndex /\ AreaCount > 0
             /\ locals.i \in 0 .. MaxIndex /\ locals.area = PList[locals.i]
             /\ AreaCount <= Cleared =>
                  /\ DOMAIN locals.items = 0 .. locals.i - 1
                  /\ \A k \in 0 .. locals.i - 1 : locals.items[k] = heap[PList[k]].Number
      BY <3>2, <3>3, <3>4
    <3>6. {"fun", "disturbed"} \subseteq DOMAIN locals /\ locals.disturbed \in BOOLEAN
      BY <1>2, <3>3
    <3> QED
      BY <1>1, <1>4, <3>1, <3>3, <3>5, <3>6, Lister
  <2> QED
    BY <2>2, <2>3
<1>10. CASE SetItem(w)
  <2>1. pc[w] = "item"
    BY <1>10 DEF SetItem, At
  <2>2. PICK number \in Read(op[w].area, "Number", {Wild}) :
           NextItem(w, [op[w] EXCEPT !.items = [k \in {op[w].i} |-> number] ++ op[w].items])
    BY <1>10 DEF SetItem
  <2> DEFINE items == Longer(number)
             locals == [op[w] EXCEPT !.items = items]
  <2>3. ~op[w].disturbed /\ AreaCount <= Cleared => number = heap[PList[op[w].i]].Number
    <3> SUFFICES ASSUME ~op[w].disturbed, AreaCount <= Cleared
                 PROVE  number = heap[PList[op[w].i]].Number
      OBVIOUS
    <3>1. op[w].i \in Filled
      BY <1>8, <2>1
    <3>2. op[w].area = PList[op[w].i]
      BY <1>2, <1>3, <2>1 DEF Listing
    <3>3. Exists(op[w].area)
      BY <3>1, <3>2 DEF BInv, TableOK
    <3> QED
      BY <2>2, <3>2, <3>3 DEF Read
  <2>4. ~op[w].disturbed => {"AreaCount", "items", "MaxIndex", "i"} \subseteq DOMAIN op[w]
    BY <1>2, <1>3, <2>1 DEF Listing
  <2> HIDE DEF items
  <2>5. /\ DOMAIN locals = DOMAIN op[w] /\ locals.fun = "list"
        /\ locals.disturbed = op[w].disturbed
        /\ ~op[w].disturbed => /\ locals.items = items /\ locals.i = op[w].i
                               /\ locals.AreaCount = op[w].AreaCount
                               /\ locals.MaxIndex = op[w].MaxIndex
    BY <1>2, <1>3, <2>4
  <2>6. NextItem(w, locals)
    BY <2>2 DEF items, Longer
  <2>7. ~op[w].disturbed /\ AreaCount <= Cleared => locals.items = Longer(number)
    BY <2>5 DEF items
  <2> HIDE DEF locals
  <2> QED
    BY <1>7, <2>1, <2>3, <2>5, <2>6, <2>7
<1> QED
  BY <1>6, <1>9, <1>10

\* A step of a worker that reads keeps the invariant.
LEMMA ReaderSteps ==
    ASSUME BInv, RInv, InCleared, NEW w \in Workers, ReaderStep(w)
    PROVE  BInv' /\ RInv'
<1>1. CASE DoEvent(w)
  <2>1. /\ pc[w] = "event" /\ pc' = [pc EXCEPT ![w] = "idle"] /\ op' = [op EXCEPT ![w] = Idle]
        /\ heap' = heap /\ table' = table
    BY <1>1 DEF DoEvent, At, Done, Goto, Keep, Unchanging
  <2> QED
    BY <2>1, PlainReader
<1> QED
  BY <1>1, LookupSteps, UploadSteps, ListSteps DEF ReaderStep

-----------------------------------------------------------------------------
(* What a client has sent, with any number of clients that download *)

\* What a worker has received stays when others change the table.
LEMMA ReceivedKept ==
    ASSUME NEW v \in Workers, Received(v), pc'[v] = pc[v],
           \/ op'[v] = op[v]
           \/ op'[v] = IF op[v] = Idle THEN Idle ELSE [op[v] EXCEPT !.disturbed = TRUE]
    PROVE  Received(v)'
<1>1. CASE pc[v] \notin Waiting \cup Exchanging
  BY <1>1 DEF Received, Waiting, Exchanging
<1>2. CASE pc[v] \in Waiting \cup Exchanging
  <2>1. {"BlkLen", "written", "last_packet", "sent"} \subseteq DOMAIN op[v]
    BY <1>2 DEF Received
  <2>2. op[v] # Idle
    BY <2>1 DEF Idle
  <2>3. /\ DOMAIN op'[v] = DOMAIN op[v] /\ op'[v].BlkLen = op[v].BlkLen
        /\ op'[v].written = op[v].written /\ op'[v].last_packet = op[v].last_packet
        /\ op'[v].sent = op[v].sent
        /\ "Index" \in DOMAIN op[v] => op'[v].Index = op[v].Index
    BY <2>1, <2>2
  <2> QED
    BY <2>1, <2>3 DEF Received
<1> QED
  BY <1>1, <1>2

\* A step of w keeps what the others have received, so that only w counts.
LEMMA ReceivedStep ==
    ASSUME DInv, MaxIndex' \in Slots,
           NEW w \in Workers, NEW l, NEW locals, pc' = [pc EXCEPT ![w] = l],
           op' = [op EXCEPT ![w] = locals] \/ Disturbing(w, locals)
    PROVE  /\ pc'[w] = l /\ op'[w] = locals
           /\ Received(w)' => DInv'
<1>1. pc'[w] = l /\ op'[w] = locals
  BY DEF DInv, Disturbing
<1>2. \A v \in Workers \ {w} :
         /\ pc'[v] = pc[v]
         /\ \/ op'[v] = op[v]
            \/ op'[v] = IF op[v] = Idle THEN Idle ELSE [op[v] EXCEPT !.disturbed = TRUE]
  BY DEF DInv, Disturbing
<1>3. \A v \in Workers \ {w} : Received(v)'
  BY <1>2, ReceivedKept DEF DInv
<1>4. pc' = [v \in Workers |-> pc'[v]] /\ op' = [v \in Workers |-> op'[v]]
  BY DEF DInv, Disturbing
<1> QED
  BY <1>1, <1>3, <1>4 DEF DInv

\* A worker that reads has received nothing.
LEMMA ReceivedRead ==
    ASSUME DInv, NEW w \in Workers,
           \/ \E number \in Numbers, f \in {"upload", "info"} : Request(w, f, number)
           \/ \E f \in {"upload", "info", "list"} : NoTable(w, f)
           \/ ListAll(w)
           \/ ListBoT(w)
           \/ Pass(w) /\ pc[w] = "find"
           \/ ReaderStep(w)
    PROVE  DInv' /\ MaxIndex' = MaxIndex
<1> DEFINE Moved == \E l \in {"idle", "event"} \cup ReaderPlaces : \E locals :
                       pc' = [pc EXCEPT ![w] = l] /\ op' = [op EXCEPT ![w] = locals]
<1>1. op = [op EXCEPT ![w] = op[w]]
  BY DEF DInv
<1>2. Moved \/ (pc' = pc /\ op' = op)
  <2>1. ASSUME NEW number \in Numbers, NEW f \in {"upload", "info"}, Request(w, f, number)
        PROVE  Moved
    BY <2>1 DEF Request, Goto, Keep, ReaderPlaces
  <2>2. ASSUME NEW f \in {"upload", "info", "list"}, NoTable(w, f)
        PROVE  Moved \/ (pc' = pc /\ op' = op)
    BY <2>2 DEF NoTable, Goto, Keep, ReaderPlaces
  <2>3. CASE ListAll(w)
    BY <2>3 DEF ListAll, Goto, Keep, ReaderPlaces
  <2>4. CASE ListBoT(w)
    BY <2>4 DEF ListBoT, Goto, Keep, ReaderPlaces
  <2>5. NotFound(w) => Moved
    BY DEF NotFound, Done, Goto, Keep, ReaderPlaces
  <2>6. CASE Find(w)
    BY <2>5, <2>6 DEF Find, Goto, Keep, ReaderPlaces
  <2>7. CASE Fetch(w)
    BY <2>5, <2>7 DEF Fetch, Goto, Keep, ReaderPlaces
  <2>8. CASE GetBlkInfo(w) \/ NoResource(w) \/ DoEvent(w)
    BY <1>1, <2>8 DEF GetBlkInfo, NoResource, DoEvent, Done, Goto, Keep, ReaderPlaces
  <2>9. CASE Announce(w) \/ Load(w)
    BY <2>9 DEF Announce, Load, Goto, Keep, ReaderPlaces
  <2>10. CASE SendChunk(w) \/ BreakUpload(w) \/ EndUpload(w)
    BY <1>1, <2>10 DEF SendChunk, BreakUpload, EndUpload, Goto, Keep, ReaderPlaces
  <2>11. ASSUME NEW locals, NextItem(w, locals)
         PROVE  Moved
    BY <2>11 DEF NextItem, Goto, Keep, ReaderPlaces
  <2>12. CASE ReadMaxIndex(w)
    BY <2>12 DEF ReadMaxIndex, Goto, Keep, ReaderPlaces
  <2>13. CASE GetItem(w)
    <3>1. CASE NextItem(w, op[w])
      BY <2>11, <3>1
    <3>2. CASE ~NextItem(w, op[w])
      BY <2>13, <3>2 DEF GetItem, Goto, Keep, ReaderPlaces
    <3> QED
      BY <3>1, <3>2
  <2>14. CASE SetItem(w)
    BY <2>11, <2>14 DEF SetItem
  <2>15. CASE Pass(w) /\ pc[w] = "find"
    <3>1. pc' = [pc EXCEPT ![w] = "find"]
      BY <2>15 DEF Pass, DInv
    <3> QED
      BY <2>15, <3>1 DEF Pass, Keep, ReaderPlaces
  <2> QED
    BY <2>1, <2>2, <2>3, <2>4, <2>6, <2>7, <2>8, <2>9, <2>10, <2>12, <2>13, <2>14, <2>15
       DEF ReaderStep
<1>3. MaxIndex' = MaxIndex
  <2>1. table' = table
    BY DEF Request, NoTable, ListAll, ListBoT, Pass, ReaderStep, Find, Fetch, GetBlkInfo, NoResource,
           Announce, Load, SendChunk, BreakUpload, EndUpload, DoEvent, ReadMaxIndex, GetItem, SetItem,
           Unchanging
  <2> QED
    BY <2>1 DEF table
<1>4. CASE pc' = pc /\ op' = op
  BY <1>3, <1>4 DEF DInv, Received
<1>5. ASSUME NEW l \in {"idle", "event"} \cup ReaderPlaces, NEW locals,
             pc' = [pc EXCEPT ![w] = l], op' = [op EXCEPT ![w] = locals]
      PROVE  DInv'
  <2>1. MaxIndex' \in Slots
    BY <1>3 DEF DInv
  <2>2. pc'[w] = l /\ (Received(w)' => DInv')
    BY <1>5, <2>1, ReceivedStep
  <2>3. l \notin Waiting \cup Exchanging
    BY DEF ReaderPlaces, Waiting, Exchanging
  <2> QED
    BY <2>2, <2>3 DEF Received, Waiting, Exchanging
<1> QED
  BY <1>2, <1>3, <1>4, <1>5

\* A packet, and no more, makes what was written more.
LEMMA ReceivedWrite ==
    ASSUME DInv, NEW w \in Workers, NEW size \in Nat, NEW last \in BOOLEAN, NEW sent \in {0, size},
           Write(w, size, last, sent), (sent = 0 /\ last /\ size = StaleLen) \/ sent = size
    PROVE  DInv' /\ MaxIndex' = MaxIndex
<1> DEFINE locals == [op[w] EXCEPT !.written = op[w].written + size,
                                   !.last_packet = last, !.sent = op[w].sent + sent]
           l == IF ~last /\ op[w].written + size < op[w].BlkLen THEN "receive" ELSE "ended"
<1>1. pc[w] = "receive" /\ pc' = [pc EXCEPT ![w] = l] /\ op' = [op EXCEPT ![w] = locals]
  BY DEF Write, At, Goto, Keep
<1>2. /\ {"BlkLen", "written", "last_packet", "sent"} \subseteq DOMAIN op[w]
      /\ op[w].written = op[w].sent /\ op[w].sent \in Nat
  BY <1>1 DEF DInv, Received, Waiting
<1>3. /\ DOMAIN locals = DOMAIN op[w] /\ locals.written = op[w].written + size
      /\ locals.last_packet = last /\ locals.sent = op[w].sent + sent
  BY <1>2
<1>4. l \in {"receive", "ended"} /\ (l = "receive" => ~last)
  OBVIOUS
<1> HIDE DEF locals, l
<1>5. /\ locals.sent \in Nat
      /\ locals.written \in {locals.sent, locals.sent + StaleLen}
      /\ ~last => locals.written = locals.sent
  BY <1>2, <1>3, BlocksAssumption
<1>6. MaxIndex' = MaxIndex /\ MaxIndex' \in Slots
  BY DEF Write, Unchanging, table, DInv
<1>7. pc'[w] = l /\ op'[w] = locals /\ (Received(w)' => DInv')
  BY <1>1, <1>6, ReceivedStep
<1> QED
  BY <1>2, <1>3, <1>4, <1>5, <1>6, <1>7 DEF Received, Exchanging

\* Later steps of a download keep what was received.
LEMMA ReceivedOn ==
    ASSUME DInv, MaxIndex' \in Slots, NEW w \in Workers, pc[w] \in {"remove"} \cup Exchanging,
           NEW l \in {"event", "remove"} \cup Exchanging, NEW locals, pc' = [pc EXCEPT ![w] = l],
           op' = [op EXCEPT ![w] = locals] \/ Disturbing(w, locals),
           l \in {"store", "countUp", "raise"} => "Index" \in DOMAIN locals /\ locals.Index \in Slots,
           \/ locals = op[w]
           \/ \E x : \/ locals = [op[w] EXCEPT !.i = x]
                     \/ locals = [Index |-> x] ++ op[w]
                     \/ locals = [area |-> x] ++ op[w]
                     \/ locals = [NewArea |-> x, i |-> 0] ++ op[w]
                     \/ locals = [RetCode |-> x] ++ op[w]
    PROVE  DInv'
<1>1. /\ {"BlkLen", "written", "last_packet", "sent"} \subseteq DOMAIN op[w]
      /\ op[w].last_packet /\ (op[w].BlkLen < StaleLen => op[w].sent = op[w].BlkLen)
  BY DEF DInv, Received, Waiting
<1>2. /\ {"BlkLen", "written", "last_packet", "sent"} \subseteq DOMAIN locals
      /\ locals.last_packet = op[w].last_packet /\ locals.BlkLen = op[w].BlkLen
      /\ locals.sent = op[w].sent
  <2>1. CASE locals = op[w]
    BY <1>1, <2>1
  <2>2. ASSUME NEW x, \/ locals = [op[w] EXCEPT !.i = x]
                      \/ locals = [Index |-> x] ++ op[w]
                      \/ locals = [area |-> x] ++ op[w]
                      \/ locals = [NewArea |-> x, i |-> 0] ++ op[w]
                      \/ locals = [RetCode |-> x] ++ op[w]
        PROVE  /\ {"BlkLen", "written", "last_packet", "sent"} \subseteq DOMAIN locals
               /\ locals.last_packet = op[w].last_packet /\ locals.BlkLen = op[w].BlkLen
               /\ locals.sent = op[w].sent
    BY <1>1, <2>2 DEF ++
  <2> QED
    BY <2>1, <2>2
<1>3. pc'[w] = l /\ op'[w] = locals /\ (Received(w)' => DInv')
  BY ReceivedStep
<1> QED
  BY <1>1, <1>2, <1>3 DEF Received, Waiting, Exchanging

\* A step of a download, and MaxIndex, which never sinks.
LEMMA ReceivedDownload ==
    ASSUME DInv, NEW w \in Workers, DownloadStep(w) \/ (Pass(w) /\ pc[w] \in {"remove", "add"})
    PROVE  DInv' /\ MaxIndex' >= MaxIndex
<1>1. op = [op EXCEPT ![w] = op[w]]
  BY DEF DInv
<1>2. MaxIndex' = MaxIndex => MaxIndex' \in Slots /\ MaxIndex' >= MaxIndex
  BY SlotsType DEF DInv
<1>3. ASSUME NEW size \in Fragments, NEW last \in BOOLEAN, Write(w, size, last, size)
      PROVE  DInv' /\ MaxIndex' >= MaxIndex
  BY <1>2, <1>3, ReceivedWrite, BlocksAssumption
<1>4. CASE WriteStale(w)
  <2>1. StaleLen \in Nat
    BY BlocksAssumption DEF StaleLen
  <2> QED
    BY <1>2, <1>4, <2>1, ReceivedWrite DEF WriteStale
<1>5. CASE DownloadEnded(w)
  <2>1. pc[w] = "ended" /\ MaxIndex' = MaxIndex
    BY <1>5 DEF DownloadEnded, At, Unchanging, table
  <2>2. CASE Complete(op[w])
    <3> DEFINE locals == [i |-> 0] ++ op[w]
    <3>1. pc' = [pc EXCEPT ![w] = "remove"] /\ op' = [op EXCEPT ![w] = locals]
      BY <1>5, <2>2 DEF DownloadEnded, Goto, Keep
    <3>2. pc'[w] = "remove" /\ op'[w] = locals /\ (Received(w)' => DInv')
      BY <1>2, <2>1, <3>1, ReceivedStep
    <3>3. /\ {"BlkLen", "written", "last_packet", "sent"} \subseteq DOMAIN op[w]
          /\ op[w].sent \in Nat /\ op[w].written \in {op[w].sent, op[w].sent + StaleLen}
      BY <2>1 DEF DInv, Received, Waiting
    <3>4. op[w].last_packet /\ (op[w].BlkLen < StaleLen => op[w].sent = op[w].BlkLen)
      <4>1. op[w].last_packet /\ op[w].written = op[w].BlkLen
        BY <2>2 DEF Complete
      <4>2. StaleLen \in Nat
        BY BlocksAssumption DEF StaleLen
      <4> QED
        BY <3>3, <4>1, <4>2
    <3>5. /\ {"BlkLen", "written", "last_packet", "sent"} \subseteq DOMAIN locals
          /\ locals.BlkLen = op[w].BlkLen /\ locals.last_packet = op[w].last_packet
          /\ locals.sent = op[w].sent
      BY <3>3 DEF ++
    <3> HIDE DEF locals
    <3>6. Received(w)'
      BY <3>2, <3>4, <3>5 DEF Received, Waiting, Exchanging
    <3> QED
      BY <1>2, <2>1, <3>2, <3>6
  <2>3. CASE ~Complete(op[w])
    <3>1. PICK locals : pc' = [pc EXCEPT ![w] = "event"] /\ op' = [op EXCEPT ![w] = locals]
      BY <1>5, <2>3 DEF DownloadEnded, Goto, Keep
    <3>2. pc'[w] = "event" /\ (Received(w)' => DInv')
      BY <1>2, <2>1, <3>1, ReceivedStep
    <3> QED
      BY <1>2, <2>1, <3>2 DEF Received, Waiting, Exchanging
  <2> QED
    BY <2>2, <2>3
<1>6. CASE Remove(w)
  <2>1. pc[w] = "remove" /\ MaxIndex' = MaxIndex
    BY <1>6 DEF Remove, At, Unchanging, table
  <2>2. PICK l, locals :
           /\ l \in {"new", "clear"} /\ pc' = [pc EXCEPT ![w] = l] /\ op' = [op EXCEPT ![w] = locals]
           /\ locals = op[w] \/ \E x : locals = [Index |-> x] ++ op[w]
    BY <1>1, <1>6 DEF Remove, Goto, Keep
  <2>3. DInv'
    BY <1>2, <2>1, <2>2, ReceivedOn DEF Exchanging
  <2> QED
    BY <1>2, <2>1, <2>3
<1>7. CASE Pass(w) /\ pc[w] \in {"remove", "add"}
  <2>1. PICK l \in {"remove", "add"} : pc[w] = l
    BY <1>7
  <2>2. /\ MaxIndex' = MaxIndex /\ pc' = [pc EXCEPT ![w] = l]
        /\ op' = [op EXCEPT ![w] = [op[w] EXCEPT !.i = op[w].i + 1]]
    BY <1>7, <2>1 DEF Pass, Keep, Unchanging, table, DInv
  <2>3. DInv'
    BY <1>2, <2>1, <2>2, ReceivedOn DEF Exchanging
  <2> QED
    BY <1>2, <2>2, <2>3
<1>8. CASE TakeOut(w) \/ DeleteArea(w) \/ CountDown(w)
  <2>1. pc[w] \in {"clear", "delete", "countDown"} /\ MaxIndex' = MaxIndex
    BY <1>8 DEF TakeOut, DeleteArea, CountDown, At, table
  <2>2. PICK l, locals :
           /\ l \in {"delete", "countDown", "new"} /\ pc' = [pc EXCEPT ![w] = l] /\ Disturbing(w, locals)
           /\ locals = op[w] \/ \E x : locals = [area |-> x] ++ op[w]
    BY <1>8 DEF TakeOut, DeleteArea, CountDown, Goto
  <2>3. DInv'
    BY <1>2, <2>1, <2>2, ReceivedOn DEF Exchanging
  <2> QED
    BY <1>2, <2>1, <2>3
<1>9. CASE NewArea(w) \/ AddFails(w)
  <2>1. pc[w] \in {"new", "add"} /\ MaxIndex' = MaxIndex
    BY <1>9 DEF NewArea, AddFails, At, table
  <2>2. PICK l, locals :
           /\ l \in {"add", "event"} /\ pc' = [pc EXCEPT ![w] = l] /\ op' = [op EXCEPT ![w] = locals]
           /\ \E x : \/ locals = [NewArea |-> x, i |-> 0] ++ op[w]
                     \/ locals = [RetCode |-> x] ++ op[w]
    <3>1. NewArea(w) => \E x : op' = [op EXCEPT ![w] = [NewArea |-> x, i |-> 0] ++ op[w]]
      BY Zenon DEF NewArea, Keep
    <3>2. AddFails(w) => op' = [op EXCEPT ![w] = [RetCode |-> "memoryLimit"] ++ op[w]]
      BY DEF AddFails, Keep
    <3>3. /\ NewArea(w) => pc' = [pc EXCEPT ![w] = "add"]
          /\ AddFails(w) => pc' = [pc EXCEPT ![w] = "event"]
      BY DEF NewArea, AddFails, Goto
    <3>4. CASE NewArea(w)
      <4>1. PICK x : op' = [op EXCEPT ![w] = [NewArea |-> x, i |-> 0] ++ op[w]]
        BY <3>1, <3>4
      <4> DEFINE locals == [NewArea |-> x, i |-> 0] ++ op[w]
      <4>2. \E y : locals = [NewArea |-> y, i |-> 0] ++ op[w]
        OBVIOUS
      <4>3. op' = [op EXCEPT ![w] = locals] /\ pc' = [pc EXCEPT ![w] = "add"]
        BY <3>3, <3>4, <4>1
      <4> HIDE DEF locals
      <4> QED
        BY <4>2, <4>3
    <3>5. CASE AddFails(w)
      <4> DEFINE locals == [RetCode |-> "memoryLimit"] ++ op[w]
      <4>1. \E y : locals = [RetCode |-> y] ++ op[w]
        OBVIOUS
      <4>2. op' = [op EXCEPT ![w] = locals] /\ pc' = [pc EXCEPT ![w] = "event"]
        BY <3>2, <3>3, <3>5
      <4> HIDE DEF locals
      <4> QED
        BY <4>1, <4>2
    <3> QED
      BY <1>9, <3>4, <3>5
  <2>3. DInv'
    BY <1>2, <2>1, <2>2, ReceivedOn DEF Exchanging
  <2> QED
    BY <1>2, <2>1, <2>3
<1>10. CASE Add(w)
  <2> DEFINE locals == [Index |-> FindFirstFree] ++ op[w]
  <2>1. /\ pc[w] = "add" /\ MaxIndex' = MaxIndex
        /\ pc' = [pc EXCEPT ![w] = "store"] /\ op' = [op EXCEPT ![w] = locals]
    BY <1>10 DEF Add, At, Unchanging, table, Goto, Keep
  <2>2. FindFirstFree \in Slots
    BY <1>10, FirstFreeIs DEF Add, Free
  <2>3. "Index" \in DOMAIN locals /\ locals.Index \in Slots
    BY <2>2 DEF ++
  <2>4. \E x : locals = [Index |-> x] ++ op[w]
    OBVIOUS
  <2> HIDE DEF locals
  <2>5. DInv'
    BY <1>2, <2>1, <2>3, <2>4, ReceivedOn DEF Exchanging
  <2> QED
    BY <1>2, <2>1, <2>5
<1>11. CASE Store(w) \/ CountUp(w) \/ RaiseMaxIndex(w)
  <2>1. /\ pc[w] \in {"store", "countUp", "raise"}
        /\ MaxIndex' = MaxIndex \/ MaxIndex' = IF MaxIndex < op[w].Index THEN op[w].Index ELSE MaxIndex
    BY <1>11 DEF Store, CountUp, RaiseMaxIndex, At
  <2>2. "Index" \in DOMAIN op[w] /\ op[w].Index \in Slots
    BY <2>1 DEF DInv, Received
  <2>3. MaxIndex' \in Slots /\ MaxIndex' >= MaxIndex
    BY <2>1, <2>2, SlotsType DEF DInv
  <2>4. PICK l, locals :
           /\ l \in {"countUp", "raise", "event"} /\ pc' = [pc EXCEPT ![w] = l] /\ Disturbing(w, locals)
           /\ locals = op[w] \/ (l = "event" /\ \E x : locals = [RetCode |-> x] ++ op[w])
    BY <1>11 DEF Store, CountUp, RaiseMaxIndex, Goto
  <2>5. l \in {"store", "countUp", "raise"} => "Index" \in DOMAIN locals /\ locals.Index \in Slots
    BY <2>2, <2>4
  <2>6. DInv'
    BY <2>1, <2>3, <2>4, <2>5, ReceivedOn DEF Exchanging
  <2> QED
    BY <2>3, <2>6
<1> QED
  BY <1>3, <1>4, <1>5, <1>6, <1>7, <1>8, <1>9, <1>10, <1>11 DEF DownloadStep

\* What was received, and where the table ends, however many clients download.
LEMMA ReceivedNext ==
    ASSUME DInv, [Next]_vars
    PROVE  DInv' /\ (InCleared' => InCleared)
<1>1. \A w \in Readers \cup Programmers : w \in Workers
  BY DEF Workers
<1>2. MaxIndex \in Nat /\ Cleared \in Nat
  BY SlotsType DEF DInv
<1>3. DInv' /\ MaxIndex' >= MaxIndex => (InCleared' => InCleared)
  BY <1>2, SlotsType DEF InCleared, DInv
<1>4. DInv' /\ MaxIndex' = MaxIndex => (InCleared' => InCleared)
  BY DEF InCleared
<1>5. ASSUME NEW w \in Programmers, NEW number \in Numbers, NEW length \in Lengths,
             ReqDownload(w, number, length)
      PROVE  DInv' /\ MaxIndex' = MaxIndex
  <2> DEFINE locals == [BlkNum |-> number, BlkLen |-> length, written |-> 0,
                        last_packet |-> FALSE, sent |-> 0,
                        before |-> {PList[k] : k \in IndicesOf(number)}] ++ Begin("download")
             l == IF length > 0 THEN "receive" ELSE "ended"
  <2>1. /\ pc' = [pc EXCEPT ![w] = l] /\ op' = [op EXCEPT ![w] = locals]
        /\ w \in Workers /\ MaxIndex' = MaxIndex
    BY <1>1, <1>5 DEF ReqDownload, Goto, Keep, Unchanging, table
  <2>2. /\ {"BlkLen", "written", "last_packet", "sent"} \subseteq DOMAIN locals
        /\ locals.written = 0 /\ locals.sent = 0 /\ locals.last_packet = FALSE
    BY DEF ++
  <2>3. l \in {"receive", "ended"}
    OBVIOUS
  <2> HIDE DEF locals, l
  <2>4. MaxIndex' \in Slots
    BY <2>1 DEF DInv
  <2>5. pc'[w] = l /\ op'[w] = locals /\ (Received(w)' => DInv')
    BY <2>1, <2>4, ReceivedStep
  <2>6. Received(w)'
    BY <2>2, <2>3, <2>5 DEF Received, Exchanging
  <2> QED
    BY <2>1, <2>5, <2>6
<1>6. ASSUME NEW w \in Readers,
             \/ \E number \in Numbers, f \in {"upload", "info"} : Request(w, f, number)
             \/ \E f \in {"upload", "info", "list"} : NoTable(w, f)
             \/ ListAll(w)
             \/ ListBoT(w)
      PROVE  DInv' /\ MaxIndex' = MaxIndex
  BY <1>1, <1>6, ReceivedRead
<1>7. ASSUME NEW w \in Workers, ReaderStep(w)
      PROVE  DInv' /\ MaxIndex' = MaxIndex
  BY <1>7, ReceivedRead
<1>8. ASSUME NEW w \in Workers, DownloadStep(w)
      PROVE  DInv' /\ MaxIndex' >= MaxIndex
  BY <1>8, ReceivedDownload
<1>9. ASSUME NEW w \in Workers, Pass(w)
      PROVE  DInv' /\ (InCleared' => InCleared)
  <2>1. CASE pc[w] = "find"
    BY <1>4, <1>9, <2>1, ReceivedRead
  <2>2. CASE pc[w] \in {"remove", "add"}
    BY <1>3, <1>9, <2>2, ReceivedDownload
  <2> QED
    BY <1>9, <2>1, <2>2 DEF Pass, Searching
<1>10. ASSUME UNCHANGED <<table, pc, op>>
       PROVE  DInv' /\ MaxIndex' = MaxIndex
  BY <1>10 DEF DInv, Received, table
<1>11. ASSUME NEW w \in Workers, Crash(w)
       PROVE  DInv' /\ MaxIndex' = MaxIndex
  BY <1>10, <1>11 DEF Crash
<1>12. CASE UNCHANGED vars
  BY <1>4, <1>10, <1>12 DEF vars, table
<1> QED
  BY <1>3, <1>4, <1>5, <1>6, <1>7, <1>8, <1>9, <1>11, <1>12 DEF Next

\* So the invariant of the downloads is inductive.
LEMMA ReceivedInductive == Spec => []DInv
<1>1. Init => DInv
  <2> SUFFICES ASSUME Init
               PROVE  DInv
    OBVIOUS
  <2>1. Len(Loaded) \in Nat /\ Len(Loaded) <= Capacity /\ (Loaded = <<>> <=> Len(Loaded) = 0)
    BY SlotsType, BlocksAssumption DEF Cleared
  <2>2. MaxIndex = IF Loaded = <<>> THEN 0 ELSE Len(Loaded) - 1
    BY DEF Init
  <2>3. MaxIndex \in Slots
    BY <2>1, <2>2, BlocksAssumption DEF Slots
  <2>4. /\ pc = [w \in Workers |-> pc[w]] /\ op = [w \in Workers |-> op[w]]
        /\ \A w \in Workers : pc[w] = "idle"
    BY DEF Init
  <2> QED
    BY <2>3, <2>4 DEF DInv, Received, Waiting, Exchanging
<1> QED
  BY <1>1, ReceivedNext, PTL DEF Spec

-----------------------------------------------------------------------------
(* The invariant *)

\* At the start the blocks there are fill the first slots.
LEMMA InitInv == Init => BInv /\ RInv
<1> SUFFICES ASSUME Init
             PROVE  BInv /\ RInv
  OBVIOUS
<1> DEFINE n == Len(Loaded)
<1>1. n \in Nat /\ n <= Cleared /\ n <= Capacity /\ DOMAIN Loaded = 1 .. n
  BY SlotsType, BlocksAssumption DEF Cleared
<1> HIDE DEF n
<1>2. 1 .. n \subseteq Areas
  BY <1>1, SlotsType, BlocksAssumption, FS_CardinalityType DEF Areas
<1>3. /\ \A a \in 1 .. n : heap[a] = [Number |-> Loaded[a], Size |-> LoadedSize, PData |-> "loaded"]
      /\ \A a \in Areas \ (1 .. n) : heap[a] = Null
      /\ DOMAIN heap = Areas /\ heap = [a \in Areas |-> heap[a]]
  BY <1>1, <1>2 DEF Init
<1>4. \A a \in 1 .. n : heap[a] \in AreaRecords /\ heap[a] # Null /\ heap[a].Number = Loaded[a]
  <2>1. \A a \in 1 .. n : Loaded[a] \in Words
    BY <1>1, BlocksAssumption
  <2>2. LoadedSize \in Sizes
    BY DEF Sizes
  <2>3. ASSUME NEW a \in 1 .. n
        PROVE  heap[a] \in AreaRecords /\ heap[a].Number = Loaded[a]
    <3>1. heap[a] = [Number |-> Loaded[a], Size |-> LoadedSize, PData |-> "loaded"]
      BY <1>3
    <3>2. [Number |-> Loaded[a], Size |-> LoadedSize, PData |-> "loaded"] \in AreaRecords
      BY <2>1, <2>2 DEF AreaRecords
    <3> QED
      BY <3>1, <3>2
  <2> QED
    BY <2>3, PointersType
<1>5. PICK rest \in [Slots -> {Null, Wild}] :
         PList = [k \in Slots |-> IF k + 1 \in DOMAIN Loaded THEN k + 1
                                  ELSE IF k < Cleared THEN Null ELSE rest[k]]
  BY DEF Init
<1>6. /\ \A k \in Slots : k < n => PList[k] = k + 1 /\ PList[k] \in Areas
      /\ \A k \in Slots : ~(k < n) => PList[k] \in {Null, Wild}
      /\ \A k \in Slots : k < Cleared => PList[k] # Wild
  <2>1. \A k \in Slots : k < n <=> k + 1 \in 1 .. n
    BY <1>1, SlotsType
  <2>2. \A k \in Slots : k + 1 # Wild
    BY SlotsType, PointersAssumption
  <2>3. \A k \in Slots : rest[k] \in {Null, Wild}
    BY <1>5
  <2> QED
    BY <1>1, <1>2, <1>5, <2>1, <2>2, <2>3, PointersAssumption
<1>7. Filled = 0 .. n - 1
  <2>1. \A k \in 0 .. n - 1 : k \in Slots
    BY <1>1, SlotsType DEF Slots
  <2>2. \A k \in Slots : k < n <=> k \in 0 .. n - 1
    BY <1>1, SlotsType
  <2> QED
    BY <1>6, <2>1, <2>2, PointersType DEF Filled
<1>8. AreaCount = n /\ MaxIndex = IF n = 0 THEN 0 ELSE n - 1
  <2>1. Loaded = <<>> <=> n = 0
    BY BlocksAssumption DEF n
  <2> QED
    BY <2>1 DEF Init, n
<1>9. \A w \in Workers : pc[w] = "idle" /\ op[w] = Idle
  BY DEF Init
<1>10. Programmers \subseteq Workers
  BY DEF Workers
<1>11. TableType
  <2>1. heap \in [Areas -> AreaRecords \cup {Null}]
    BY <1>3, <1>4
  <2>2. PList \in [Slots -> Areas \cup {Null, Wild}]
    <3>1. \A k \in Slots : PList[k] \in Areas \cup {Null, Wild}
      BY <1>6
    <3> QED
      BY <1>5, <3>1
  <2>3. MaxIndex \in Slots
    BY <1>1, <1>8, SlotsType, BlocksAssumption DEF Slots
  <2>4. pc \in [Workers -> Places] /\ op = [w \in Workers |-> op[w]]
    BY DEF Init, Places
  <2> QED
    BY <1>1, <1>8, <2>1, <2>2, <2>3, <2>4 DEF TableType
<1>12. TableOK
  <2>1. \A k \in Filled : k \in Slots /\ PList[k] = k + 1 /\ k + 1 \in 1 .. n
    BY <1>1, <1>6, <1>7, SlotsType DEF Filled
  <2>2. \A k \in Filled : Exists(PList[k])
    BY <1>2, <1>4, <2>1 DEF Exists
  <2>3. \A j, k \in Filled : heap[PList[j]].Number = heap[PList[k]].Number => j = k
    <3>1. \A k \in Filled : heap[PList[k]].Number = Loaded[k + 1]
      BY <1>4, <2>1
    <3>2. \A j, k \in Filled : Loaded[j + 1] = Loaded[k + 1] => j + 1 = k + 1
      BY <1>1, <2>1, BlocksAssumption
    <3> QED
      BY <1>1, <1>7, <3>1, <3>2
  <2>4. \A k \in Filled : k <= MaxIndex
    BY <1>1, <1>7, <1>8
  <2>5. \A a \in Areas : Exists(a) => \E k \in Filled : a = PList[k]
    <3> SUFFICES ASSUME NEW a \in Areas, Exists(a)
                 PROVE  \E k \in Filled : a = PList[k]
      OBVIOUS
    <3>1. a \in 1 .. n
      BY <1>3 DEF Exists
    <3>2. a - 1 \in Filled /\ PList[a - 1] = a - 1 + 1 /\ a - 1 + 1 = a
      BY <1>1, <1>7, <2>1, <3>1
    <3> QED
      BY <3>2
  <2> QED
    BY <1>6, <2>2, <2>3, <2>4, <2>5 DEF TableOK
<1>13. Prefix
  <2>1. \A p \in Programmers : ~Gaping(p)
    BY <1>9, <1>10 DEF Gaping
  <2>2. Held = Filled
    BY <2>1 DEF Held
  <2>3. Count = n
    BY <1>8, <1>9, <1>10 DEF Count, Uncounted
  <2> QED
    BY <1>1, <1>7, <1>8, <2>2, <2>3 DEF Prefix
<1>14. \A p \in Programmers : Downloading(p)
  BY <1>9, <1>10 DEF Downloading, Gaping, Waiting, Exchanging
<1>15. RInv
  BY <1>9 DEF RInv, Fields, Uploading, Listing, ReaderPlaces, Waiting, Exchanging
<1> QED
  BY <1>11, <1>12, <1>13, <1>14, <1>15 DEF BInv

\* A step of a download is one of a programmer.
LEMMA DownloadSteps ==
    ASSUME OneProgrammer, BInv, RInv, InCleared, NEW w \in Workers, DownloadStep(w)
    PROVE  BInv' /\ RInv'
<1>1. pc[w] \in Waiting \cup Exchanging
  BY DEF DownloadStep, Write, WriteStale, DownloadEnded, Remove, TakeOut, DeleteArea, CountDown,
         NewArea, AddFails, Add, Store, CountUp, RaiseMaxIndex, At, Waiting, Exchanging
<1>2. w \in Programmers
  BY <1>1 DEF RInv, Fields
<1>3. \/ \E size, sent : \E last \in BOOLEAN : Write(w, size, last, sent)
      \/ DownloadEnded(w) \/ Remove(w) \/ NewArea(w) \/ AddFails(w) \/ Add(w)
      \/ TakeOut(w) \/ DeleteArea(w) \/ CountDown(w) \/ Store(w) \/ CountUp(w)
      \/ RaiseMaxIndex(w)
  <2>1. (\E size \in Fragments, last \in BOOLEAN : Write(w, size, last, size)) \/ WriteStale(w) =>
           \E size, sent : \E last \in BOOLEAN : Write(w, size, last, sent)
    BY DEF WriteStale
  <2> QED
    BY <2>1 DEF DownloadStep
<1> QED
  BY <1>2, <1>3, QuietSteps, DisturbingSteps

\* The loop of IndexOf goes on, for a reader or a programmer.
LEMMA PassSteps ==
    ASSUME OneProgrammer, BInv, RInv, InCleared, NEW w \in Workers, Pass(w)
    PROVE  BInv' /\ RInv'
<1>1. CASE pc[w] = "find"
  BY <1>1, LookupSteps
<1>2. CASE pc[w] \in {"remove", "add"}
  <2>1. w \in Programmers
    BY <1>2 DEF RInv, Fields, Waiting, Exchanging
  <2> QED
    BY <1>2, <2>1, QuietSteps
<1> QED
  BY <1>1, <1>2 DEF Pass, Searching

\* The invariant is inductive as long as every slot that is searched was set.
LEMMA BlocksInductive == OneProgrammer => (Spec => [](InCleared => BInv /\ RInv))
<1> SUFFICES ASSUME OneProgrammer
             PROVE  Spec => [](InCleared => BInv /\ RInv)
  OBVIOUS
<1>1. ASSUME BInv, RInv, InCleared, [Next]_vars
      PROVE  BInv' /\ RInv'
  <2>1. ASSUME UNCHANGED <<heap, table, pc, op>>
        PROVE  BInv' /\ RInv'
    <3>1. /\ PList' = PList /\ AreaCount' = AreaCount /\ MaxIndex' = MaxIndex
          /\ heap' = heap /\ pc' = pc /\ op' = op
      BY <2>1 DEF table
    <3>2. /\ Filled' = Filled /\ Held' = Held /\ (Uncounted' <=> Uncounted) /\ (Steady' <=> Steady)
          /\ \A a : Exists(a)' <=> Exists(a)
          /\ \A w : Gaping(w)' <=> Gaping(w)
      BY <3>1 DEF Filled, Held, Uncounted, Steady, Exists, Gaping
    <3>3. BInv'
      <4>1. TableType'
        BY <1>1, <3>1 DEF BInv, TableType
      <4>2. TableOK' /\ Prefix'
        BY <1>1, <2>1, <3>1, <4>1, TableKept
      <4>3. \A p \in Programmers : Downloading(p)'
        BY <1>1, <2>1, <3>1, DownloadKept
      <4> QED
        BY <4>1, <4>2, <4>3 DEF BInv
    <3>4. RInv'
      BY <1>1, <3>1, <3>2, OthersKept DEF RInv
    <3> QED
      BY <3>3, <3>4
  <2>2. ASSUME NEW w \in Readers, NEW f \in {"upload", "info", "list"}, NoTable(w, f)
        PROVE  BInv' /\ RInv'
    <3>1. w \in Workers
      BY DEF Workers
    <3>2. CASE crashed'
      <4>1. ~crashed
        BY <2>2 DEF NoTable, At
      <4>2. UNCHANGED <<heap, table, pc, op>>
        BY <2>2, <3>2, <4>1 DEF NoTable, Unchanging
      <4> QED
        BY <2>1, <4>2
    <3>3. CASE ~crashed'
      BY <1>1, <2>2, <3>1, <3>3, RequestSteps
    <3> QED
      BY <3>2, <3>3
  <2>3. ASSUME NEW w \in Readers,
               \/ \E number \in Numbers, f \in {"upload", "info"} : Request(w, f, number)
               \/ ListAll(w)
               \/ ListBoT(w)
        PROVE  BInv' /\ RInv'
    BY <1>1, <2>3, RequestSteps DEF Workers
  <2>4. ASSUME NEW w \in Programmers, NEW number \in Numbers, NEW length \in Lengths,
               ReqDownload(w, number, length)
        PROVE  BInv' /\ RInv'
    BY <1>1, <2>4, QuietSteps
  <2>5. ASSUME NEW w \in Workers, ReaderStep(w)
        PROVE  BInv' /\ RInv'
    BY <1>1, <2>5, ReaderSteps
  <2>6. ASSUME NEW w \in Workers, DownloadStep(w)
        PROVE  BInv' /\ RInv'
    BY <1>1, <2>6, DownloadSteps
  <2>7. ASSUME NEW w \in Workers, Crash(w)
        PROVE  BInv' /\ RInv'
    BY <2>1, <2>7 DEF Crash
  <2>8. CASE UNCHANGED vars
    BY <2>1, <2>8 DEF vars, table
  <2>9. ASSUME NEW w \in Workers, Pass(w)
        PROVE  BInv' /\ RInv'
    BY <1>1, <2>9, PassSteps
  <2> QED
    BY <1>1, <2>2, <2>3, <2>4, <2>5, <2>6, <2>7, <2>8, <2>9 DEF Next
<1>2. DInv /\ (InCleared => BInv /\ RInv) /\ [Next]_vars => (InCleared => BInv /\ RInv)'
  BY <1>1, ReceivedNext
<1> QED
  BY <1>2, InitInv, ReceivedInductive, PTL DEF Spec

-----------------------------------------------------------------------------
(* Theorems *)

\* The blocks fill the first slots and IndexOf finds each, whatever one client
\* downloads and deletes (TS7AreaContainer, plc_device.cpp:62).
THEOREM BlocksPacked == OneProgrammer => (Spec => []Packed)
<1> SUFFICES ASSUME OneProgrammer
             PROVE  Spec => []Packed
  OBVIOUS
<1>1. (InCleared => BInv /\ RInv) => Packed
  <2> SUFFICES ASSUME BInv, Changing = {}, AreaCount <= Cleared
               PROVE  /\ Filled = 0 .. AreaCount - 1
                      /\ MaxIndex >= AreaCount - 1
                      /\ \A k \in 0 .. AreaCount - 1 :
                            Exists(PList[k]) /\ IndexOf(heap[PList[k]].Number) = k
    BY DEF Packed, Filled
  <2>1. Steady
    BY DEF Changing, Steady, Gaping, Workers
  <2>2. MaxIndex \in Nat /\ AreaCount \in Nat
    BY SlotsType DEF BInv, TableType
  <2>3. Filled = 0 .. AreaCount - 1 /\ MaxIndex >= AreaCount - 1
    BY <2>1, <2>2, SteadyTable
  <2>4. ASSUME NEW k \in Filled
        PROVE  Exists(PList[k]) /\ IndexOf(heap[PList[k]].Number) = k
    <3>1. Exists(PList[k]) /\ k \in 0 .. MaxIndex
      BY <2>2, <2>3, <2>4 DEF BInv, TableOK
    <3>2. k \in IndicesOf(heap[PList[k]].Number)
      <4>1. heap[PList[k]] \in AreaRecords
        BY <3>1 DEF BInv, TableType, Exists
      <4>2. Word(heap[PList[k]].Number) = heap[PList[k]].Number
        BY <4>1, WordsAre DEF AreaRecords
      <4> QED
        BY <3>1, <4>2 DEF IndicesOf
    <3>3. IndexOf(heap[PList[k]].Number) \in IndicesOf(heap[PList[k]].Number)
      BY <3>2, IndexOfIs DEF BInv
    <3>4. ASSUME NEW j \in IndicesOf(heap[PList[k]].Number)
          PROVE  j = k
      <4>1. heap[PList[k]] \in AreaRecords
        BY <3>1 DEF BInv, TableType, Exists
      <4>2. Word(heap[PList[k]].Number) = heap[PList[k]].Number
        BY <4>1, WordsAre DEF AreaRecords
      <4>3. j \in Filled /\ heap[PList[j]].Number = heap[PList[k]].Number
        BY <4>2, IndexType DEF IndicesOf, Filled, Exists, BInv
      <4> QED
        BY <4>3 DEF BInv, TableOK
    <3> QED
      BY <3>1, <3>3, <3>4
  <2> QED
    BY <2>3, <2>4
<1> QED
  BY <1>1, BlocksInductive, PTL

\* A download that is refused leaves the block that was there, also when there is
\* no room for the new one (PerformFunctionDownload).
THEOREM RefusalKeepsBlock == OneProgrammer => (Spec => []RefusedKeepsBlock)
<1> SUFFICES ASSUME OneProgrammer
             PROVE  Spec => []RefusedKeepsBlock
  OBVIOUS
<1>1. (InCleared => BInv /\ RInv) => RefusedKeepsBlock
  BY DEF BInv, Downloading, RefusedKeepsBlock, BlocksOf
<1> QED
  BY <1>1, BlocksInductive, PTL

\* A list that no download disturbs has each block once (BLK_ListBoT).
THEOREM ListsAreExact == OneProgrammer => (Spec => []ListExact)
<1> SUFFICES ASSUME OneProgrammer
             PROVE  Spec => []ListExact
  OBVIOUS
<1>1. (InCleared => BInv /\ RInv) => ListExact
  <2> SUFFICES ASSUME BInv, RInv, NEW w \in Workers, pc[w] = "event", op[w].fun = "list",
                      ~op[w].disturbed, op[w].AreaCount <= Cleared
               PROVE  /\ DOMAIN op[w].items = 0 .. op[w].AreaCount - 1
                      /\ \A k \in Slots : Exists(PList[k]) =>
                            \E j \in DOMAIN op[w].items : op[w].items[j] = heap[PList[k]].Number
    BY DEF ListExact
  <2>1. Steady /\ op[w].AreaCount = AreaCount /\ ItemsOf(w, AreaCount)
    BY DEF RInv, Listing
  <2>2. Filled = 0 .. AreaCount - 1
    BY <2>1, SteadyTable
  <2>3. \A k \in Slots : Exists(PList[k]) => k \in Filled
    BY DEF Filled, Exists
  <2> QED
    BY <2>1, <2>2, <2>3 DEF ItemsOf
<1> QED
  BY <1>1, BlocksInductive, PTL

\* An upload that no download disturbs sends as much as it has announced
\* (PerformFunctionUpload).
THEOREM UploadsAreWhole == OneProgrammer => (Spec => []UploadIsWhole)
<1> SUFFICES ASSUME OneProgrammer
             PROVE  Spec => []UploadIsWhole
  OBVIOUS
<1>1. (InCleared => BInv /\ RInv) => UploadIsWhole
  BY DEF RInv, Uploading, UploadIsWhole
<1> QED
  BY <1>1, BlocksInductive, PTL

\* No block is installed that its client has not sent to the end, however many
\* clients download (PerformFunctionDownload, s7_server.cpp:1044).
THEOREM InstalledBlocksWhole == Spec => []InstalledIsWhole
<1>1. DInv => InstalledIsWhole
  BY DEF DInv, Received, InstalledIsWhole, Exchanging, Workers
<1> QED
  BY <1>1, ReceivedInductive, PTL

=============================================================================
