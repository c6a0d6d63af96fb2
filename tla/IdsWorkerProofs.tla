--------------------------- MODULE IdsWorkerProofs ---------------------------
(***************************************************************************)
(* Proofs that in the detector of port scans (IdsWorker, Detection) each   *)
(* source is in one place, each packet is counted once, and the tables     *)
(* follow memory.                                                          *)
(*                                                                         *)
(* The invariant is that of the places of a source (Placed), of the times  *)
(* that keep a new intrusion of a source apart from those forgotten        *)
(* (Arrived, Collected, Tracked, Over), and of what the table will say of  *)
(* an intrusion once the statements in the queue are executed (Heard,      *)
(* Follows).  What is folded over a set or a sequence is first shown to be *)
(* a number of pairs, or the end of a run, with a least counterexample.    *)
(***************************************************************************)
EXTENDS Detection, FiniteSetTheorems, SequenceTheorems, WellFoundedInduction, TLAPS

-----------------------------------------------------------------------------
(* The invariants *)

\* The elements of the lists.
Record == [srcAddr : Addrs, time : Nat]
Intrusion == [srcAddr : Addrs, start : Nat, stop : Nat, n : Nat,
              inserted : BOOLEAN, updated : BOOLEAN]
Row == [srcAddr : Addrs, start : Nat, stop : Nat, n : Nat]
Statement == [op : {"INSERT", "UPDATE", "CAPTURE"},
              srcAddr : Addrs, start : Nat, stop : Nat, n : Nat]

\* The type invariant.
IdsTypeOK ==
    /\ time \in Nat /\ pc \in {"sleep", "remove", "collect", "recognize"}
    /\ index \in 0 .. Len(intrusions) /\ (pc = "remove" <=> index > 0)
    /\ removeTime \in 0 .. time
    /\ newRecords \in Seq(Record) /\ records \in Seq(Record)
    /\ intrusions \in Seq(Intrusion) /\ srcAddrWhiteList \subseteq Addrs
    /\ sqlQueue \in Seq(Statement) /\ rows \in Seq(Row)
    /\ received \in [Addrs -> Nat] /\ ignored \in [Addrs -> Nat] /\ expired \in [Addrs -> Nat]
    /\ past \subseteq Intrusion /\ IsFiniteSet(past)

\* A source is ignored, tracked by one intrusion, or waits in records.
Placed ==
    /\ \A i, j \in DOMAIN intrusions : intrusions[i].srcAddr = intrusions[j].srcAddr => i = j
    /\ \A i \in DOMAIN intrusions : intrusions[i].srcAddr \notin srcAddrWhiteList
    /\ \A i \in DOMAIN records : records[i].srcAddr \notin srcAddrWhiteList
    /\ \A i \in DOMAIN intrusions, j \in DOMAIN records :
          intrusions[i].srcAddr # records[j].srcAddr

\* What is received is in the order of its time, and not old,
Arrived ==
    /\ \A i, j \in DOMAIN newRecords : i <= j => newRecords[i].time <= newRecords[j].time
    /\ \A i \in DOMAIN newRecords :
          newRecords[i].time <= time /\ time - newRecords[i].time <= MaxDelay

\* what is collected is in that order and older,
Collected ==
    /\ \A i, j \in DOMAIN records : i <= j => records[i].time <= records[j].time
    /\ \A i \in DOMAIN records :
          /\ records[i].time <= time
          /\ \A j \in DOMAIN newRecords : records[i].time <= newRecords[j].time

\* and so is what an intrusion has got.
Tracked ==
    \A i \in DOMAIN intrusions :
        /\ intrusions[i].start <= intrusions[i].stop /\ intrusions[i].stop <= time
        /\ \A j \in DOMAIN newRecords : intrusions[i].stop <= newRecords[j].time

\* An intrusion was over before the next one of its source.
Over ==
    \A ri \in past :
        /\ ri.start <= ri.stop
        /\ \/ ri.srcAddr \in srcAddrWhiteList
           \/ /\ ri.stop < time
              /\ \A j \in DOMAIN newRecords :
                    newRecords[j].srcAddr = ri.srcAddr => ri.stop < newRecords[j].time
        /\ \A j \in DOMAIN records : records[j].srcAddr = ri.srcAddr => ri.stop < records[j].time
        /\ \A i \in DOMAIN intrusions :
              intrusions[i].srcAddr = ri.srcAddr => ri.stop < intrusions[i].start
        /\ \A pi \in past : pi.srcAddr = ri.srcAddr /\ pi.start = ri.start => pi = ri

\* Its source and start say which intrusion it is.
Known(a, start) ==
    \/ \E ri \in past : ri.srcAddr = a /\ ri.start = start
    \/ \E i \in DOMAIN intrusions :
          intrusions[i].inserted /\ intrusions[i].srcAddr = a /\ intrusions[i].start = start

\* The database has heard of known intrusions only.
Heard ==
    /\ \A i \in DOMAIN rows : Known(rows[i].srcAddr, rows[i].start)
    /\ \A i \in DOMAIN sqlQueue :
          sqlQueue[i].op = "INSERT" => Known(sqlQueue[i].srcAddr, sqlQueue[i].start)

\* What a table says of an intrusion: nothing, in one row, or in several.
RowsOf(table, a, start) == {i \in DOMAIN table : table[i].srcAddr = a /\ table[i].start = start}

Entry(table, a, start) ==
    LET I == RowsOf(table, a, start)
    IN  IF I = {} THEN <<0, 0, 0>>
        ELSE IF \A i, j \in I : i = j
        THEN LET i == CHOOSE i \in I : TRUE
             IN  <<1, table[i].stop, table[i].n>>
        ELSE <<2, 0, 0>>

\* What the table will say when the queue is empty.
Follows ==
    /\ \A ri \in past :
          <<ri.srcAddr, ri.start>> \notin failed =>
              Entry(Settled, ri.srcAddr, ri.start) = <<1, ri.stop, ri.n>>
    /\ \A i \in DOMAIN intrusions :
          LET ri == intrusions[i]
          IN  /\ ri.updated => ri.inserted
              /\ ri.inserted /\ <<ri.srcAddr, ri.start>> \notin failed =>
                    /\ Entry(Settled, ri.srcAddr, ri.start)[1] = 1
                    /\ ri.updated => Entry(Settled, ri.srcAddr, ri.start) = <<1, ri.stop, ri.n>>

-----------------------------------------------------------------------------
(* Sets of numbers, and what is left of a list *)

\* The least of a set of numbers.
LEMMA LeastNumber ==
    ASSUME NEW S \in SUBSET Nat, S # {}
    PROVE  \E i \in S : \A j \in S : i <= j
<1>1. PICK i \in S : \A j \in S : <<j, i>> \notin OpToRel(<, Nat)
  BY NatLessThanWellFounded, WFMin
<1>2. ASSUME NEW j \in S PROVE i <= j
  <2>1. i \in Nat /\ j \in Nat
    OBVIOUS
  <2>2. ~ (j < i)
    BY <2>1, <1>1 DEF OpToRel
  <2> QED
    BY <2>1, <2>2
<1> QED
  BY <1>2

\* The least and the greatest of the indices of a sequence.
LEMMA Extremes ==
    ASSUME NEW n \in Nat, NEW S \in SUBSET (1 .. n), S # {}
    PROVE  /\ Min(S) \in S /\ \A j \in S : Min(S) <= j
           /\ Max(S) \in S /\ \A j \in S : Max(S) >= j
<1>1. PICK i \in S : \A j \in S : i <= j
  BY LeastNumber
<1> DEFINE R == {n - j : j \in S}
<1>2. PICK k \in R : \A j \in R : k <= j
  <2>1. R \in SUBSET Nat /\ R # {}
    OBVIOUS
  <2> QED
    BY <2>1, LeastNumber
<1>3. PICK m \in S : k = n - m
  OBVIOUS
<1>4. \A j \in S : m >= j
  <2> TAKE j \in S
  <2>1. n - j \in R /\ j \in Int /\ m \in Int
    OBVIOUS
  <2>2. n - m <= n - j
    BY <1>2, <1>3, <2>1
  <2> QED
    BY <2>1, <2>2
<1> QED
  BY <1>1, <1>4 DEF Min, Max

\* There are n numbers up to n.
LEMMA FirstNumbers ==
    ASSUME NEW n \in Nat
    PROVE  IsFiniteSet(1 .. n) /\ Cardinality(1 .. n) = n
<1>1. 1 \in Int /\ n \in Int
  OBVIOUS
<1>2. IsFiniteSet(1 .. n) /\ Cardinality(1 .. n) = IF 1 > n THEN 0 ELSE n - 1 + 1
  BY <1>1, FS_Interval
<1> QED
  BY <1>2

\* A bijection keeps the number.
LEMMA SameNumber ==
    ASSUME NEW S, NEW T, IsFiniteSet(S), NEW f \in [S -> T],
           \A x, y \in S : f[x] = f[y] => x = y,
           \A y \in T : \E x \in S : f[x] = y
    PROVE  IsFiniteSet(T) /\ Cardinality(T) = Cardinality(S)
<1>1. f \in Bijection(S, T)
  BY DEF Bijection, Injection, Surjection, IsInjective
<1> QED
  BY <1>1, FS_Bijection DEF ExistsBijection

\* A set of indices that has all those before the ones it has.
LEMMA Beginning ==
    ASSUME NEW n \in Nat, NEW S \in SUBSET (1 .. n),
           \A i \in S : 1 .. i \subseteq S
    PROVE  S = 1 .. Cardinality(S) /\ Cardinality(S) \in 0 .. n
<1>1. CASE S = 1 .. n
  BY <1>1, FirstNumbers
<1>2. CASE S # 1 .. n
  <2> DEFINE R == (1 .. n) \ S
  <2>1. PICK i \in R : \A j \in R : i <= j
    <3>1. \E k \in 1 .. n : k \notin S
      BY <1>2
    <3>2. R \in SUBSET Nat /\ R # {}
      BY <3>1
    <3> QED
      BY <3>2, LeastNumber
  <2>2. \A j \in 1 .. i - 1 : j \in S
    <3> TAKE j \in 1 .. i - 1
    <3>1. j \in 1 .. n /\ ~ (i <= j)
      OBVIOUS
    <3> QED
      BY <2>1, <3>1
  <2>3. \A j \in S : j \in 1 .. i - 1
    <3> TAKE j \in S
    <3>1. ~ (i <= j)
      <4>1. i <= j => i \in 1 .. j
        OBVIOUS
      <4> QED
        BY <2>1, <4>1
    <3> QED
      BY <3>1
  <2>4. S = 1 .. i - 1
    BY <2>2, <2>3
  <2>5. i \in 1 .. n /\ i - 1 \in Nat
    OBVIOUS
  <2>6. Cardinality(1 .. i - 1) = i - 1
    BY <2>5, FirstNumbers
  <2> QED
    BY <2>4, <2>5, <2>6
<1> QED
  BY <1>1, <1>2

\* What removeIf leaves: at which indices, and that it keeps their order.
Left(list, I) == DOMAIN list \ I

Chosen(list, I) ==
    LET left == Left(list, I)
    IN  \E f \in [1 .. Cardinality(left) -> left] :
           /\ \A n \in 1 .. Cardinality(left) : RemoveIf(list, I)[n] = list[f[n]]
           /\ \A n, m \in 1 .. Cardinality(left) : n < m => f[n] < f[m]
           /\ \A k \in left : \E n \in 1 .. Cardinality(left) : f[n] = k

\* removeIf keeps the order of what it leaves.
LEMMA RemoveIfIs ==
    ASSUME NEW S, NEW list \in Seq(S), NEW I \in SUBSET DOMAIN list
    PROVE  /\ RemoveIf(list, I) \in Seq(S)
           /\ Len(RemoveIf(list, I)) = Cardinality(Left(list, I))
           /\ Chosen(list, I)
<1> DEFINE left == Left(list, I)
           c == Cardinality(left)
           To(k) == left \cap (1 .. k)
           r == [k \in left |-> Cardinality(To(k))]
<1>1. DOMAIN list = 1 .. Len(list) /\ Len(list) \in Nat /\ left \in SUBSET DOMAIN list
      /\ left \in SUBSET (1 .. Len(list)) /\ left \in SUBSET Int
  BY DEF Left
<1>a. SUFFICES
        /\ RemoveIf(list, I) \in Seq(S)
        /\ Len(RemoveIf(list, I)) = c
        /\ \E f \in [1 .. c -> left] :
              /\ \A n \in 1 .. c : RemoveIf(list, I)[n] = list[f[n]]
              /\ \A n, m \in 1 .. c : n < m => f[n] < f[m]
              /\ \A k \in left : \E n \in 1 .. c : f[n] = k
  BY DEF Chosen
<1>b. RemoveIf(list, I) =
        [n \in 1 .. c |-> list[CHOOSE k \in left : Cardinality(left \cap (1 .. k)) = n]]
  BY DEF RemoveIf, Left
<1> HIDE DEF left
<1>2. IsFiniteSet(left) /\ c \in Nat
  <2>1. IsFiniteSet(1 .. Len(list))
    BY <1>1, FirstNumbers
  <2>2. IsFiniteSet(left)
    BY <1>1, <2>1, FS_Subset
  <2> QED
    BY <2>2, FS_CardinalityType
<1>3. \A k \in left : IsFiniteSet(To(k)) /\ r[k] \in 1 .. c
  <2> TAKE k \in left
  <2>1. k \in To(k) /\ To(k) \subseteq left
    BY <1>1
  <2>2. IsFiniteSet(To(k)) /\ Cardinality(To(k)) <= c
    BY <1>2, <2>1, FS_Subset
  <2>3. Cardinality(To(k)) \in Nat /\ Cardinality(To(k)) # 0
    BY <2>1, <2>2, FS_CardinalityType, FS_EmptySet
  <2> QED
    BY <1>2, <2>2, <2>3
<1>4. \A k, l \in left : k < l => r[k] < r[l]
  <2> TAKE k, l \in left
  <2> HAVE k < l
  <2>1. To(k) \subseteq To(l) /\ l \in To(l) /\ l \notin To(k)
    BY <1>1
  <2>2. IsFiniteSet(To(l)) /\ To(k) # To(l)
    BY <1>3, <2>1
  <2>3. Cardinality(To(k)) <= Cardinality(To(l)) /\ Cardinality(To(k)) # Cardinality(To(l))
    BY <2>1, <2>2, FS_Subset
  <2>4. Cardinality(To(k)) \in Nat /\ Cardinality(To(l)) \in Nat
    BY <1>3, FS_CardinalityType
  <2> QED
    BY <2>3, <2>4
<1>5. \A n \in 1 .. c : \E k \in left : r[k] = n
  <2> HIDE DEF r
  <2>1. r \in [left -> 1 .. c]
    BY <1>3 DEF r
  <2>2. r \in Injection(left, 1 .. c)
    <3>1. \A k, l \in left : k # l => r[k] # r[l]
      <4> TAKE k, l \in left
      <4> HAVE k # l
      <4>1. k < l \/ l < k
        BY <1>1
      <4>2. r[k] \in Int /\ r[l] \in Int /\ (r[k] < r[l] \/ r[l] < r[k])
        <5>1. r[k] \in 1 .. c /\ r[l] \in 1 .. c
          BY <1>3 DEF r
        <5>2. (r[k] < r[l] \/ r[l] < r[k])
          BY <1>4, <4>1 DEF r
        <5> HIDE DEF c
        <5> QED
          BY <1>2, <5>1, <5>2
      <4> QED
        BY <4>2
    <3> QED
      BY <2>1, <3>1 DEF Injection, IsInjective
  <2>3. IsFiniteSet(1 .. c) /\ Cardinality(1 .. c) = c
    BY <1>2, FirstNumbers
  <2>4. r \in Surjection(left, 1 .. c)
    BY <2>2, <2>3, FS_Injection
  <2> QED
    BY <2>4 DEF Surjection
<1> DEFINE f == [n \in 1 .. c |-> CHOOSE k \in left : Cardinality(left \cap (1 .. k)) = n]
<1>6. \A n \in 1 .. c : f[n] \in left /\ r[f[n]] = n
  BY <1>5
<1>7. \A n, m \in 1 .. c : n < m => f[n] < f[m]
  <2> TAKE n, m \in 1 .. c
  <2> HAVE n < m
  <2>1. f[n] \in Int /\ f[m] \in Int /\ f[n] \in left /\ f[m] \in left
    <3> HIDE DEF f, r
    <3> QED
      BY <1>1, <1>6
  <2>2. ~ (f[m] < f[n])
    <3> HIDE DEF f, r
    <3>1. f[m] < f[n] => r[f[m]] < r[f[n]]
      BY <1>4, <2>1
    <3>2. r[f[m]] = m /\ r[f[n]] = n
      BY <1>6
    <3> QED
      BY <3>1, <3>2
  <2>3. f[n] # f[m]
    <3> HIDE DEF f, r
    <3> QED
      BY <1>6
  <2> HIDE DEF f
  <2> QED
    BY <2>1, <2>2, <2>3
<1>8. \A k \in left : \E n \in 1 .. c : f[n] = k
  <2> HIDE DEF f, r
  <2> TAKE k \in left
  <2>1. r[k] \in 1 .. c /\ k \in Int
    BY <1>1, <1>3 DEF r
  <2>2. f[r[k]] \in left /\ r[f[r[k]]] = r[k] /\ f[r[k]] \in Int
    BY <1>1, <1>6, <2>1
  <2>3. f[r[k]] = k
    BY <1>4, <1>3, <2>1, <2>2
  <2> QED
    BY <2>1, <2>3
<1>9. RemoveIf(list, I) = [n \in 1 .. c |-> list[f[n]]]
  BY <1>b
<1>10. /\ RemoveIf(list, I) \in Seq(S) /\ Len(RemoveIf(list, I)) = c
       /\ \A n \in 1 .. c : RemoveIf(list, I)[n] = list[f[n]]
  <2> HIDE DEF f, c
  <2>1. \A n \in 1 .. c : list[f[n]] \in S
    <3>1. \A k \in DOMAIN list : list[k] \in S
      OBVIOUS
    <3>2. \A n \in 1 .. c : f[n] \in left
      BY <1>6 DEF f, c
    <3> QED
      BY <1>1, <3>1, <3>2
  <2> QED
    BY <1>2, <1>9, <2>1
<1>11. f \in [1 .. c -> left]
  BY <1>6
<1> QED
  <2> HIDE DEF f
  <2> QED
    BY <1>7, <1>8, <1>10, <1>11

\* How many elements of a list are from a.
From(list, a) == {i \in DOMAIN list : list[i].srcAddr = a}
CountIn(list, a) == Cardinality(From(list, a))

\* It is a number.
LEMMA CountType ==
    ASSUME NEW S, NEW list \in Seq(S), NEW a
    PROVE  IsFiniteSet(From(list, a)) /\ CountIn(list, a) \in Nat
<1>1. IsFiniteSet(1 .. Len(list)) /\ From(list, a) \subseteq 1 .. Len(list)
  <2>1. Len(list) \in Nat /\ From(list, a) \subseteq 1 .. Len(list)
    BY DEF From
  <2> QED
    BY <2>1, FirstNumbers
<1> QED
  BY <1>1, FS_Subset, FS_CardinalityType DEF CountIn

\* One more at the end,
LEMMA CountAppend ==
    ASSUME NEW S, NEW list \in Seq(S), NEW e \in S, NEW a
    PROVE  CountIn(Append(list, e), a) = CountIn(list, a) + IF e.srcAddr = a THEN 1 ELSE 0
<1>1. Len(list) \in Nat /\ DOMAIN list = 1 .. Len(list)
      /\ DOMAIN Append(list, e) = 1 .. Len(list) + 1
  OBVIOUS
<1>2. \A i \in 1 .. Len(list) + 1 :
         Append(list, e)[i] = IF i = Len(list) + 1 THEN e ELSE list[i]
  OBVIOUS
<1>3. From(Append(list, e), a) =
         From(list, a) \cup (IF e.srcAddr = a THEN {Len(list) + 1} ELSE {})
  BY <1>1, <1>2 DEF From
<1>4. Len(list) + 1 \notin From(list, a)
  BY <1>1 DEF From
<1>5. IsFiniteSet(From(list, a)) /\ CountIn(list, a) \in Nat
  BY CountType
<1>6. CASE e.srcAddr = a
  BY <1>3, <1>4, <1>5, <1>6, FS_AddElement DEF CountIn
<1>7. CASE e.srcAddr # a
  <2>1. From(Append(list, e), a) = From(list, a)
    BY <1>3, <1>7
  <2> QED
    BY <1>5, <1>7, <2>1 DEF CountIn
<1> QED
  BY <1>6, <1>7

\* What is left of a list without its first elements.
LEMMA RestIs ==
    ASSUME NEW S, NEW list \in Seq(S), NEW n \in 0 .. Len(list)
    PROVE  /\ SubSeq(list, n + 1, Len(list)) \in Seq(S)
           /\ Len(SubSeq(list, n + 1, Len(list))) = Len(list) - n
           /\ \A i \in 1 .. Len(list) - n : SubSeq(list, n + 1, Len(list))[i] = list[i + n]
<1> DEFINE rest == SubSeq(list, n + 1, Len(list))
<1>1. Len(list) \in Nat /\ DOMAIN list = 1 .. Len(list) /\ n \in Nat /\ n <= Len(list)
  OBVIOUS
<1>2. \A i \in n + 1 .. Len(list) : list[i] \in S
  BY <1>1
<1>3. /\ rest \in Seq(S)
      /\ Len(rest) = IF n + 1 <= Len(list) THEN Len(list) - (n + 1) + 1 ELSE 0
      /\ \A i \in 1 .. Len(list) - (n + 1) + 1 : rest[i] = list[(n + 1) + i - 1]
  <2>1. n + 1 \in Int /\ Len(list) \in Int
    BY <1>1
  <2> QED
    BY <1>2, <2>1, SubSeqProperties
<1> HIDE DEF rest
<1>0. Len(list) \in Nat /\ n \in Nat /\ n <= Len(list)
  BY <1>1
<1>4. Len(rest) = Len(list) - n
  <2>1. n + 1 <= Len(list) \/ n = Len(list)
    BY <1>0
  <2> QED
    BY <1>0, <1>3, <2>1
<1>5. ASSUME NEW i \in 1 .. Len(list) - n
      PROVE  rest[i] = list[i + n]
  <2>1. i \in 1 .. Len(list) - (n + 1) + 1 /\ (n + 1) + i - 1 = i + n
    BY <1>1
  <2>2. rest[i] = list[(n + 1) + i - 1]
    BY <1>3, <2>1
  <2> QED
    BY <2>1, <2>2
<1> QED
  BY <1>3, <1>4, <1>5 DEF rest

\* some less in front,
LEMMA CountSub ==
    ASSUME NEW S, NEW list \in Seq(S), NEW n \in 0 .. Len(list), NEW a
    PROVE  CountIn(list, a) = Cardinality(From(list, a) \cap (1 .. n))
                                + CountIn(SubSeq(list, n + 1, Len(list)), a)
<1> DEFINE rest == SubSeq(list, n + 1, Len(list))
           front == From(list, a) \cap (1 .. n)
           back == From(list, a) \ (1 .. n)
<1>1. Len(list) \in Nat /\ DOMAIN list = 1 .. Len(list) /\ n \in Nat /\ n <= Len(list)
  OBVIOUS
<1>2. rest \in Seq(S) /\ DOMAIN rest = 1 .. Len(list) - n
      /\ \A i \in 1 .. Len(list) - n : rest[i] = list[i + n]
  BY <1>1, RestIs
<1> HIDE DEF rest
<1>3. IsFiniteSet(From(list, a)) /\ IsFiniteSet(From(rest, a))
  BY <1>2, CountType
<1>4. Cardinality(From(list, a)) = Cardinality(front) + Cardinality(back)
  <2>1. IsFiniteSet(front) /\ IsFiniteSet(back) /\ front \cap back = {}
        /\ From(list, a) = front \cup back
    BY <1>3, FS_Subset
  <2>2. /\ Cardinality(front) \in Nat /\ Cardinality(back) \in Nat
        /\ Cardinality(front \cap back) = 0
    BY <2>1, FS_CardinalityType, FS_EmptySet
  <2> HIDE DEF front, back
  <2>3. Cardinality(front \cup back) =
           Cardinality(front) + Cardinality(back) - Cardinality(front \cap back)
    BY <2>1, FS_Union
  <2> QED
    BY <2>1, <2>2, <2>3
<1>5. Cardinality(back) = Cardinality(From(rest, a))
  <2> DEFINE f == [i \in From(rest, a) |-> i + n]
  <2>1. \A i \in From(rest, a) : i \in Nat /\ i + n \in back
    BY <1>1, <1>2 DEF From
  <2>2. \A j \in back : j - n \in From(rest, a) /\ (j - n) + n = j
    <3> TAKE j \in back
    <3>1. j \in 1 .. Len(list) /\ ~ (j \in 1 .. n) /\ list[j].srcAddr = a
      BY <1>1 DEF From
    <3>2. j - n \in 1 .. Len(list) - n /\ (j - n) + n = j
      BY <1>1, <3>1
    <3> QED
      BY <1>2, <3>1, <3>2 DEF From
  <2>3. f \in [From(rest, a) -> back]
    BY <2>1
  <2>4. \A x, y \in From(rest, a) : f[x] = f[y] => x = y
    BY <1>1, <2>1
  <2>5. \A y \in back : \E x \in From(rest, a) : f[x] = y
    BY <2>2
  <2> HIDE DEF f, back
  <2> QED
    BY <1>3, <2>3, <2>4, <2>5, SameNumber
<1> QED
  BY <1>4, <1>5 DEF CountIn, rest

\* the first less,
LEMMA CountTail ==
    ASSUME NEW S, NEW list \in Seq(S), list # <<>>, NEW a
    PROVE  CountIn(list, a) = CountIn(Tail(list), a) + IF Head(list).srcAddr = a THEN 1 ELSE 0
<1>1. Len(list) \in Nat /\ Len(list) > 0 /\ DOMAIN list = 1 .. Len(list)
  OBVIOUS
<1>2. Tail(list) = SubSeq(list, 1 + 1, Len(list)) /\ Head(list) = list[1]
  BY TailIsSubSeq
<1>3. CountIn(list, a) = Cardinality(From(list, a) \cap (1 .. 1)) + CountIn(Tail(list), a)
  <2>1. 1 \in 0 .. Len(list)
    BY <1>1
  <2> QED
    BY <1>2, <2>1, CountSub
<1>4. From(list, a) \cap (1 .. 1) = IF Head(list).srcAddr = a THEN {1} ELSE {}
  BY <1>1, <1>2 DEF From
<1>5. Cardinality(From(list, a) \cap (1 .. 1)) = IF Head(list).srcAddr = a THEN 1 ELSE 0
  BY <1>4, FS_EmptySet, FS_Singleton
<1>6. CountIn(Tail(list), a) \in Nat
  <2>1. Tail(list) \in Seq(S)
    BY HeadTailProperties
  <2> QED
    BY <2>1, CountType
<1> QED
  BY <1>3, <1>5, <1>6

\* or all those of one source less.
LEMMA CountRemoveIf ==
    ASSUME NEW S, NEW list \in Seq(S), NEW a, NEW b
    PROVE  CountIn(RemoveIf(list, From(list, a)), b) = IF b = a THEN 0 ELSE CountIn(list, b)
<1> DEFINE I == From(list, a)
           left == Left(list, I)
           c == Cardinality(left)
           rest == RemoveIf(list, I)
<1>1. I \in SUBSET DOMAIN list
  BY DEF From
<1>2. PICK f \in [1 .. c -> left] :
         /\ \A n \in 1 .. c : rest[n] = list[f[n]]
         /\ \A n, m \in 1 .. c : n < m => f[n] < f[m]
         /\ \A k \in left : \E n \in 1 .. c : f[n] = k
  <2>1. Chosen(list, I)
    BY <1>1, RemoveIfIs
  <2> QED
    BY <2>1 DEF Chosen
<1>3. rest \in Seq(S) /\ DOMAIN rest = 1 .. c /\ DOMAIN list = 1 .. Len(list) /\ c \in Int
  <2>1. rest \in Seq(S) /\ Len(rest) = c
    BY <1>1, RemoveIfIs
  <2> HIDE DEF rest, c
  <2> QED
    BY <2>1
<1>4. \A n \in 1 .. c : rest[n] = list[f[n]] /\ f[n] \in DOMAIN list /\ list[f[n]].srcAddr # a
  BY <1>2 DEF From, Left
<1> HIDE DEF rest, c
<1>5. CASE b = a
  <2>1. From(rest, b) = {}
    BY <1>3, <1>4, <1>5 DEF From
  <2> QED
    BY <1>5, <2>1, FS_EmptySet DEF CountIn, rest
<1>6. CASE b # a
  <2>1. IsFiniteSet(From(rest, b))
    BY <1>3, CountType
  <2> DEFINE g == [n \in From(rest, b) |-> f[n]]
  <2>2. g \in [From(rest, b) -> From(list, b)]
    BY <1>3, <1>4 DEF From
  <2>3. \A n, m \in From(rest, b) : g[n] = g[m] => n = m
    <3> TAKE n, m \in From(rest, b)
    <3>1. n \in 1 .. c /\ m \in 1 .. c
      BY <1>3 DEF From
    <3>2. f[n] \in Int /\ f[m] \in Int
      BY <1>3, <1>4, <3>1
    <3>3. n # m => f[n] # f[m]
      BY <1>2, <1>3, <3>1, <3>2
    <3> QED
      BY <3>3
  <2>4. \A k \in From(list, b) : \E n \in From(rest, b) : g[n] = k
    <3> TAKE k \in From(list, b)
    <3>1. k \in left
      BY <1>6 DEF From, Left
    <3>2. PICK n \in 1 .. c : f[n] = k
      BY <1>2, <3>1
    <3>3. n \in From(rest, b)
      BY <1>3, <1>4, <3>2 DEF From
    <3> QED
      BY <3>2, <3>3
  <2> HIDE DEF g
  <2>5. Cardinality(From(list, b)) = Cardinality(From(rest, b))
    BY <2>1, <2>2, <2>3, <2>4, SameNumber
  <2> QED
    BY <1>6, <2>5 DEF CountIn, rest
<1> QED
  BY <1>5, <1>6

-----------------------------------------------------------------------------
(* Sums of numbers of packets *)

\* As many pairs as the numbers of the intrusions add up to.
Pile(S) == {p \in S \X Nat : p[2] \in 1 .. p[1].n}

\* One intrusion more adds its number to the pile.
LEMMA PileAdd ==
    ASSUME NEW S, NEW x, x \notin S, IsFiniteSet(Pile(S)), x.n \in Nat
    PROVE  /\ IsFiniteSet(Pile(S \cup {x}))
           /\ Cardinality(Pile(S \cup {x})) = x.n + Cardinality(Pile(S))
<1> DEFINE new == {x} \X (1 .. x.n)
<1>1. Pile(S \cup {x}) = Pile(S) \cup new /\ Pile(S) \cap new = {}
  BY DEF Pile
<1>2. IsFiniteSet(1 .. x.n) /\ Cardinality(1 .. x.n) = x.n
  BY FirstNumbers
<1>3. IsFiniteSet(new) /\ Cardinality(new) = x.n
  <2>1. IsFiniteSet({x}) /\ Cardinality({x}) = 1
    BY FS_Singleton
  <2>2. IsFiniteSet(new) /\ Cardinality(new) = Cardinality({x}) * Cardinality(1 .. x.n)
    BY <1>2, <2>1, FS_Product
  <2> HIDE DEF new
  <2> QED
    BY <1>2, <2>1, <2>2
<1>4. Cardinality(Pile(S)) \in Nat /\ Cardinality(Pile(S) \cap new) = 0
  BY <1>1, FS_CardinalityType, FS_EmptySet
<1> HIDE DEF new
<1>5. /\ IsFiniteSet(Pile(S) \cup new)
      /\ Cardinality(Pile(S) \cup new) =
            Cardinality(Pile(S)) + Cardinality(new) - Cardinality(Pile(S) \cap new)
  BY <1>3, FS_Union
<1>6. Cardinality(Pile(S) \cup new) = x.n + Cardinality(Pile(S))
  BY <1>3, <1>4, <1>5
<1> QED
  BY <1>1, <1>5, <1>6

\* Some subset of a set is the least that something is said of.
LEMMA LeastSubset ==
    ASSUME NEW S, IsFiniteSet(S), NEW T \in SUBSET SUBSET S, T # {}
    PROVE  \E x \in T : \A y \in T : y \subseteq x => y = x
<1>1. IsWellFoundedOn(StrictSubsetOrdering(S), FiniteSubsetsOf(S))
  BY FS_StrictSubsetOrderingWellFounded
<1>2. T \subseteq FiniteSubsetsOf(S)
  BY FS_Subset DEF FiniteSubsetsOf
<1>3. \E x \in T : \A y \in T : ~ (<<y, x>> \in StrictSubsetOrdering(S))
  BY <1>1, <1>2, WFMin, Zenon
<1> QED
  BY <1>3 DEF StrictSubsetOrdering

\* The pile of a finite set is finite: else take a least subset whose pile is not.
LEMMA PileFinite ==
    ASSUME NEW S, IsFiniteSet(S), \A x \in S : x.n \in Nat
    PROVE  IsFiniteSet(Pile(S)) /\ Cardinality(Pile(S)) \in Nat
<1> DEFINE T == {s \in SUBSET S : ~ IsFiniteSet(Pile(s))}
<1>1. SUFFICES ASSUME T # {} PROVE FALSE
  <2>1. T = {} => S \notin T
    OBVIOUS
  <2> QED
    BY <2>1, FS_CardinalityType
<1>2. PICK s \in T : \A y \in T : y \subseteq s => y = s
  <2>1. T \in SUBSET SUBSET S
    OBVIOUS
  <2> HIDE DEF T
  <2> QED
    BY <1>1, <2>1, LeastSubset
<1>3. s # {}
  <2>1. Pile({}) = {}
    BY DEF Pile
  <2> QED
    BY <1>2, <2>1, FS_EmptySet
<1>4. PICK x \in s : TRUE
  BY <1>3
<1>5. IsFiniteSet(Pile(s \ {x})) /\ x.n \in Nat
  BY <1>2
<1>6. (s \ {x}) \cup {x} = s
  OBVIOUS
<1> QED
  BY <1>2, <1>5, <1>6, PileAdd

\* The sum CountOf folds up is the number in the pile: a least subset for which it
\* is not has an element CHOOSE takes, and without that the two are equal.
LEMMA CountOfIs ==
    ASSUME NEW S, IsFiniteSet(S), \A x \in S : x.n \in Nat
    PROVE  CountOf(S) = Cardinality(Pile(S))
<1> DEFINE Eq(f) == f = [s \in SUBSET S |->
                          IF s = {} THEN 0
                          ELSE (CHOOSE x \in s : TRUE).n + f[s \ {CHOOSE x \in s : TRUE}]]
           iter == CHOOSE f : Eq(f)
           sums == [s \in SUBSET S |-> Cardinality(Pile(s))]
<1>1. CountOf(S) = iter[S]
  BY DEF CountOf, FoldSet, MapThenFoldSet
<1>2. Cardinality(Pile({})) = 0
  <2>1. Pile({}) = {}
    BY DEF Pile
  <2> QED
    BY <2>1, FS_EmptySet
<1>3. ASSUME NEW s \in SUBSET S, s # {}
      PROVE  /\ s \ {CHOOSE x \in s : TRUE} \in SUBSET S
             /\ s \ {CHOOSE x \in s : TRUE} # s
             /\ Cardinality(Pile(s)) = (CHOOSE x \in s : TRUE).n
                                         + Cardinality(Pile(s \ {CHOOSE x \in s : TRUE}))
  <2> DEFINE x == CHOOSE x \in s : TRUE
             r == s \ {x}
  <2>1. x \in s
    BY <1>3
  <2> HIDE DEF x
  <2>2. r \in SUBSET S /\ r \cup {x} = s /\ x \notin r /\ r # s
    BY <2>1
  <2>3. IsFiniteSet(r) /\ \A y \in r : y.n \in Nat
    BY <2>2, FS_Subset
  <2>4. x.n \in Nat /\ IsFiniteSet(Pile(r))
    <3> HIDE DEF r
    <3> QED
      BY <2>1, <2>3, PileFinite
  <2> HIDE DEF r
  <2>5. Cardinality(Pile(s)) = x.n + Cardinality(Pile(r))
    BY <2>2, <2>4, PileAdd
  <2> QED
    BY <2>2, <2>5 DEF r, x
<1>4. Eq(sums)
  BY <1>2, <1>3
<1>5. Eq(iter)
  <2> HIDE DEF sums, Eq
  <2> QED
    BY <1>4
<1> HIDE DEF iter
<1>6. \A s \in SUBSET S : iter[s] = Cardinality(Pile(s))
  <2> DEFINE T == {s \in SUBSET S : iter[s] # Cardinality(Pile(s))}
  <2>1. SUFFICES ASSUME T # {} PROVE FALSE
    OBVIOUS
  <2>2. PICK s \in T : \A y \in T : y \subseteq s => y = s
    <3>1. T \in SUBSET SUBSET S
      OBVIOUS
    <3> HIDE DEF T
    <3> QED
      BY <2>1, <3>1, LeastSubset
  <2>3. s \in SUBSET S /\ iter[s] # Cardinality(Pile(s))
    OBVIOUS
  <2>4. s # {} /\ iter[s] = (CHOOSE x \in s : TRUE).n + iter[s \ {CHOOSE x \in s : TRUE}]
    <3>1. iter[s] = IF s = {} THEN 0
                    ELSE (CHOOSE x \in s : TRUE).n + iter[s \ {CHOOSE x \in s : TRUE}]
      BY <1>5, <2>3
    <3> QED
      BY <1>2, <2>3, <3>1
  <2>5. s \ {CHOOSE x \in s : TRUE} \notin T
    BY <1>3, <2>2, <2>3, <2>4
  <2> QED
    BY <1>3, <2>3, <2>4, <2>5
<1>7. S \in SUBSET S
  OBVIOUS
<1> QED
  BY <1>1, <1>6, <1>7

\* The sum of nothing,
LEMMA CountOfEmpty == CountOf({}) = 0
<1>1. Pile({}) = {}
  BY DEF Pile
<1> QED
  BY <1>1, CountOfIs, FS_EmptySet

\* of one more,
LEMMA CountOfAdd ==
    ASSUME NEW S, IsFiniteSet(S), \A y \in S : y.n \in Nat, NEW x, x \notin S, x.n \in Nat
    PROVE  CountOf(S) \in Nat /\ CountOf(S \cup {x}) = x.n + CountOf(S)
<1>1. IsFiniteSet(Pile(S)) /\ Cardinality(Pile(S)) \in Nat
  BY PileFinite
<1>2. IsFiniteSet(S \cup {x}) /\ \A y \in S \cup {x} : y.n \in Nat
  BY FS_AddElement
<1>3. CountOf(S \cup {x}) = Cardinality(Pile(S \cup {x}))
  BY <1>2, CountOfIs
<1> QED
  BY <1>1, <1>3, CountOfIs, PileAdd

\* and of one.
LEMMA CountOfOne ==
    ASSUME NEW x, x.n \in Nat
    PROVE  CountOf({x}) = x.n
<1>1. CountOf({} \cup {x}) = x.n + CountOf({})
  BY CountOfAdd, FS_EmptySet
<1>2. {} \cup {x} = {x}
  OBVIOUS
<1> QED
  BY <1>1, <1>2, CountOfEmpty

-----------------------------------------------------------------------------
(* What the table says when the queue is empty *)

\* The tables while the statements of q are executed.
Run(T, table, q) ==
    /\ T = [k \in 0 .. Len(q) |-> T[k]]
    /\ T[0] = table
    /\ \A k \in 1 .. Len(q) : T[k] = Executed(T[k - 1], q[k])

\* The table after the statements of q.
Fold(table, q) == FoldLeft(Executed, table, q)

\* The greatest of the indices up to one more.
LEMMA GreatestIs ==
    ASSUME NEW n \in Nat, NEW s \in SUBSET (1 .. n + 1), s # {}
    PROVE  Max(s) \in s /\ (n + 1 \in s => Max(s) = n + 1)
<1>1. Max(s) \in s /\ \A j \in s : Max(s) >= j
  <2>1. n + 1 \in Nat
    OBVIOUS
  <2> QED
    BY <2>1, Extremes
<1>2. Max(s) \in 1 .. n + 1
  BY <1>1
<1> QED
  BY <1>1, <1>2

\* FoldLeft ends with the last table of a run.
LEMMA FoldIs ==
    ASSUME NEW S, NEW q \in Seq(S), NEW table
    PROVE  \E T : Run(T, table, q) /\ Fold(table, q) = T[Len(q)]
<1> DEFINE Eq(n, f) == f = [s \in SUBSET (1 .. n) |->
                              IF s = {} THEN table
                              ELSE Executed(f[s \ {Max(s)}], q[Max(s)])]
           iter == CHOOSE f : Eq(Len(q), f)
<1>1. Fold(table, q) = iter[1 .. Len(q)]
  <2>1. DOMAIN q = 1 .. Len(q)
    OBVIOUS
  <2> QED
    BY <2>1 DEF Fold, FoldLeft, MapThenFoldSet
<1>2. \E f : Eq(0, f)
  <2> DEFINE f == [s \in SUBSET (1 .. 0) |-> table]
  <2>1. \A s \in SUBSET (1 .. 0) : s = {}
    OBVIOUS
  <2>2. Eq(0, f)
    BY <2>1
  <2> QED
    BY <2>2
<1>3. ASSUME NEW n \in Nat, NEW f, Eq(n, f)
      PROVE  \E g : Eq(n + 1, g)
  <2> DEFINE g == [s \in SUBSET (1 .. n + 1) |->
                     IF n + 1 \in s THEN Executed(f[s \ {n + 1}], q[n + 1]) ELSE f[s]]
  <2>1. ASSUME NEW s \in SUBSET (1 .. n + 1), s # {}
        PROVE  g[s] = Executed(g[s \ {Max(s)}], q[Max(s)])
    <3>1. Max(s) \in s /\ (n + 1 \in s => Max(s) = n + 1)
      BY <2>1, GreatestIs
    <3>2. s \ {Max(s)} \in SUBSET (1 .. n + 1)
      OBVIOUS
    <3>3. CASE n + 1 \in s
      <4>1. s \ {n + 1} \in SUBSET (1 .. n + 1) /\ n + 1 \notin s \ {n + 1}
        OBVIOUS
      <4>2. g[s \ {n + 1}] = f[s \ {n + 1}]
        BY <4>1
      <4>3. g[s] = Executed(f[s \ {n + 1}], q[n + 1])
        BY <3>3
      <4> HIDE DEF g
      <4> QED
        BY <3>1, <3>3, <4>2, <4>3
    <3>4. CASE n + 1 \notin s
      <4>1. s \in SUBSET (1 .. n) /\ n + 1 \notin s \ {Max(s)}
        BY <3>4
      <4>2. g[s] = f[s] /\ g[s \ {Max(s)}] = f[s \ {Max(s)}]
        BY <3>2, <3>4, <4>1
      <4>3. f[s] = Executed(f[s \ {Max(s)}], q[Max(s)])
        <5>1. f[s] = IF s = {} THEN table ELSE Executed(f[s \ {Max(s)}], q[Max(s)])
          BY <1>3, <4>1
        <5> QED
          BY <2>1, <5>1
      <4> HIDE DEF g
      <4> QED
        BY <4>2, <4>3
    <3> QED
      BY <3>3, <3>4
  <2>2. g[{}] = table
    <3>1. {} \in SUBSET (1 .. n) /\ {} \in SUBSET (1 .. n + 1)
      OBVIOUS
    <3>2. f[{}] = table
      BY <1>3, <3>1
    <3> QED
      BY <3>1, <3>2
  <2>3. g = [s \in SUBSET (1 .. n + 1) |-> g[s]]
    OBVIOUS
  <2>4. Eq(n + 1, g)
    <3> HIDE DEF g
    <3> QED
      BY <2>1, <2>2, <2>3
  <2> QED
    BY <2>4
<1>4. \A n \in Nat : \E f : Eq(n, f)
  <2> DEFINE T == {n \in Nat : ~ \E f : Eq(n, f)}
  <2>1. SUFFICES ASSUME T # {} PROVE FALSE
    OBVIOUS
  <2>2. PICK n \in T : \A m \in T : n <= m
    <3>1. T \in SUBSET Nat
      OBVIOUS
    <3> HIDE DEF T
    <3> QED
      BY <2>1, <3>1, LeastNumber
  <2> HIDE DEF Eq
  <2>3. n \in Nat /\ n # 0 /\ ~ \E f : Eq(n, f)
    BY <1>2
  <2>4. n - 1 \in Nat /\ n - 1 \notin T /\ (n - 1) + 1 = n
    BY <2>2, <2>3
  <2>5. \E f : Eq(n - 1, f)
    BY <2>4
  <2> QED
    BY <1>3, <2>3, <2>4, <2>5
<1>5. Eq(Len(q), iter)
  <2>1. Len(q) \in Nat
    OBVIOUS
  <2> HIDE DEF Eq
  <2> QED
    BY <1>4, <2>1
<1> HIDE DEF iter
<1> DEFINE T == [k \in 0 .. Len(q) |-> iter[1 .. k]]
<1>6. T[0] = table
  <2>1. 1 .. 0 = {} /\ 1 .. 0 \in SUBSET (1 .. Len(q)) /\ 0 \in 0 .. Len(q)
    OBVIOUS
  <2>2. iter[1 .. 0] = table
    BY <1>5, <2>1
  <2> QED
    BY <2>1, <2>2
<1>7. ASSUME NEW k \in 1 .. Len(q)
      PROVE  T[k] = Executed(T[k - 1], q[k])
  <2>0. Len(q) \in Nat /\ k \in Nat /\ 1 <= k /\ k <= Len(q)
    OBVIOUS
  <2>a. 1 .. k \in SUBSET (1 .. Len(q)) /\ 1 .. k # {}
    <3>1. k \in 1 .. k
      BY <2>0
    <3>2. \A i \in 1 .. k : i \in 1 .. Len(q)
      BY <2>0
    <3> QED
      BY <3>1, <3>2
  <2>1. /\ 1 .. k \in SUBSET (1 .. Len(q)) /\ 1 .. k # {} /\ k - 1 \in Nat
        /\ k \in 0 .. Len(q) /\ k - 1 \in 0 .. Len(q) /\ (k - 1) + 1 = k
    BY <2>0, <2>a
  <2>2. Max(1 .. k) = k
    <3>1. k \in 1 .. k
      OBVIOUS
    <3> QED
      BY <2>1, <3>1, GreatestIs
  <2>3. (1 .. k) \ {k} = 1 .. k - 1
    OBVIOUS
  <2>4. iter[1 .. k] = Executed(iter[(1 .. k) \ {Max(1 .. k)}], q[Max(1 .. k)])
    <3>1. iter[1 .. k] = IF 1 .. k = {} THEN table
                         ELSE Executed(iter[(1 .. k) \ {Max(1 .. k)}], q[Max(1 .. k)])
      BY <1>5, <2>1
    <3> QED
      BY <2>1, <3>1
  <2>5. iter[1 .. k] = Executed(iter[1 .. k - 1], q[k])
    BY <2>2, <2>3, <2>4
  <2> QED
    BY <2>1, <2>5
<1>8. Len(q) \in 0 .. Len(q)
  OBVIOUS
<1>9. Run(T, table, q) /\ Fold(table, q) = T[Len(q)]
  <2>1. T[Len(q)] = iter[1 .. Len(q)]
    BY <1>8
  <2>2. T = [k \in 0 .. Len(q) |-> T[k]]
    OBVIOUS
  <2> HIDE DEF T
  <2> QED
    BY <1>1, <1>6, <1>7, <2>1, <2>2 DEF Run
<1> QED
  BY <1>9

\* There is one such run.
LEMMA RunUnique ==
    ASSUME NEW S, NEW q \in Seq(S), NEW table, NEW T, NEW U,
           Run(T, table, q), Run(U, table, q)
    PROVE  T = U
<1> DEFINE D == {k \in 0 .. Len(q) : T[k] # U[k]}
<1>1. D = {}
  <2>1. SUFFICES ASSUME D # {} PROVE FALSE
    OBVIOUS
  <2>2. PICK k \in D : \A m \in D : k <= m
    <3>1. D \in SUBSET Nat
      OBVIOUS
    <3> HIDE DEF D
    <3> QED
      BY <2>1, <3>1, LeastNumber
  <2>3. k \in 0 .. Len(q) /\ k # 0 /\ T[k] # U[k] /\ Len(q) \in Nat
    BY DEF Run
  <2>4. k \in 1 .. Len(q) /\ k - 1 \in 0 .. Len(q) /\ ~ (k <= k - 1)
    BY <2>3
  <2>5. T[k - 1] = U[k - 1]
    BY <2>2, <2>4
  <2> QED
    BY <2>3, <2>4, <2>5 DEF Run
<1>2. \A k \in 0 .. Len(q) : T[k] = U[k]
  BY <1>1
<1> QED
  BY <1>2 DEF Run

\* A run may be used in the place of FoldLeft.
LEMMA FoldOfRun ==
    ASSUME NEW S, NEW q \in Seq(S), NEW table, NEW T, Run(T, table, q)
    PROVE  Fold(table, q) = T[Len(q)]
<1>1. PICK U : Run(U, table, q) /\ Fold(table, q) = U[Len(q)]
  BY FoldIs
<1>2. U = T
  BY <1>1, RunUnique
<1> QED
  BY <1>1, <1>2

\* One statement more at the end is executed last,
LEMMA FoldAppend ==
    ASSUME NEW S, NEW q \in Seq(S), NEW s \in S, NEW table
    PROVE  Fold(table, Append(q, s)) = Executed(Fold(table, q), s)
<1>1. PICK T : Run(T, table, q) /\ Fold(table, q) = T[Len(q)]
  BY FoldIs
<1> DEFINE n == Len(q)
           U == [k \in 0 .. n + 1 |-> IF k = n + 1 THEN Executed(T[n], s) ELSE T[k]]
<1>2. n \in Nat /\ Len(Append(q, s)) = n + 1 /\ Append(q, s) \in Seq(S)
  OBVIOUS
<1>3. Run(U, table, Append(q, s))
  <2>1. U[0] = table
    BY <1>1, <1>2 DEF Run
  <2>2. ASSUME NEW k \in 1 .. n + 1 PROVE U[k] = Executed(U[k - 1], Append(q, s)[k])
    <3>1. CASE k = n + 1
      <4>1. U[k] = Executed(T[n], s) /\ Append(q, s)[k] = s
        BY <1>2, <3>1
      <4>2. U[k - 1] = T[n]
        BY <1>2, <3>1
      <4> QED
        BY <4>1, <4>2
    <3>2. CASE k # n + 1
      <4>1. k \in 1 .. n /\ k - 1 \in 0 .. n /\ k - 1 # n + 1
        BY <1>2, <3>2
      <4>2. U[k] = T[k] /\ U[k - 1] = T[k - 1] /\ Append(q, s)[k] = q[k]
        BY <1>2, <4>1
      <4> QED
        BY <1>1, <4>1, <4>2 DEF Run
    <3> QED
      BY <3>1, <3>2
  <2>3. U = [k \in 0 .. n + 1 |-> U[k]]
    OBVIOUS
  <2> HIDE DEF U
  <2> QED
    BY <1>2, <2>1, <2>2, <2>3 DEF Run
<1>4. U[n + 1] = Executed(T[n], s)
  BY <1>2
<1> HIDE DEF U
<1>5. Fold(table, Append(q, s)) = U[n + 1]
  BY <1>2, <1>3, FoldOfRun
<1> QED
  BY <1>1, <1>4, <1>5

\* and the first may as well be executed before.
LEMMA FoldTail ==
    ASSUME NEW S, NEW q \in Seq(S), q # <<>>, NEW table
    PROVE  Fold(Executed(table, Head(q)), Tail(q)) = Fold(table, q)
<1>1. PICK T : Run(T, table, q) /\ Fold(table, q) = T[Len(q)]
  BY FoldIs
<1> DEFINE n == Len(q)
           U == [k \in 0 .. n - 1 |-> T[k + 1]]
<1>2. n \in Nat /\ n > 0 /\ Len(Tail(q)) = n - 1 /\ Tail(q) \in Seq(S)
      /\ Head(q) = q[1] /\ \A k \in 1 .. n - 1 : Tail(q)[k] = q[k + 1]
  BY HeadTailProperties
<1>3. Run(U, Executed(table, Head(q)), Tail(q))
  <2>1. U[0] = Executed(table, Head(q))
    <3>1. U[0] = T[1] /\ 1 \in 1 .. n /\ 1 - 1 = 0
      BY <1>2
    <3> QED
      BY <1>1, <1>2, <3>1 DEF Run
  <2>2. ASSUME NEW k \in 1 .. n - 1 PROVE U[k] = Executed(U[k - 1], Tail(q)[k])
    <3>1. k + 1 \in 1 .. n /\ (k + 1) - 1 = k /\ (k - 1) + 1 = k
      BY <1>2
    <3>2. U[k] = T[k + 1] /\ U[k - 1] = T[k]
      BY <1>2, <3>1
    <3>3. T[k + 1] = Executed(T[k], q[k + 1])
      BY <1>1, <3>1 DEF Run
    <3> QED
      BY <1>2, <3>2, <3>3
  <2>3. U = [k \in 0 .. n - 1 |-> U[k]]
    OBVIOUS
  <2> HIDE DEF U
  <2> QED
    BY <1>2, <2>1, <2>2, <2>3 DEF Run
<1>4. U[n - 1] = T[n]
  BY <1>2
<1> HIDE DEF U
<1>5. Fold(Executed(table, Head(q)), Tail(q)) = U[n - 1]
  BY <1>2, <1>3, FoldOfRun
<1> QED
  BY <1>1, <1>4, <1>5

-----------------------------------------------------------------------------
(* What a statement does to the entry of an intrusion *)

\* The three cases of an entry.
LEMMA EntryIs ==
    ASSUME NEW table, NEW a, NEW start
    PROVE  /\ RowsOf(table, a, start) = {} => Entry(table, a, start) = <<0, 0, 0>>
           /\ \A i : RowsOf(table, a, start) = {i} =>
                 Entry(table, a, start) = <<1, table[i].stop, table[i].n>>
           /\ (\E i, j \in RowsOf(table, a, start) : i # j) =>
                 Entry(table, a, start) = <<2, 0, 0>>
           /\ Entry(table, a, start)[1] = 1 => \E i : RowsOf(table, a, start) = {i}
<1> DEFINE I == RowsOf(table, a, start)
<1>1. I = {} => Entry(table, a, start) = <<0, 0, 0>>
  BY DEF Entry
<1>2. ASSUME NEW i, I = {i}
      PROVE  Entry(table, a, start) = <<1, table[i].stop, table[i].n>>
  <2>1. I # {} /\ (\A j, k \in I : j = k) /\ (CHOOSE j \in I : TRUE) = i
    BY <1>2
  <2> QED
    BY <2>1 DEF Entry
<1>3. (\E i, j \in I : i # j) => Entry(table, a, start) = <<2, 0, 0>>
  BY DEF Entry
<1>4. I = {} \/ (\E i, j \in I : i # j) \/ \E i : I = {i}
  OBVIOUS
<1>5. <<0, 0, 0>>[1] = 0 /\ <<2, 0, 0>>[1] = 2
  OBVIOUS
<1> HIDE DEF I
<1>6. Entry(table, a, start)[1] = 1 => \E i : I = {i}
  BY <1>1, <1>3, <1>4, <1>5
<1> QED
  BY <1>1, <1>2, <1>3, <1>6 DEF I

\* What a statement does to an entry.
Stepped(e, s, a, start) ==
    IF s.op = "CAPTURE" \/ s.srcAddr # a \/ s.start # start THEN e
    ELSE IF s.op = "INSERT" THEN (IF e[1] = 0 THEN <<1, s.stop, s.n>> ELSE <<2, 0, 0>>)
    ELSE (IF e[1] = 1 THEN <<1, s.stop, s.n>> ELSE e)

\* An INSERT adds a row,
LEMMA InsertIs ==
    ASSUME NEW table \in Seq(Row), NEW s \in Statement, s.op = "INSERT", NEW a, NEW start
    PROVE  /\ Executed(table, s) \in Seq(Row)
           /\ Entry(Executed(table, s), a, start) = Stepped(Entry(table, a, start), s, a, start)
<1> DEFINE row == [srcAddr |-> s.srcAddr, start |-> s.start, stop |-> s.stop, n |-> s.n]
           new == Append(table, row)
           n == Len(table)
           I == RowsOf(table, a, start)
           J == RowsOf(new, a, start)
<1>1. Executed(table, s) = new /\ row \in Row
  BY DEF Executed, Statement, Row
<1> HIDE DEF row
<1>2. /\ n \in Nat /\ DOMAIN table = 1 .. n /\ DOMAIN new = 1 .. n + 1 /\ new \in Seq(Row)
      /\ new[n + 1] = row /\ \A i \in 1 .. n : new[i] = table[i]
  BY <1>1
<1>3. /\ \A i \in I : i \in 1 .. n /\ new[i] = table[i]
      /\ J = I \cup (IF s.srcAddr = a /\ s.start = start THEN {n + 1} ELSE {})
      /\ n + 1 \notin I
  <2>1. row.srcAddr = s.srcAddr /\ row.start = s.start
    BY DEF row
  <2>2. \A i \in I : i \in 1 .. n /\ new[i] = table[i]
    BY <1>2 DEF RowsOf
  <2>3. J = I \cup (IF s.srcAddr = a /\ s.start = start THEN {n + 1} ELSE {})
    BY <1>2, <2>1 DEF RowsOf
  <2> QED
    BY <1>2, <2>2, <2>3
<1>4. row.stop = s.stop /\ row.n = s.n
  BY DEF row
<1>5. I = {} \/ (\E i, j \in I : i # j) \/ \E i : I = {i}
  OBVIOUS
<1>6. <<0, 0, 0>>[1] = 0 /\ <<2, 0, 0>>[1] = 2 /\ \A i : <<1, table[i].stop, table[i].n>>[1] = 1
  OBVIOUS
<1> HIDE DEF new, n, I, J
<1>7. CASE s.srcAddr = a /\ s.start = start
  <2>1. J = I \cup {n + 1}
    BY <1>3, <1>7
  <2>2. CASE I = {}
    <3>1. J = {n + 1} /\ Entry(table, a, start)[1] = 0
      BY <1>6, <2>1, <2>2, EntryIs DEF I
    <3>2. Entry(new, a, start) = <<1, s.stop, s.n>>
      BY <1>2, <1>4, <3>1, EntryIs DEF J
    <3>3. s.op # "CAPTURE"
      OBVIOUS
    <3> QED
      BY <1>1, <1>2, <1>7, <3>1, <3>2, <3>3 DEF Stepped
  <2>3. CASE I # {}
    <3>1. \E i, j \in J : i # j
      BY <1>3, <2>1, <2>3
    <3>2. Entry(new, a, start) = <<2, 0, 0>>
      BY <3>1, EntryIs DEF J
    <3>3. Entry(table, a, start)[1] # 0
      <4>1. CASE \E i, j \in I : i # j
        BY <1>6, <4>1, EntryIs DEF I
      <4>2. CASE \E i : I = {i}
        <5>1. PICK i : I = {i}
          BY <4>2
        <5>2. Entry(table, a, start) = <<1, table[i].stop, table[i].n>>
          BY <5>1, EntryIs DEF I
        <5> QED
          BY <1>6, <5>2
      <4> QED
        BY <1>5, <2>3, <4>1, <4>2
    <3>4. s.op # "CAPTURE"
      OBVIOUS
    <3> QED
      BY <1>1, <1>2, <1>7, <3>2, <3>3, <3>4 DEF Stepped
  <2> QED
    BY <2>2, <2>3
<1>8. CASE ~ (s.srcAddr = a /\ s.start = start)
  <2>1. J = I
    BY <1>3, <1>8
  <2>2. Entry(new, a, start) = Entry(table, a, start)
    <3>1. CASE I = {}
      BY <2>1, <3>1, EntryIs DEF I, J
    <3>2. CASE \E i, j \in I : i # j
      BY <2>1, <3>2, EntryIs DEF I, J
    <3>3. CASE \E i : I = {i}
      <4>1. PICK i : I = {i}
        BY <3>3
      <4>2. new[i] = table[i]
        BY <1>3, <4>1
      <4> QED
        BY <2>1, <4>1, <4>2, EntryIs DEF I, J
    <3> QED
      BY <1>5, <3>1, <3>2, <3>3
  <2> QED
    BY <1>1, <1>2, <1>8, <2>2 DEF Stepped
<1> QED
  BY <1>7, <1>8

\* an UPDATE changes the rows of its intrusion,
LEMMA UpdateIs ==
    ASSUME NEW table \in Seq(Row), NEW s \in Statement, s.op = "UPDATE", NEW a, NEW start
    PROVE  /\ Executed(table, s) \in Seq(Row)
           /\ Entry(Executed(table, s), a, start) = Stepped(Entry(table, a, start), s, a, start)
<1> DEFINE new == [i \in DOMAIN table |-> IF Matches(table[i], s)
                                          THEN [table[i] EXCEPT !.stop = s.stop, !.n = s.n]
                                          ELSE table[i]]
           n == Len(table)
           I == RowsOf(table, a, start)
           J == RowsOf(new, a, start)
<1>1. Executed(table, s) = new
  BY DEF Executed
<1>2. /\ n \in Nat /\ DOMAIN table = 1 .. n /\ DOMAIN new = 1 .. n
      /\ \A i \in 1 .. n : table[i] \in Row
  OBVIOUS
<1>3. ASSUME NEW i \in 1 .. n
      PROVE  /\ new[i] \in Row
             /\ new[i].srcAddr = table[i].srcAddr /\ new[i].start = table[i].start
             /\ table[i].srcAddr = s.srcAddr /\ table[i].start = s.start =>
                   new[i].stop = s.stop /\ new[i].n = s.n
             /\ table[i].srcAddr # s.srcAddr \/ table[i].start # s.start => new[i] = table[i]
  <2>1. new[i] = IF Matches(table[i], s) THEN [table[i] EXCEPT !.stop = s.stop, !.n = s.n]
                 ELSE table[i]
    BY <1>2
  <2>2. table[i] \in Row
    BY <1>2
  <2> HIDE DEF new
  <2>3. CASE Matches(table[i], s)
    <3>1. new[i] = [table[i] EXCEPT !.stop = s.stop, !.n = s.n]
      BY <2>1, <2>3
    <3> QED
      BY <2>2, <2>3, <3>1 DEF Matches, Row, Statement
  <2>4. CASE ~ Matches(table[i], s)
    BY <2>1, <2>2, <2>4 DEF Matches
  <2> QED
    BY <2>3, <2>4
<1>4. new \in Seq(Row)
  <2>1. new \in [1 .. n -> Row]
    BY <1>2, <1>3
  <2> HIDE DEF new, n
  <2> QED
    BY <1>2, <2>1
<1>5. J = I /\ \A i \in I : i \in 1 .. n /\ table[i].srcAddr = a /\ table[i].start = start
  <2>1. \A i \in 1 .. n : i \in J <=> i \in I
    <3> TAKE i \in 1 .. n
    <3>1. new[i].srcAddr = table[i].srcAddr /\ new[i].start = table[i].start
      BY <1>3
    <3> HIDE DEF new
    <3> QED
      BY <1>2, <3>1 DEF RowsOf
  <2>2. I \subseteq 1 .. n /\ J \subseteq 1 .. n
    BY <1>2 DEF RowsOf
  <2>3. \A i \in I : table[i].srcAddr = a /\ table[i].start = start
    BY DEF RowsOf
  <2> HIDE DEF I, J
  <2> QED
    BY <2>1, <2>2, <2>3
<1>6. I = {} \/ (\E i, j \in I : i # j) \/ \E i : I = {i}
  OBVIOUS
<1>7. <<0, 0, 0>>[1] = 0 /\ <<2, 0, 0>>[1] = 2 /\ \A i : <<1, table[i].stop, table[i].n>>[1] = 1
  OBVIOUS
<1> HIDE DEF new, n, I, J
<1>8. CASE I = {}
  <2>1. Entry(table, a, start) = <<0, 0, 0>> /\ Entry(new, a, start) = <<0, 0, 0>>
    BY <1>5, <1>8, EntryIs DEF I, J
  <2>2. Entry(table, a, start)[1] = 0
    BY <1>7, <2>1
  <2> QED
    BY <1>1, <1>4, <2>1, <2>2 DEF Stepped
<1>9. CASE \E i, j \in I : i # j
  <2>1. Entry(table, a, start) = <<2, 0, 0>> /\ Entry(new, a, start) = <<2, 0, 0>>
    BY <1>5, <1>9, EntryIs DEF I, J
  <2>2. Entry(table, a, start)[1] = 2
    BY <1>7, <2>1
  <2> QED
    BY <1>1, <1>4, <2>1, <2>2 DEF Stepped
<1>10. CASE \E i : I = {i}
  <2>1. PICK i : I = {i}
    BY <1>10
  <2>2. /\ Entry(table, a, start) = <<1, table[i].stop, table[i].n>>
        /\ Entry(new, a, start) = <<1, new[i].stop, new[i].n>>
    BY <1>5, <2>1, EntryIs DEF I, J
  <2>3. i \in 1 .. n /\ table[i].srcAddr = a /\ table[i].start = start
    BY <1>5, <2>1
  <2>4. Entry(table, a, start)[1] = 1
    BY <1>7, <2>2
  <2>5. CASE s.srcAddr = a /\ s.start = start
    <3>1. new[i].stop = s.stop /\ new[i].n = s.n
      BY <1>3, <2>3, <2>5
    <3> QED
      BY <1>1, <1>4, <2>2, <2>4, <2>5, <3>1 DEF Stepped
  <2>6. CASE s.srcAddr # a \/ s.start # start
    <3>1. new[i] = table[i]
      BY <1>3, <2>3, <2>6
    <3> QED
      BY <1>1, <1>4, <2>2, <2>6, <3>1 DEF Stepped
  <2> QED
    BY <2>5, <2>6
<1> QED
  BY <1>6, <1>8, <1>9, <1>10

\* and so an entry changes as Stepped says.
LEMMA EntryStep ==
    ASSUME NEW table \in Seq(Row), NEW s \in Statement, NEW a, NEW start
    PROVE  /\ Executed(table, s) \in Seq(Row)
           /\ Entry(Executed(table, s), a, start) = Stepped(Entry(table, a, start), s, a, start)
<1>1. s.op \in {"INSERT", "UPDATE", "CAPTURE"}
  BY DEF Statement
<1>2. CASE s.op = "CAPTURE"
  <2>1. Executed(table, s) = table
    BY <1>2 DEF Executed
  <2> QED
    BY <1>2, <2>1 DEF Stepped
<1> QED
  BY <1>1, <1>2, InsertIs, UpdateIs

\* The entries of a run follow its statements.
Steps(T, q, a, start) ==
    \A k \in 1 .. Len(q) :
        Entry(T[k], a, start) = Stepped(Entry(T[k - 1], a, start), q[k], a, start)

\* The tables of a run have rows only,
LEMMA TableType ==
    ASSUME NEW table \in Seq(Row), NEW q \in Seq(Statement), NEW T, Run(T, table, q)
    PROVE  \A k \in 0 .. Len(q) : T[k] \in Seq(Row)
<1> DEFINE D == {k \in 0 .. Len(q) : T[k] \notin Seq(Row)}
<1>1. SUFFICES ASSUME D # {} PROVE FALSE
  OBVIOUS
<1>2. PICK k \in D : \A m \in D : k <= m
  <2>1. D \in SUBSET Nat
    OBVIOUS
  <2> HIDE DEF D
  <2> QED
    BY <1>1, <2>1, LeastNumber
<1>3. k \in 0 .. Len(q) /\ k # 0 /\ T[k] \notin Seq(Row) /\ Len(q) \in Nat
  BY DEF Run
<1>4. k \in 1 .. Len(q) /\ k - 1 \in 0 .. Len(q) /\ ~ (k <= k - 1)
  BY <1>3
<1>5. T[k - 1] \in Seq(Row) /\ q[k] \in Statement
  BY <1>2, <1>4
<1>6. T[k] = Executed(T[k - 1], q[k])
  BY <1>4 DEF Run
<1> QED
  BY <1>3, <1>5, <1>6, EntryStep

\* their entries follow the statements,
LEMMA EntryRun ==
    ASSUME NEW table \in Seq(Row), NEW q \in Seq(Statement), NEW T, Run(T, table, q),
           NEW a, NEW start
    PROVE  Steps(T, q, a, start)
<1>1. ASSUME NEW k \in 1 .. Len(q)
      PROVE  Entry(T[k], a, start) = Stepped(Entry(T[k - 1], a, start), q[k], a, start)
  <2>1. k - 1 \in 0 .. Len(q) /\ q[k] \in Statement
    OBVIOUS
  <2>2. \A m \in 0 .. Len(q) : T[m] \in Seq(Row)
    BY TableType
  <2>3. T[k - 1] \in Seq(Row)
    BY <2>1, <2>2
  <2>4. T[k] = Executed(T[k - 1], q[k])
    BY DEF Run
  <2> QED
    BY <2>1, <2>3, <2>4, EntryStep
<1> QED
  BY <1>1 DEF Steps

\* and the last of them is what FoldLeft gives.
LEMMA FoldType ==
    ASSUME NEW table \in Seq(Row), NEW q \in Seq(Statement)
    PROVE  Fold(table, q) \in Seq(Row)
<1>1. PICK T : Run(T, table, q) /\ Fold(table, q) = T[Len(q)]
  BY FoldIs
<1>2. Len(q) \in 0 .. Len(q)
  OBVIOUS
<1> QED
  BY <1>1, <1>2, TableType

\* What nobody has inserted has no entry.
LEMMA EntryAbsent ==
    ASSUME NEW table \in Seq(Row), NEW q \in Seq(Statement), NEW a, NEW start,
           RowsOf(table, a, start) = {},
           \A k \in DOMAIN q :
              q[k].op = "INSERT" => q[k].srcAddr # a \/ q[k].start # start
    PROVE  Entry(Fold(table, q), a, start) = <<0, 0, 0>>
<1>1. PICK T : Run(T, table, q) /\ Fold(table, q) = T[Len(q)]
  BY FoldIs
<1> DEFINE E(k) == Entry(T[k], a, start)
           D == {k \in 0 .. Len(q) : E(k) # <<0, 0, 0>>}
<1>2. E(0) = <<0, 0, 0>>
  BY <1>1, EntryIs DEF Run
<1>3. \A k \in 1 .. Len(q) : E(k) = Stepped(E(k - 1), q[k], a, start)
  <2>1. Steps(T, q, a, start)
    BY <1>1, EntryRun
  <2> QED
    BY <2>1 DEF Steps
<1> HIDE DEF E
<1>4. D = {}
  <2>1. SUFFICES ASSUME D # {} PROVE FALSE
    OBVIOUS
  <2>2. PICK k \in D : \A m \in D : k <= m
    <3>1. D \in SUBSET Nat
      OBVIOUS
    <3> HIDE DEF D
    <3> QED
      BY <2>1, <3>1, LeastNumber
  <2>3. k \in 0 .. Len(q) /\ k # 0 /\ E(k) # <<0, 0, 0>> /\ Len(q) \in Nat
    BY <1>2
  <2>4. k \in 1 .. Len(q) /\ k - 1 \in 0 .. Len(q) /\ ~ (k <= k - 1) /\ k \in DOMAIN q
    BY <2>3
  <2>5. E(k - 1) = <<0, 0, 0>>
    BY <2>2, <2>4
  <2>6. <<0, 0, 0>>[1] # 1
    OBVIOUS
  <2>7. Stepped(<<0, 0, 0>>, q[k], a, start) = <<0, 0, 0>>
    BY <2>4, <2>6 DEF Stepped
  <2> QED
    BY <1>3, <2>3, <2>4, <2>5, <2>7
<1>5. Len(q) \in 0 .. Len(q)
  OBVIOUS
<1>6. E(Len(q)) = <<0, 0, 0>>
  BY <1>4, <1>5
<1> QED
  BY <1>1, <1>6 DEF E

\* Tables that say the same of an intrusion go on saying the same.
LEMMA EntrySame ==
    ASSUME NEW t \in Seq(Row), NEW u \in Seq(Row), NEW q \in Seq(Statement), NEW a, NEW start,
           Entry(t, a, start) = Entry(u, a, start)
    PROVE  Entry(Fold(t, q), a, start) = Entry(Fold(u, q), a, start)
<1>1. PICK T : Run(T, t, q) /\ Fold(t, q) = T[Len(q)]
  BY FoldIs
<1>2. PICK U : Run(U, u, q) /\ Fold(u, q) = U[Len(q)]
  BY FoldIs
<1> DEFINE E(k) == Entry(T[k], a, start)
           F(k) == Entry(U[k], a, start)
           D == {k \in 0 .. Len(q) : E(k) # F(k)}
<1>3. E(0) = F(0)
  BY <1>1, <1>2 DEF Run
<1>4. \A k \in 1 .. Len(q) : E(k) = Stepped(E(k - 1), q[k], a, start)
  <2>1. Steps(T, q, a, start)
    BY <1>1, EntryRun
  <2> QED
    BY <2>1 DEF Steps
<1>5. \A k \in 1 .. Len(q) : F(k) = Stepped(F(k - 1), q[k], a, start)
  <2>1. Steps(U, q, a, start)
    BY <1>2, EntryRun
  <2> QED
    BY <2>1 DEF Steps
<1> HIDE DEF E, F
<1>6. D = {}
  <2>1. SUFFICES ASSUME D # {} PROVE FALSE
    OBVIOUS
  <2>2. PICK k \in D : \A m \in D : k <= m
    <3>1. D \in SUBSET Nat
      OBVIOUS
    <3> HIDE DEF D
    <3> QED
      BY <2>1, <3>1, LeastNumber
  <2>3. k \in 0 .. Len(q) /\ k # 0 /\ E(k) # F(k) /\ Len(q) \in Nat
    BY <1>3
  <2>4. k \in 1 .. Len(q) /\ k - 1 \in 0 .. Len(q) /\ ~ (k <= k - 1)
    BY <2>3
  <2>5. E(k - 1) = F(k - 1)
    BY <2>2, <2>4
  <2> QED
    BY <1>4, <1>5, <2>3, <2>4, <2>5
<1>7. Len(q) \in 0 .. Len(q)
  OBVIOUS
<1>8. E(Len(q)) = F(Len(q))
  BY <1>6, <1>7
<1> QED
  BY <1>1, <1>2, <1>8 DEF E, F

\* A statement that is given up matters to its own intrusion only.
LEMMA EntryFails ==
    ASSUME NEW table \in Seq(Row), NEW q \in Seq(Statement), q # <<>>, NEW a, NEW start,
           \/ Head(q).op = "CAPTURE"
           \/ Head(q).srcAddr # a
           \/ Head(q).start # start
    PROVE  Entry(Fold(table, Tail(q)), a, start) = Entry(Fold(table, q), a, start)
<1>1. Head(q) \in Statement /\ Tail(q) \in Seq(Statement)
  BY HeadTailProperties
<1>2. /\ Executed(table, Head(q)) \in Seq(Row)
      /\ Entry(Executed(table, Head(q)), a, start) =
            Stepped(Entry(table, a, start), Head(q), a, start)
  BY <1>1, EntryStep
<1>3. Entry(Executed(table, Head(q)), a, start) = Entry(table, a, start)
  BY <1>2 DEF Stepped
<1>4. Fold(table, q) = Fold(Executed(table, Head(q)), Tail(q))
  BY FoldTail
<1> DEFINE u == Executed(table, Head(q))
           r == Tail(q)
<1>5. u \in Seq(Row) /\ r \in Seq(Statement) /\ Entry(table, a, start) = Entry(u, a, start)
  BY <1>1, <1>2, <1>3
<1> HIDE DEF u, r
<1>6. Entry(Fold(table, r), a, start) = Entry(Fold(u, r), a, start)
  BY <1>5, EntrySame
<1> QED
  BY <1>4, <1>6 DEF u, r

-----------------------------------------------------------------------------
(* Sequences that the detector changes *)

\* Where an element was before the i-th was taken out.
Skip(k, i) == IF k < i THEN k ELSE k + 1

\* RemoveAt takes out the one element.
LEMMA RemoveAtIs ==
    ASSUME NEW S, NEW list \in Seq(S), NEW i \in 1 .. Len(list)
    PROVE  /\ RemoveAt(list, i) \in Seq(S) /\ Len(RemoveAt(list, i)) = Len(list) - 1
           /\ \A k \in 1 .. Len(list) - 1 :
                 /\ Skip(k, i) \in DOMAIN list /\ Skip(k, i) # i
                 /\ RemoveAt(list, i)[k] = list[Skip(k, i)]
           /\ \A m \in DOMAIN list : m # i => \E k \in 1 .. Len(list) - 1 : Skip(k, i) = m
           /\ \A k, l \in 1 .. Len(list) - 1 : Skip(k, i) = Skip(l, i) => k = l
<1> DEFINE n == Len(list)
           front == SubSeq(list, 1, i - 1)
           back == SubSeq(list, i + 1, n)
<1>1. n \in Nat /\ i \in Nat /\ 1 <= i /\ i <= n /\ DOMAIN list = 1 .. n
  OBVIOUS
<1>2. front \in Seq(S) /\ Len(front) = i - 1 /\ \A k \in 1 .. i - 1 : front[k] = list[k]
  <2>1. \A k \in 1 .. i - 1 : list[k] \in S
    BY <1>1
  <2>2. /\ front \in Seq(S)
        /\ Len(front) = IF 1 <= i - 1 THEN (i - 1) - 1 + 1 ELSE 0
        /\ \A k \in 1 .. (i - 1) - 1 + 1 : front[k] = list[1 + k - 1]
    <3>1. 1 \in Int /\ i - 1 \in Int
      BY <1>1
    <3> QED
      BY <2>1, <3>1, SubSeqProperties
  <2> HIDE DEF front
  <2>3. Len(front) = i - 1 /\ (i - 1) - 1 + 1 = i - 1
    BY <1>1, <2>2
  <2>4. \A k \in 1 .. i - 1 : 1 + k - 1 = k
    OBVIOUS
  <2> QED
    BY <2>2, <2>3, <2>4
<1>3. back \in Seq(S) /\ Len(back) = n - i /\ \A k \in 1 .. n - i : back[k] = list[k + i]
  <2>1. i \in 0 .. Len(list)
    BY <1>1
  <2> QED
    BY <2>1, RestIs
<1>4. RemoveAt(list, i) = front \o back
  BY DEF RemoveAt
<1> HIDE DEF front, back
<1>5. /\ front \o back \in Seq(S) /\ Len(front \o back) = n - 1
      /\ \A k \in 1 .. n - 1 :
            (front \o back)[k] = IF k <= i - 1 THEN front[k] ELSE back[k - (i - 1)]
  <2>1. /\ front \o back \in Seq(S) /\ Len(front \o back) = Len(front) + Len(back)
        /\ \A k \in 1 .. Len(front) + Len(back) :
              (front \o back)[k] = IF k <= Len(front) THEN front[k] ELSE back[k - Len(front)]
    BY <1>2, <1>3, ConcatProperties
  <2> HIDE DEF n
  <2>2. Len(front) + Len(back) = n - 1
    BY <1>1, <1>2, <1>3
  <2> QED
    BY <1>2, <2>1, <2>2
<1> HIDE DEF n
<1>6. ASSUME NEW k \in 1 .. n - 1
      PROVE  /\ Skip(k, i) \in 1 .. n /\ Skip(k, i) # i
             /\ (front \o back)[k] = list[Skip(k, i)]
  <2>1. CASE k < i
    <3>1. k \in 1 .. i - 1 /\ Skip(k, i) = k
      BY <1>1, <2>1 DEF Skip
    <3>2. (front \o back)[k] = front[k]
      BY <1>1, <1>5, <3>1
    <3> QED
      BY <1>1, <1>2, <2>1, <3>1, <3>2
  <2>2. CASE ~ (k < i)
    <3>1. k - (i - 1) \in 1 .. n - i /\ Skip(k, i) = k + 1 /\ (k - (i - 1)) + i = k + 1
      BY <1>1, <2>2 DEF Skip
    <3>2. (front \o back)[k] = back[k - (i - 1)]
      BY <1>1, <1>5, <2>2
    <3>3. back[k - (i - 1)] = list[k + 1]
      BY <1>3, <3>1
    <3> QED
      BY <1>1, <2>2, <3>1, <3>2, <3>3
  <2> QED
    BY <2>1, <2>2
<1>7. ASSUME NEW m \in 1 .. n, m # i
      PROVE  \E k \in 1 .. n - 1 : Skip(k, i) = m
  <2>1. CASE m < i
    BY <1>1, <2>1 DEF Skip
  <2>2. CASE ~ (m < i)
    <3>1. m - 1 \in 1 .. n - 1 /\ ~ (m - 1 < i) /\ (m - 1) + 1 = m
      BY <1>1, <1>7, <2>2
    <3> QED
      BY <3>1 DEF Skip
  <2> QED
    BY <2>1, <2>2
<1>8. \A k, l \in 1 .. n - 1 : Skip(k, i) = Skip(l, i) => k = l
  BY <1>1 DEF Skip
<1> QED
  BY <1>1, <1>4, <1>5, <1>6, <1>7, <1>8 DEF n

\* The old records are the first ones.
LEMMA OldRecordsAre ==
    ASSUME IdsTypeOK
    PROVE  /\ OldRecords = 1 .. Cardinality(OldRecords)
           /\ Cardinality(OldRecords) \in 0 .. Len(records)
<1>1. records \in Seq(Record) /\ Len(records) \in Nat /\ DOMAIN records = 1 .. Len(records)
  BY DEF IdsTypeOK
<1>2. OldRecords \in SUBSET (1 .. Len(records))
  BY <1>1 DEF OldRecords
<1>3. ASSUME NEW i \in OldRecords PROVE 1 .. i \subseteq OldRecords
  <2>1. i \in 1 .. Len(records) /\ \A j \in 1 .. i : Old(records[j])
    BY <1>1 DEF OldRecords
  <2>2. \A k \in 1 .. i : k \in 1 .. Len(records) /\ \A j \in 1 .. k : j \in 1 .. i
    BY <2>1
  <2> QED
    BY <1>1, <2>1, <2>2 DEF OldRecords
<1> QED
  BY <1>1, <1>2, <1>3, Beginning

\* An intrusion that is found.
LEMMA FoundIs ==
    ASSUME IdsTypeOK, NEW a \in Many
    PROVE  /\ a \in Addrs /\ Packets(a) \in SUBSET DOMAIN records /\ Packets(a) # {}
           /\ \E i, j \in Packets(a) :
                 /\ i <= j
                 /\ Found(a) = [srcAddr |-> a, start |-> records[i].time,
                                stop |-> records[j].time, n |-> CountIn(records, a),
                                inserted |-> FALSE, updated |-> FALSE]
           /\ CountIn(records, a) \in Nat
<1>1. records \in Seq(Record) /\ Len(records) \in Nat /\ DOMAIN records = 1 .. Len(records)
  BY DEF IdsTypeOK
<1>2. Packets(a) = From(records, a) /\ Packets(a) \in SUBSET (1 .. Len(records))
  BY <1>1 DEF Packets, From
<1>3. a \in Addrs /\ Cardinality(Packets(a)) >= RECOGNIZE_THRESHOLD
  BY DEF Many
<1>4. IsFiniteSet(Packets(a)) /\ CountIn(records, a) \in Nat
      /\ CountIn(records, a) = Cardinality(Packets(a))
  BY <1>1, <1>2, CountType DEF CountIn
<1>5. Packets(a) # {}
  <2>1. Cardinality(Packets(a)) # 0
    BY <1>3, <1>4, LimitsAssumption
  <2> QED
    BY <2>1, FS_EmptySet
<1>6. /\ Min(Packets(a)) \in Packets(a) /\ Max(Packets(a)) \in Packets(a)
      /\ Min(Packets(a)) <= Max(Packets(a))
  BY <1>1, <1>2, <1>5, Extremes
<1>7. Found(a) = [srcAddr |-> a, start |-> records[Min(Packets(a))].time,
                  stop |-> records[Max(Packets(a))].time, n |-> CountIn(records, a),
                  inserted |-> FALSE, updated |-> FALSE]
  BY <1>4 DEF Found
<1> QED
  BY <1>1, <1>2, <1>3, <1>4, <1>5, <1>6, <1>7

-----------------------------------------------------------------------------
(* The type invariant *)

\* A step of the detector, of the database or of a terminal.
IdsNext == Detect \/ \E a \in Addrs : Receive(a)

\* What intoDatabase changes, and what not.
LEMMA SavedType ==
    ASSUME NEW ri \in Intrusion
    PROVE  /\ Saved(ri) \in Intrusion
           /\ Saved(ri).srcAddr = ri.srcAddr /\ Saved(ri).start = ri.start
           /\ Saved(ri).stop = ri.stop /\ Saved(ri).n = ri.n
           /\ Saved(ri).inserted /\ Saved(ri).updated
BY DEF Saved, Intrusion

\* What a packet changes.
LEMMA AddedType ==
    ASSUME NEW ri \in Intrusion, NEW pr \in Record
    PROVE  /\ Added(ri, pr) \in Intrusion
           /\ Added(ri, pr).srcAddr = ri.srcAddr /\ Added(ri, pr).start = ri.start
           /\ Added(ri, pr).stop = pr.time /\ Added(ri, pr).n = ri.n + 1
           /\ (Added(ri, pr).inserted <=> ri.inserted) /\ ~ Added(ri, pr).updated
<1>1. Added(ri, pr) = [ri EXCEPT !.stop = pr.time, !.n = ri.n + 1, !.updated = FALSE]
  BY DEF Added
<1>2. ri \in Intrusion /\ ri.n \in Nat /\ ri.n + 1 \in Nat /\ pr.time \in Nat
  BY DEF Intrusion, Record
<1> DEFINE m == ri.n + 1
<1> HIDE DEF m
<1>3. Added(ri, pr) = [ri EXCEPT !.stop = pr.time, !.n = m, !.updated = FALSE] /\ m \in Nat
  BY <1>1, <1>2 DEF m
<1>4. Added(ri, pr) \in Intrusion
  BY <1>2, <1>3 DEF Intrusion
<1>5. /\ Added(ri, pr).srcAddr = ri.srcAddr /\ Added(ri, pr).start = ri.start
      /\ Added(ri, pr).stop = pr.time /\ Added(ri, pr).n = m /\ ~ Added(ri, pr).updated
  BY <1>2, <1>3 DEF Intrusion
<1>6. Added(ri, pr).inserted <=> ri.inserted
  BY <1>2, <1>3 DEF Intrusion
<1> QED
  BY <1>4, <1>5, <1>6 DEF m

\* The statement of an intrusion.
StatementOf(ri) ==
    [op |-> IF ri.inserted THEN "UPDATE" ELSE "INSERT", srcAddr |-> ri.srcAddr,
     start |-> ri.start, stop |-> ri.stop, n |-> ri.n]

\* The queue gets that statement, or none.
LEMMA StatementsAre ==
    ASSUME NEW q \in Seq(Statement), NEW ri \in Intrusion
    PROVE  /\ StatementOf(ri) \in Statement
           /\ q \o StatementsOf(ri) =
                 IF ri.updated THEN q ELSE Append(q, StatementOf(ri))
<1>1. StatementOf(ri) \in Statement
  BY DEF StatementOf, Statement, Intrusion
<1>2. CASE ri.updated
  <2>1. StatementsOf(ri) = <<>>
    BY <1>2 DEF StatementsOf
  <2> QED
    BY <1>1, <1>2, <2>1
<1>3. CASE ~ ri.updated
  <2>1. StatementsOf(ri) = <<StatementOf(ri)>>
    BY <1>3 DEF StatementsOf, StatementOf
  <2>2. q \o <<StatementOf(ri)>> = Append(q, StatementOf(ri))
    BY <1>1, AppendIsConcat
  <2> QED
    BY <1>1, <1>3, <2>1, <2>2
<1> QED
  BY <1>2, <1>3

\* A packet that is taken, and what else that leaves alone.
LEMMA CollectIs ==
    ASSUME IdsTypeOK, NEW pr, Collect(pr)
    PROVE  /\ pr \in Record /\ newRecords' \in Seq(Record) /\ pr = newRecords[1]
           /\ Len(newRecords) \in Nat /\ Len(newRecords) > 0
           /\ Len(newRecords') = Len(newRecords) - 1
           /\ \A i \in 1 .. Len(newRecords) - 1 : newRecords'[i] = newRecords[i + 1]
<1>1. newRecords \in Seq(Record) /\ newRecords # <<>> /\ pr = Head(newRecords)
      /\ newRecords' = Tail(newRecords)
  BY DEF IdsTypeOK, Collect
<1> QED
  BY <1>1, HeadTailProperties

\* A packet may be stored as well.
LEMMA KeepIs ==
    ASSUME IdsTypeOK, NEW pr \in Record, Keep(pr)
    PROVE  /\ InsertCapture(pr) \in Statement /\ InsertCapture(pr).op = "CAPTURE"
           /\ sqlQueue' = sqlQueue \/ sqlQueue' = Append(sqlQueue, InsertCapture(pr))
           /\ sqlQueue' \in Seq(Statement)
<1>1. InsertCapture(pr) \in Statement /\ InsertCapture(pr).op = "CAPTURE"
  BY DEF InsertCapture, Record, Statement
<1>2. sqlQueue \in Seq(Statement)
  BY DEF IdsTypeOK
<1> QED
  BY <1>1, <1>2 DEF Keep

\* The type invariant holds at the start,
LEMMA IdsTypeInit == Init => IdsTypeOK
<1> SUFFICES ASSUME Init PROVE IdsTypeOK
  OBVIOUS
<1>1. IsFiniteSet({})
  BY FS_EmptySet
<1>2. DatabaseHost \subseteq Addrs
  BY AddrsAssumption
<1> QED
  BY <1>1, <1>2 DEF Init, IdsTypeOK

\* and every step preserves it.
LEMMA IdsTypeStep ==
    ASSUME IdsTypeOK, [IdsNext]_vars
    PROVE  IdsTypeOK'
<1> USE DEF IdsTypeOK, loop, database, history
<1>1. CASE Tick
  BY <1>1 DEF Tick
<1>2. CASE RemoveRecords
  <2>1. records' \in Seq(Record)
    <3>1. Cardinality(OldRecords) \in 0 .. Len(records)
      BY OldRecordsAre
    <3> QED
      BY <1>2, <3>1, RestIs DEF RemoveRecords
  <2>2. expired' \in [Addrs -> Nat]
    <3>1. ASSUME NEW a \in Addrs
          PROVE  Cardinality(OldRecords \cap Packets(a)) \in Nat
      <4>1. IsFiniteSet(From(records, a)) /\ Packets(a) = From(records, a)
        BY CountType DEF Packets, From
      <4> QED
        BY <4>1, FS_Subset, FS_CardinalityType
    <3>2. expired' = [a \in Addrs |->
                        expired[a] + Cardinality(OldRecords \cap Packets(a))]
      BY <1>2 DEF RemoveRecords
    <3>3. \A a \in Addrs : expired[a] \in Nat
      OBVIOUS
    <3> DEFINE more(a) == Cardinality(OldRecords \cap Packets(a))
    <3>4. expired' = [a \in Addrs |-> expired[a] + more(a)] /\ \A a \in Addrs : more(a) \in Nat
      BY <3>1, <3>2
    <3> HIDE DEF more
    <3>5. \A a \in Addrs : expired[a] + more(a) \in Nat
      BY <3>3, <3>4
    <3> QED
      BY <3>4, <3>5
  <2>3. /\ index' \in 0 .. Len(intrusions) /\ (pc' = "remove" <=> index' > 0)
        /\ pc' \in {"sleep", "remove", "collect", "recognize"} /\ removeTime' \in 0 .. time
    <3>1. Len(intrusions) \in Nat /\ (Len(intrusions) = 0 <=> intrusions = <<>>)
      OBVIOUS
    <3> QED
      BY <1>2, <3>1 DEF RemoveRecords
  <2> QED
    BY <1>2, <2>1, <2>2, <2>3 DEF RemoveRecords
<1>3. CASE RemoveIntrusion
  <2> DEFINE ri == intrusions[index]
  <2>1. index \in 1 .. Len(intrusions) /\ ri \in Intrusion
    BY <1>3 DEF RemoveIntrusion
  <2>2. Saved(ri) \in Intrusion
    BY <2>1, SavedType
  <2>3. sqlQueue' \in Seq(Statement)
    <3>1. StatementOf(ri) \in Statement
          /\ sqlQueue' = IF ri.updated THEN sqlQueue ELSE Append(sqlQueue, StatementOf(ri))
      BY <1>3, <2>1, StatementsAre DEF RemoveIntrusion
    <3> HIDE DEF ri
    <3> QED
      BY <3>1
  <2>4. intrusions' \in Seq(Intrusion) /\ index - 1 \in 0 .. Len(intrusions')
    <3>1. CASE TimedOut(ri) \/ UsedUp(ri)
      <4>1. intrusions' = RemoveAt(intrusions, index)
        BY <1>3, <3>1 DEF RemoveIntrusion
      <4>2. intrusions' \in Seq(Intrusion) /\ Len(intrusions') = Len(intrusions) - 1
        BY <2>1, <4>1, RemoveAtIs
      <4> HIDE DEF ri
      <4> QED
        BY <2>1, <4>2
    <3>2. CASE ~ (TimedOut(ri) \/ UsedUp(ri))
      <4>1. intrusions' = [intrusions EXCEPT ![index] = Saved(ri)]
        BY <1>3, <3>2 DEF RemoveIntrusion
      <4> HIDE DEF ri
      <4> QED
        BY <2>1, <2>2, <4>1
    <3> QED
      BY <3>1, <3>2
  <2>5. past' \subseteq Intrusion /\ IsFiniteSet(past')
    <3>1. past' = past \/ past' = past \cup {Saved(ri)}
      BY <1>3 DEF RemoveIntrusion
    <3>2. past \subseteq Intrusion /\ IsFiniteSet(past)
      OBVIOUS
    <3> HIDE DEF ri, IdsTypeOK
    <3>3. IsFiniteSet(past \cup {Saved(ri)})
      BY <3>2, FS_AddElement
    <3> QED
      BY <2>2, <3>1, <3>2, <3>3
  <2>6. srcAddrWhiteList' \subseteq Addrs
    <3>1. ri.srcAddr \in Addrs
      BY <2>1 DEF Intrusion
    <3> QED
      BY <1>3, <3>1 DEF RemoveIntrusion
  <2>7. /\ index' = index - 1 /\ pc' = IF index' = 0 THEN "collect" ELSE "remove"
        /\ removeTime' = IF index' = 0 THEN 0 ELSE removeTime
        /\ UNCHANGED <<time, received, newRecords, records, ignored, expired, rows>>
    BY <1>3 DEF RemoveIntrusion
  <2>8. /\ index' \in 0 .. Len(intrusions') /\ (pc' = "remove" <=> index' > 0)
        /\ pc' \in {"sleep", "remove", "collect", "recognize"} /\ removeTime' \in 0 .. time
    <3>1. index - 1 \in Nat
      BY <2>4
    <3> QED
      BY <2>4, <2>7, <3>1
  <2> HIDE DEF ri
  <2> QED
    BY <2>3, <2>4, <2>5, <2>6, <2>7, <2>8
<1>4. CASE CollectIgnored
  <2> DEFINE pr == Head(newRecords)
  <2>1. Collect(pr) /\ ignored' = [ignored EXCEPT ![pr.srcAddr] = @ + 1]
        /\ UNCHANGED <<records, intrusions, sqlQueue>>
    BY <1>4 DEF CollectIgnored
  <2>2. pr \in Record /\ newRecords' \in Seq(Record)
    BY <2>1, CollectIs
  <2> HIDE DEF pr
  <2>3. ignored' \in [Addrs -> Nat]
    BY <2>1, <2>2 DEF Record
  <2> QED
    BY <2>1, <2>2, <2>3 DEF Collect
<1>5. CASE CollectTracked
  <2> DEFINE pr == Head(newRecords)
  <2>1. Collect(pr) /\ Keep(pr) /\ UNCHANGED records
    BY <1>5 DEF CollectTracked
  <2>2. PICK i \in Tracking(pr.srcAddr) :
           intrusions' = [intrusions EXCEPT ![i] = Added(@, pr)]
    BY <1>5 DEF CollectTracked
  <2>3. pr \in Record /\ newRecords' \in Seq(Record)
    BY <2>1, CollectIs
  <2>4. sqlQueue' \in Seq(Statement)
    BY <2>1, <2>3, KeepIs
  <2> HIDE DEF pr
  <2>5. i \in DOMAIN intrusions /\ intrusions[i] \in Intrusion
    BY <2>2 DEF Tracking
  <2>6. Added(intrusions[i], pr) \in Intrusion
    BY <2>3, <2>5, AddedType
  <2>7. intrusions' \in Seq(Intrusion) /\ Len(intrusions') = Len(intrusions)
    BY <2>2, <2>5, <2>6
  <2> QED
    BY <2>1, <2>3, <2>4, <2>7 DEF Collect, Keep
<1>6. CASE CollectNew
  <2> DEFINE pr == Head(newRecords)
  <2>1. Collect(pr) /\ Keep(pr) /\ UNCHANGED intrusions /\ records' = Append(records, pr)
    BY <1>6 DEF CollectNew
  <2>2. pr \in Record /\ newRecords' \in Seq(Record)
    BY <2>1, CollectIs
  <2>3. sqlQueue' \in Seq(Statement)
    BY <2>1, <2>2, KeepIs
  <2> HIDE DEF pr
  <2> QED
    BY <2>1, <2>2, <2>3 DEF Collect, Keep
<1>7. CASE RecognizeIntrusions
  <2>1. pc' \in {"sleep", "recognize"} /\ pc = "collect"
        /\ UNCHANGED <<time, index, removeTime, newRecords, records, intrusions,
                       srcAddrWhiteList, sqlQueue, rows, received, ignored, expired, past>>
    BY <1>7 DEF RecognizeIntrusions, Recognizing
  <2> QED
    BY <2>1
<1>8. ASSUME NEW a \in Many, CollectRecords(a) PROVE IdsTypeOK'
  <2>1. /\ pc' \in {"sleep", "recognize"} /\ pc = "recognize"
        /\ intrusions' = Append(intrusions, Found(a))
        /\ records' = RemoveIf(records, Packets(a))
        /\ UNCHANGED <<time, index, removeTime, newRecords,
                       srcAddrWhiteList, sqlQueue, rows, received, ignored, expired, past>>
    BY <1>8 DEF CollectRecords, Recognizing
  <2>2. Packets(a) \in SUBSET DOMAIN records
    BY DEF Packets
  <2>3. records' \in Seq(Record)
    BY <2>1, <2>2, RemoveIfIs
  <2>4. Found(a) \in Intrusion
    <3>1. PICK i, j \in Packets(a) :
             Found(a) = [srcAddr |-> a, start |-> records[i].time, stop |-> records[j].time,
                         n |-> CountIn(records, a), inserted |-> FALSE, updated |-> FALSE]
      BY FoundIs
    <3>2. a \in Addrs /\ CountIn(records, a) \in Nat
      BY FoundIs
    <3>3. records[i] \in Record /\ records[j] \in Record
      BY <2>2
    <3>4. records[i].time \in Nat /\ records[j].time \in Nat
      BY <3>3 DEF Record
    <3>5. FALSE \in BOOLEAN
      OBVIOUS
    <3> QED
      BY <3>1, <3>2, <3>4, <3>5 DEF Intrusion
  <2>5. intrusions' \in Seq(Intrusion) /\ index \in 0 .. Len(intrusions')
    BY <2>1, <2>4
  <2> QED
    BY <2>1, <2>3, <2>5
<1>9. CASE ExecuteSql
  <2>1. Head(sqlQueue) \in Statement /\ sqlQueue' \in Seq(Statement)
        /\ rows' = Executed(rows, Head(sqlQueue)) /\ UNCHANGED Detector
    BY <1>9, HeadTailProperties DEF ExecuteSql
  <2>2. rows' \in Seq(Row)
    BY <2>1, EntryStep
  <2> QED
    BY <2>1, <2>2 DEF Detector
<1>10. CASE ExecuteFails
  <2>1. sqlQueue' \in Seq(Statement) /\ UNCHANGED <<rows, Detector>>
    BY <1>10, HeadTailProperties DEF ExecuteFails
  <2> QED
    BY <2>1 DEF Detector
<1>11. ASSUME NEW a \in Addrs, Receive(a) PROVE IdsTypeOK'
  <2>1. [srcAddr |-> a, time |-> time] \in Record
    BY DEF Record
  <2>2. newRecords' \in Seq(Record)
    BY <1>11, <2>1 DEF Receive
  <2>3. received' \in [Addrs -> Nat]
    BY <1>11 DEF Receive
  <2> QED
    BY <1>11, <2>2, <2>3 DEF Receive
<1>12. CASE UNCHANGED vars
  BY <1>12 DEF vars
<1> QED
  BY <1>1, <1>2, <1>3, <1>4, <1>5, <1>6, <1>7, <1>8, <1>9, <1>10, <1>11, <1>12
     DEF IdsNext, Detect

-----------------------------------------------------------------------------
(* What the steps change *)

\* RemoveIntrusion forgets it.
Gone(ri) == TimedOut(ri) \/ UsedUp(ri)

\* An intrusion is saved and forgotten,
LEMMA Forgotten ==
    ASSUME IdsTypeOK, RemoveIntrusion, Gone(intrusions[index])
    PROVE  /\ index \in DOMAIN intrusions /\ intrusions[index] \in Intrusion
           /\ \A k \in DOMAIN intrusions' :
                 /\ Skip(k, index) \in DOMAIN intrusions /\ Skip(k, index) # index
                 /\ intrusions'[k] = intrusions[Skip(k, index)]
           /\ \A m \in DOMAIN intrusions :
                 m # index => \E k \in DOMAIN intrusions' : Skip(k, index) = m
           /\ \A k, l \in DOMAIN intrusions' : Skip(k, index) = Skip(l, index) => k = l
           /\ past' = past \cup {Saved(intrusions[index])}
<1>1. /\ intrusions \in Seq(Intrusion) /\ index \in 1 .. Len(intrusions)
      /\ intrusions' = RemoveAt(intrusions, index)
      /\ past' = past \cup {Saved(intrusions[index])}
  BY DEF IdsTypeOK, RemoveIntrusion, Gone
<1>2. DOMAIN intrusions' = 1 .. Len(intrusions) - 1
  <2>1. intrusions' \in Seq(Intrusion) /\ Len(intrusions') = Len(intrusions) - 1
    BY <1>1, RemoveAtIs
  <2> QED
    BY <2>1
<1>3. index \in DOMAIN intrusions /\ intrusions[index] \in Intrusion
  BY <1>1
<1>4. /\ \A k \in 1 .. Len(intrusions) - 1 :
            /\ Skip(k, index) \in DOMAIN intrusions /\ Skip(k, index) # index
            /\ intrusions'[k] = intrusions[Skip(k, index)]
      /\ \A m \in DOMAIN intrusions :
            m # index => \E k \in 1 .. Len(intrusions) - 1 : Skip(k, index) = m
      /\ \A k, l \in 1 .. Len(intrusions) - 1 : Skip(k, index) = Skip(l, index) => k = l
  <2>1. \A k \in 1 .. Len(intrusions) - 1 :
            /\ Skip(k, index) \in DOMAIN intrusions /\ Skip(k, index) # index
            /\ RemoveAt(intrusions, index)[k] = intrusions[Skip(k, index)]
    BY <1>1, RemoveAtIs
  <2>2. \A m \in DOMAIN intrusions :
            m # index => \E k \in 1 .. Len(intrusions) - 1 : Skip(k, index) = m
    BY <1>1, RemoveAtIs
  <2>3. \A k, l \in 1 .. Len(intrusions) - 1 : Skip(k, index) = Skip(l, index) => k = l
    BY <1>1, RemoveAtIs
  <2> QED
    BY <1>1, <2>1, <2>2, <2>3
<1> QED
  BY <1>1, <1>2, <1>3, <1>4

\* or saved and kept.
LEMMA Kept ==
    ASSUME IdsTypeOK, RemoveIntrusion, ~ Gone(intrusions[index])
    PROVE  /\ index \in DOMAIN intrusions /\ intrusions[index] \in Intrusion
           /\ DOMAIN intrusions' = DOMAIN intrusions
           /\ \A k \in DOMAIN intrusions :
                 intrusions'[k] = IF k = index THEN Saved(intrusions[index]) ELSE intrusions[k]
           /\ past' = past /\ srcAddrWhiteList' = srcAddrWhiteList
<1>1. /\ intrusions \in Seq(Intrusion) /\ index \in 1 .. Len(intrusions)
      /\ intrusions' = [intrusions EXCEPT ![index] = Saved(intrusions[index])]
      /\ past' = past /\ srcAddrWhiteList' = srcAddrWhiteList
  BY DEF IdsTypeOK, RemoveIntrusion, Gone
<1>2. index \in DOMAIN intrusions /\ intrusions[index] \in Intrusion
  BY <1>1
<1> QED
  BY <1>1, <1>2

\* Old records are those in front.
LEMMA Shortened ==
    ASSUME IdsTypeOK, RemoveRecords
    PROVE  /\ Cardinality(OldRecords) \in Nat
           /\ \A i \in DOMAIN records' :
                 /\ i + Cardinality(OldRecords) \in DOMAIN records
                 /\ records'[i] = records[i + Cardinality(OldRecords)]
<1> DEFINE n == Cardinality(OldRecords)
<1>1. records \in Seq(Record) /\ n \in 0 .. Len(records)
      /\ records' = SubSeq(records, n + 1, Len(records))
  BY OldRecordsAre DEF IdsTypeOK, RemoveRecords
<1> HIDE DEF n
<1>2. records' \in Seq(Record) /\ Len(records') = Len(records) - n
      /\ \A i \in 1 .. Len(records) - n : records'[i] = records[i + n]
  BY <1>1, RestIs
<1>3. n \in Nat /\ \A i \in DOMAIN records' : i + n \in DOMAIN records
  BY <1>1, <1>2
<1> QED
  BY <1>1, <1>2, <1>3 DEF n

\* The packet goes to the intrusion of its source,
LEMMA TrackedIs ==
    ASSUME IdsTypeOK, CollectTracked
    PROVE  \E i \in DOMAIN intrusions :
              /\ newRecords[1] \in Record /\ intrusions[i] \in Intrusion
              /\ intrusions[i].srcAddr = newRecords[1].srcAddr
              /\ DOMAIN intrusions' = DOMAIN intrusions
              /\ \A k \in DOMAIN intrusions :
                    intrusions'[k] = IF k = i THEN Added(intrusions[i], newRecords[1])
                                     ELSE intrusions[k]
<1> DEFINE pr == Head(newRecords)
<1>1. Collect(pr)
  BY DEF CollectTracked
<1>2. pr \in Record /\ pr = newRecords[1]
  BY <1>1, CollectIs
<1>3. PICK i \in Tracking(pr.srcAddr) : intrusions' = [intrusions EXCEPT ![i] = Added(@, pr)]
  BY DEF CollectTracked
<1>4. i \in DOMAIN intrusions /\ intrusions[i].srcAddr = pr.srcAddr
      /\ intrusions[i] \in Intrusion
  BY <1>3 DEF Tracking, IdsTypeOK
<1>5. intrusions' = [intrusions EXCEPT ![i] = Added(intrusions[i], pr)]
  BY <1>3, <1>4
<1> HIDE DEF pr
<1>6. DOMAIN intrusions' = DOMAIN intrusions
      /\ \A k \in DOMAIN intrusions :
            intrusions'[k] = IF k = i THEN Added(intrusions[i], pr) ELSE intrusions[k]
  BY <1>4, <1>5
<1> QED
  BY <1>2, <1>4, <1>6

\* or waits.
LEMMA NewIs ==
    ASSUME IdsTypeOK, CollectNew
    PROVE  /\ newRecords[1] \in Record /\ newRecords[1].srcAddr \notin srcAddrWhiteList
           /\ \A i \in DOMAIN intrusions : intrusions[i].srcAddr # newRecords[1].srcAddr
           /\ Len(records) \in Nat /\ DOMAIN records' = 1 .. Len(records) + 1
           /\ \A i \in DOMAIN records' :
                 \/ i \in DOMAIN records /\ records'[i] = records[i]
                 \/ i = Len(records) + 1 /\ records'[i] = newRecords[1]
<1> DEFINE pr == Head(newRecords)
<1>1. Collect(pr) /\ Keep(pr) /\ Tracking(pr.srcAddr) = {} /\ records' = Append(records, pr)
  BY DEF CollectNew
<1>2. pr \in Record /\ pr = newRecords[1]
  BY <1>1, CollectIs
<1>3. records \in Seq(Record)
  BY DEF IdsTypeOK
<1> HIDE DEF pr
<1>4. /\ Len(records) \in Nat /\ DOMAIN records' = 1 .. Len(records) + 1
      /\ \A i \in DOMAIN records' :
            \/ i \in DOMAIN records /\ records'[i] = records[i]
            \/ i = Len(records) + 1 /\ records'[i] = pr
  BY <1>1, <1>2, <1>3
<1>5. pr.srcAddr \notin srcAddrWhiteList
      /\ \A i \in DOMAIN intrusions : intrusions[i].srcAddr # pr.srcAddr
  BY <1>1 DEF Keep, Tracking
<1> QED
  BY <1>2, <1>4, <1>5

\* The records of a source become an intrusion.
LEMMA Recognized ==
    ASSUME IdsTypeOK, NEW a \in Many, CollectRecords(a)
    PROVE  /\ Len(intrusions) \in Nat /\ DOMAIN intrusions' = 1 .. Len(intrusions) + 1
           /\ \A i \in DOMAIN intrusions' :
                 \/ i \in DOMAIN intrusions /\ intrusions'[i] = intrusions[i]
                 \/ i = Len(intrusions) + 1 /\ intrusions'[i] = Found(a)
           /\ \A n \in DOMAIN records' : \E k \in DOMAIN records :
                 records'[n] = records[k] /\ records[k].srcAddr # a
           /\ \A n, m \in DOMAIN records' : n <= m =>
                 \E k, l \in DOMAIN records :
                    k <= l /\ records'[n] = records[k] /\ records'[m] = records[l]
<1>1. /\ records \in Seq(Record) /\ intrusions \in Seq(Intrusion)
      /\ intrusions' = Append(intrusions, Found(a))
      /\ records' = RemoveIf(records, Packets(a)) /\ Packets(a) \in SUBSET DOMAIN records
  BY DEF IdsTypeOK, CollectRecords, Packets
<1> DEFINE left == Left(records, Packets(a))
           c == Cardinality(left)
<1>2. PICK f \in [1 .. c -> left] :
         /\ \A n \in 1 .. c : records'[n] = records[f[n]]
         /\ \A n, m \in 1 .. c : n < m => f[n] < f[m]
  <2>1. Chosen(records, Packets(a))
    BY <1>1, RemoveIfIs
  <2> QED
    BY <1>1, <2>1 DEF Chosen
<1>3. DOMAIN records' = 1 .. c
  <2>1. records' \in Seq(Record) /\ Len(records') = c
    BY <1>1, RemoveIfIs
  <2> HIDE DEF c
  <2> QED
    BY <2>1
<1>4. \A n \in 1 .. c : f[n] \in DOMAIN records /\ f[n] \in Int /\ records[f[n]].srcAddr # a
  <2>1. \A k \in left : k \in DOMAIN records /\ k \in Int /\ records[k].srcAddr # a
    BY <1>1 DEF Left, Packets
  <2> HIDE DEF c, left
  <2> QED
    BY <1>2, <2>1
<1> HIDE DEF c, left
<1>5. \A n \in DOMAIN records' : \E k \in DOMAIN records :
         records'[n] = records[k] /\ records[k].srcAddr # a
  BY <1>2, <1>3, <1>4
<1>6. ASSUME NEW n \in DOMAIN records', NEW m \in DOMAIN records', n <= m
      PROVE  \E k, l \in DOMAIN records :
                k <= l /\ records'[n] = records[k] /\ records'[m] = records[l]
  <2>1. n \in 1 .. c /\ m \in 1 .. c
    BY <1>3
  <2>2. f[n] <= f[m]
    <3>1. n = m \/ n < m
      BY <1>6, <2>1
    <3> QED
      BY <1>2, <1>4, <2>1, <3>1
  <2> QED
    BY <1>2, <1>4, <2>1, <2>2
<1>7. /\ Len(intrusions) \in Nat /\ DOMAIN intrusions' = 1 .. Len(intrusions) + 1
      /\ \A i \in DOMAIN intrusions' :
            \/ i \in DOMAIN intrusions /\ intrusions'[i] = intrusions[i]
            \/ i = Len(intrusions) + 1 /\ intrusions'[i] = Found(a)
  BY <1>1
<1> QED
  BY <1>5, <1>6, <1>7

-----------------------------------------------------------------------------
(* A source is in one place *)

\* Intrusions keep their sources, and no source waits that has not waited.
LEMMA PlacedSame ==
    ASSUME Placed, srcAddrWhiteList' = srcAddrWhiteList,
           DOMAIN intrusions' = DOMAIN intrusions,
           \A i \in DOMAIN intrusions : intrusions'[i].srcAddr = intrusions[i].srcAddr,
           \A j \in DOMAIN records' : \E k \in DOMAIN records : records'[j] = records[k]
    PROVE  Placed'
BY DEF Placed

\* Every step leaves each source in one place,
LEMMA PlacedStep ==
    ASSUME IdsTypeOK, Placed, [IdsNext]_vars
    PROVE  Placed'
<1> USE DEF loop, database, history
<1>1. CASE UNCHANGED <<records, intrusions, srcAddrWhiteList>>
  BY <1>1, PlacedSame
<1>2. CASE RemoveRecords
  <2>1. UNCHANGED <<intrusions, srcAddrWhiteList>>
    BY <1>2 DEF RemoveRecords
  <2> QED
    BY <1>2, <2>1, Shortened, PlacedSame
<1>3. CASE RemoveIntrusion
  <2>1. UNCHANGED records
    BY <1>3 DEF RemoveIntrusion
  <2>2. CASE Gone(intrusions[index])
    <3>1. /\ index \in DOMAIN intrusions
          /\ \A k \in DOMAIN intrusions' :
                /\ Skip(k, index) \in DOMAIN intrusions /\ Skip(k, index) # index
                /\ intrusions'[k] = intrusions[Skip(k, index)]
          /\ \A k, l \in DOMAIN intrusions' : Skip(k, index) = Skip(l, index) => k = l
      BY <1>3, <2>2, Forgotten
    <3>2. srcAddrWhiteList' \subseteq srcAddrWhiteList \cup {intrusions[index].srcAddr}
      BY <1>3 DEF RemoveIntrusion
    <3>3. \A k \in DOMAIN intrusions' : intrusions'[k].srcAddr \notin srcAddrWhiteList'
      BY <3>1, <3>2 DEF Placed
    <3>4. \A j \in DOMAIN records : records[j].srcAddr \notin srcAddrWhiteList'
      BY <3>1, <3>2 DEF Placed
    <3>5. \A k, l \in DOMAIN intrusions' :
             intrusions'[k].srcAddr = intrusions'[l].srcAddr => k = l
      BY <3>1 DEF Placed
    <3>6. \A k \in DOMAIN intrusions', j \in DOMAIN records :
             intrusions'[k].srcAddr # records[j].srcAddr
      BY <3>1 DEF Placed
    <3> QED
      BY <2>1, <3>3, <3>4, <3>5, <3>6 DEF Placed
  <2>3. CASE ~ Gone(intrusions[index])
    <3>1. /\ index \in DOMAIN intrusions /\ intrusions[index] \in Intrusion
          /\ DOMAIN intrusions' = DOMAIN intrusions
          /\ \A k \in DOMAIN intrusions :
                intrusions'[k] = IF k = index THEN Saved(intrusions[index]) ELSE intrusions[k]
          /\ srcAddrWhiteList' = srcAddrWhiteList
      BY <1>3, <2>3, Kept
    <3>2. \A i \in DOMAIN intrusions : intrusions'[i].srcAddr = intrusions[i].srcAddr
      BY <3>1, SavedType
    <3> QED
      BY <2>1, <3>1, <3>2, PlacedSame
  <2> QED
    BY <2>2, <2>3
<1>4. CASE CollectTracked
  <2>1. UNCHANGED <<records, srcAddrWhiteList>>
    BY <1>4 DEF CollectTracked, Collect
  <2>2. PICK i \in DOMAIN intrusions :
           /\ newRecords[1] \in Record /\ intrusions[i] \in Intrusion
           /\ DOMAIN intrusions' = DOMAIN intrusions
           /\ \A k \in DOMAIN intrusions :
                 intrusions'[k] = IF k = i THEN Added(intrusions[i], newRecords[1])
                                  ELSE intrusions[k]
    BY <1>4, TrackedIs
  <2>3. \A k \in DOMAIN intrusions : intrusions'[k].srcAddr = intrusions[k].srcAddr
    BY <2>2, AddedType
  <2> QED
    BY <2>1, <2>2, <2>3, PlacedSame
<1>5. CASE CollectNew
  <2>1. UNCHANGED <<intrusions, srcAddrWhiteList>>
    BY <1>5 DEF CollectNew, Collect
  <2>2. /\ newRecords[1].srcAddr \notin srcAddrWhiteList
        /\ \A i \in DOMAIN intrusions : intrusions[i].srcAddr # newRecords[1].srcAddr
        /\ \A i \in DOMAIN records' :
              \/ i \in DOMAIN records /\ records'[i] = records[i]
              \/ i = Len(records) + 1 /\ records'[i] = newRecords[1]
    BY <1>5, NewIs
  <2>3. \A i \in DOMAIN records' : records'[i].srcAddr \notin srcAddrWhiteList
    BY <2>2 DEF Placed
  <2>4. \A i \in DOMAIN intrusions, j \in DOMAIN records' :
           intrusions[i].srcAddr # records'[j].srcAddr
    BY <2>2 DEF Placed
  <2> QED
    BY <2>1, <2>3, <2>4 DEF Placed
<1>6. ASSUME NEW a \in Many, CollectRecords(a) PROVE Placed'
  <2>1. UNCHANGED srcAddrWhiteList
    BY <1>6 DEF CollectRecords
  <2>2. /\ \A i \in DOMAIN intrusions' :
              \/ i \in DOMAIN intrusions /\ intrusions'[i] = intrusions[i]
              \/ i = Len(intrusions) + 1 /\ intrusions'[i] = Found(a)
        /\ \A n \in DOMAIN records' : \E k \in DOMAIN records :
              records'[n] = records[k] /\ records[k].srcAddr # a
    BY <1>6, Recognized
  <2>3. Found(a).srcAddr = a
    BY DEF Found
  <2>4. PICK k \in DOMAIN records : records[k].srcAddr = a
    BY FoundIs DEF Packets
  <2>5. a \notin srcAddrWhiteList /\ \A i \in DOMAIN intrusions : intrusions[i].srcAddr # a
    BY <2>4 DEF Placed
  <2>6. \A i, j \in DOMAIN intrusions' : intrusions'[i].srcAddr = intrusions'[j].srcAddr => i = j
    BY <2>2, <2>3, <2>5 DEF Placed
  <2>7. \A i \in DOMAIN intrusions' : intrusions'[i].srcAddr \notin srcAddrWhiteList
    BY <2>2, <2>3, <2>5 DEF Placed
  <2>8. \A i \in DOMAIN records' : records'[i].srcAddr \notin srcAddrWhiteList
    BY <2>2 DEF Placed
  <2>9. \A i \in DOMAIN intrusions', j \in DOMAIN records' :
           intrusions'[i].srcAddr # records'[j].srcAddr
    BY <2>2, <2>3 DEF Placed
  <2> QED
    BY <2>1, <2>6, <2>7, <2>8, <2>9 DEF Placed
<1>7. CASE Tick \/ CollectIgnored \/ RecognizeIntrusions \/ ExecuteSql \/ ExecuteFails
  BY <1>1, <1>7
     DEF Tick, CollectIgnored, Collect, RecognizeIntrusions, ExecuteSql, ExecuteFails, Detector
<1>8. ASSUME NEW a \in Addrs, Receive(a) PROVE Placed'
  BY <1>1, <1>8 DEF Receive
<1>9. CASE UNCHANGED vars
  BY <1>1, <1>9 DEF vars
<1> QED
  BY <1>2, <1>3, <1>4, <1>5, <1>6, <1>7, <1>8, <1>9 DEF IdsNext, Detect

\* which is what OneOwner says.
LEMMA PlacedOwner ==
    ASSUME IdsTypeOK, Placed
    PROVE  OneOwner
<1> SUFFICES ASSUME NEW a \in Addrs
             PROVE  /\ Cardinality(Tracking(a)) <= 1
                    /\ Tracking(a) # {} => Packets(a) = {} /\ a \notin srcAddrWhiteList
  BY DEF OneOwner
<1>1. CASE Tracking(a) = {}
  BY <1>1, FS_EmptySet
<1>2. CASE Tracking(a) # {}
  <2>1. PICK i \in DOMAIN intrusions : intrusions[i].srcAddr = a
    BY <1>2 DEF Tracking
  <2>2. Tracking(a) = {i}
    BY <2>1 DEF Tracking, Placed
  <2>3. Cardinality(Tracking(a)) = 1
    BY <2>2, FS_Singleton
  <2>4. Packets(a) = {} /\ a \notin srcAddrWhiteList
    BY <2>1 DEF Packets, Placed
  <2> QED
    BY <2>3, <2>4
<1> QED
  BY <1>1, <1>2

-----------------------------------------------------------------------------
(* Times *)

\* The types of the elements.
LEMMA Fields ==
    ASSUME IdsTypeOK
    PROVE  /\ time \in Nat
           /\ \A j \in DOMAIN newRecords : j \in Nat /\ newRecords[j] \in Record
                                           /\ newRecords[j].time \in Nat
           /\ \A j \in DOMAIN records : j \in Nat /\ records[j] \in Record
                                        /\ records[j].time \in Nat
           /\ \A i \in DOMAIN intrusions :
                 /\ i \in Nat /\ intrusions[i] \in Intrusion
                 /\ intrusions[i].start \in Nat /\ intrusions[i].stop \in Nat
                 /\ intrusions[i].n \in Nat
           /\ \A ri \in past : ri.start \in Nat /\ ri.stop \in Nat /\ ri.n \in Nat
<1>1. time \in Nat
  BY DEF IdsTypeOK
<1>2. \A j \in DOMAIN newRecords : j \in Nat /\ newRecords[j] \in Record
  BY DEF IdsTypeOK
<1>3. \A j \in DOMAIN records : j \in Nat /\ records[j] \in Record
  BY DEF IdsTypeOK
<1>4. \A i \in DOMAIN intrusions : i \in Nat /\ intrusions[i] \in Intrusion
  BY DEF IdsTypeOK
<1>5. \A ri \in past : ri \in Intrusion
  BY DEF IdsTypeOK
<1>6. \A pr \in Record : pr.time \in Nat
  BY DEF Record
<1>7. \A ri \in Intrusion : ri.start \in Nat /\ ri.stop \in Nat /\ ri.n \in Nat
  BY DEF Intrusion
<1> QED
  BY <1>1, <1>2, <1>3, <1>4, <1>5, <1>6, <1>7

\* The packets that come after the one that is taken.
LEMMA Taken ==
    ASSUME IdsTypeOK, NEW pr, Collect(pr)
    PROVE  /\ pr \in Record /\ pr = newRecords[1] /\ 1 \in DOMAIN newRecords
           /\ \A j \in DOMAIN newRecords' :
                 /\ j + 1 \in DOMAIN newRecords /\ newRecords'[j] = newRecords[j + 1]
                 /\ 1 <= j + 1
<1>1. /\ pr \in Record /\ newRecords' \in Seq(Record) /\ pr = newRecords[1]
      /\ Len(newRecords) \in Nat /\ Len(newRecords) > 0
      /\ Len(newRecords') = Len(newRecords) - 1
      /\ \A i \in 1 .. Len(newRecords) - 1 : newRecords'[i] = newRecords[i + 1]
  BY CollectIs
<1>2. newRecords \in Seq(Record)
  BY DEF IdsTypeOK
<1> QED
  BY <1>1, <1>2

\* Each of the three ways to collect a packet takes one.
LEMMA CollectTakes ==
    ASSUME CollectIgnored \/ CollectTracked \/ CollectNew
    PROVE  Collect(Head(newRecords))
BY DEF CollectIgnored, CollectTracked, CollectNew

\* One more packet.
LEMMA Received ==
    ASSUME IdsTypeOK, NEW a \in Addrs, Receive(a)
    PROVE  /\ Len(newRecords) \in Nat /\ DOMAIN newRecords = 1 .. Len(newRecords)
           /\ DOMAIN newRecords' = 1 .. Len(newRecords) + 1
           /\ \A j \in DOMAIN newRecords' :
                 \/ j \in DOMAIN newRecords /\ newRecords'[j] = newRecords[j]
                 \/ /\ j = Len(newRecords) + 1
                    /\ newRecords'[j].time = time /\ newRecords'[j].srcAddr = a
<1> DEFINE pr == [srcAddr |-> a, time |-> time]
<1>1. pr \in Record /\ pr.time = time /\ pr.srcAddr = a
  BY DEF IdsTypeOK, Record
<1>2. newRecords \in Seq(Record) /\ newRecords' = Append(newRecords, pr)
  BY DEF IdsTypeOK, Receive
<1> HIDE DEF pr
<1> QED
  BY <1>1, <1>2

\* What is received stays in order.
LEMMA ArrivedStep ==
    ASSUME IdsTypeOK, Arrived, [IdsNext]_vars
    PROVE  Arrived'
<1> USE DEF loop, database, history
<1>1. CASE Tick
  <2>1. time' = time + 1 /\ UNCHANGED newRecords /\ newRecords \in Seq(Record)
        /\ (newRecords # <<>> => time - Head(newRecords).time < MaxDelay)
    BY <1>1 DEF Tick, IdsTypeOK
  <2>2. MaxDelay \in Nat
    BY LimitsAssumption
  <2>3. ASSUME NEW i \in DOMAIN newRecords
        PROVE  newRecords[i].time <= time + 1 /\ (time + 1) - newRecords[i].time <= MaxDelay
    <3>1. newRecords # <<>> /\ 1 \in DOMAIN newRecords /\ 1 <= i
          /\ Head(newRecords) = newRecords[1]
      BY <2>1
    <3>2. newRecords[1].time <= newRecords[i].time /\ newRecords[i].time <= time
      BY <3>1 DEF Arrived
    <3>3. newRecords[1].time \in Nat /\ newRecords[i].time \in Nat /\ time \in Nat
      BY <3>1, Fields
    <3>4. time - newRecords[1].time < MaxDelay
      BY <2>1, <3>1
    <3> QED
      BY <2>2, <3>2, <3>3, <3>4
  <2> QED
    BY <2>1, <2>3 DEF Arrived
<1>2. CASE CollectIgnored \/ CollectTracked \/ CollectNew
  <2>1. UNCHANGED time
    BY <1>2, CollectTakes DEF Collect
  <2>2. \A j \in DOMAIN newRecords' :
           j + 1 \in DOMAIN newRecords /\ newRecords'[j] = newRecords[j + 1]
    BY <1>2, CollectTakes, Taken
  <2>3. \A i, j \in DOMAIN newRecords' : i <= j => i + 1 <= j + 1
    <3>1. newRecords' \in Seq(Record)
      BY <1>2, CollectTakes, CollectIs
    <3> QED
      BY <3>1
  <2> QED
    BY <2>1, <2>2, <2>3 DEF Arrived
<1>3. ASSUME NEW a \in Addrs, Receive(a) PROVE Arrived'
  <2>1. /\ Len(newRecords) \in Nat /\ DOMAIN newRecords = 1 .. Len(newRecords)
        /\ DOMAIN newRecords' = 1 .. Len(newRecords) + 1
        /\ \A j \in DOMAIN newRecords' :
              \/ j \in DOMAIN newRecords /\ newRecords'[j] = newRecords[j]
              \/ j = Len(newRecords) + 1 /\ newRecords'[j].time = time
    BY <1>3, Received
  <2>2. time' = time /\ time \in Nat /\ MaxDelay \in Nat
    BY <1>3, LimitsAssumption DEF Receive, IdsTypeOK
  <2>3. \A i \in DOMAIN newRecords' :
           newRecords'[i].time <= time /\ time - newRecords'[i].time <= MaxDelay
    BY <2>1, <2>2 DEF Arrived
  <2>4. ASSUME NEW i \in DOMAIN newRecords', NEW j \in DOMAIN newRecords', i <= j
        PROVE  newRecords'[i].time <= newRecords'[j].time
    <3>1. CASE j \in DOMAIN newRecords
      <4>1. i \in DOMAIN newRecords /\ i # Len(newRecords) + 1 /\ j # Len(newRecords) + 1
        BY <2>1, <2>4, <3>1
      <4> QED
        BY <2>1, <2>4, <3>1, <4>1 DEF Arrived
    <3>2. CASE j = Len(newRecords) + 1
      <4>1. newRecords'[j].time = time
        BY <2>1, <3>2
      <4> QED
        BY <2>3, <4>1
    <3> QED
      BY <2>1, <3>1, <3>2
  <2> QED
    BY <2>2, <2>3, <2>4 DEF Arrived
<1>4. CASE UNCHANGED <<time, newRecords>>
  BY <1>4 DEF Arrived
<1>5. CASE \/ RemoveRecords \/ RemoveIntrusion \/ RecognizeIntrusions
           \/ (\E a \in Many : CollectRecords(a)) \/ ExecuteSql \/ ExecuteFails \/ UNCHANGED vars
  BY <1>4, <1>5
     DEF RemoveRecords, RemoveIntrusion, RecognizeIntrusions, CollectRecords,
         ExecuteSql, ExecuteFails, Detector, vars
<1> QED
  BY <1>1, <1>2, <1>3, <1>5 DEF IdsNext, Detect

\* What is collected stays in order, before what is received.
LEMMA CollectedStep ==
    ASSUME IdsTypeOK, Arrived, Collected, [IdsNext]_vars
    PROVE  Collected'
<1> USE DEF loop, database, history
<1>1. CASE Tick
  <2>1. time' = time + 1 /\ UNCHANGED <<newRecords, records>>
    BY <1>1 DEF Tick
  <2>2. \A i \in DOMAIN records : records[i].time <= time + 1
    BY Fields DEF Collected
  <2> QED
    BY <2>1, <2>2 DEF Collected
<1>2. CASE RemoveRecords
  <2> DEFINE n == Cardinality(OldRecords)
  <2>1. UNCHANGED <<time, newRecords>>
    BY <1>2 DEF RemoveRecords
  <2>2. n \in Nat /\ \A i \in DOMAIN records' :
                        i + n \in DOMAIN records /\ records'[i] = records[i + n]
    BY <1>2, Shortened
  <2> HIDE DEF n
  <2>3. \A i, j \in DOMAIN records' : i <= j => i + n <= j + n
    <3>1. records' \in Seq(Record)
      BY <1>2, IdsTypeStep DEF IdsTypeOK, IdsNext, Detect
    <3> QED
      BY <2>2, <3>1
  <2> QED
    BY <2>1, <2>2, <2>3 DEF Collected
<1>3. CASE CollectIgnored \/ CollectTracked
  <2>1. UNCHANGED <<time, records>>
    BY <1>3 DEF CollectIgnored, CollectTracked, Collect
  <2>2. \A j \in DOMAIN newRecords' :
           j + 1 \in DOMAIN newRecords /\ newRecords'[j] = newRecords[j + 1]
    BY <1>3, CollectTakes, Taken
  <2> QED
    BY <2>1, <2>2 DEF Collected
<1>4. CASE CollectNew
  <2>1. UNCHANGED time
    BY <1>4 DEF CollectNew, Collect
  <2>2. /\ 1 \in DOMAIN newRecords
        /\ \A j \in DOMAIN newRecords' :
              /\ j + 1 \in DOMAIN newRecords /\ newRecords'[j] = newRecords[j + 1]
              /\ 1 <= j + 1
    BY <1>4, CollectTakes, Taken
  <2>3. /\ Len(records) \in Nat /\ DOMAIN records' = 1 .. Len(records) + 1
        /\ \A i \in DOMAIN records' :
              \/ i \in DOMAIN records /\ records'[i] = records[i]
              \/ i = Len(records) + 1 /\ records'[i] = newRecords[1]
    BY <1>4, NewIs
  <2>4. DOMAIN records = 1 .. Len(records)
    BY DEF IdsTypeOK
  <2>5. \A i \in DOMAIN records' :
           /\ records'[i].time <= time
           /\ records'[i].time <= newRecords[1].time
           /\ \A j \in DOMAIN newRecords' : records'[i].time <= newRecords'[j].time
    <3> TAKE i \in DOMAIN records'
    <3>1. CASE i \in DOMAIN records /\ records'[i] = records[i]
      BY <2>2, <3>1 DEF Collected
    <3>2. CASE records'[i] = newRecords[1]
      <4>1. newRecords[1].time <= newRecords[1].time
        BY <2>2 DEF Arrived
      <4> QED
        BY <2>2, <3>2, <4>1 DEF Arrived
    <3> QED
      BY <2>3, <3>1, <3>2
  <2>6. ASSUME NEW i \in DOMAIN records', NEW j \in DOMAIN records', i <= j
        PROVE  records'[i].time <= records'[j].time
    <3>1. CASE j = Len(records) + 1
      <4>1. j \notin DOMAIN records
        BY <2>3, <2>4, <3>1
      <4>2. records'[j] = newRecords[1]
        BY <2>3, <4>1
      <4> QED
        BY <2>5, <4>2
    <3>2. CASE j # Len(records) + 1
      <4>1. i # Len(records) + 1 /\ i \in Nat /\ j \in Nat
        BY <2>3, <2>6, <3>2
      <4>2. /\ i \in DOMAIN records /\ records'[i] = records[i]
            /\ j \in DOMAIN records /\ records'[j] = records[j]
        BY <2>3, <3>2, <4>1
      <4> QED
        BY <2>6, <4>2 DEF Collected
    <3> QED
      BY <3>1, <3>2
  <2> QED
    BY <2>1, <2>5, <2>6 DEF Collected
<1>5. ASSUME NEW a \in Many, CollectRecords(a) PROVE Collected'
  <2>1. UNCHANGED <<time, newRecords>>
    BY <1>5 DEF CollectRecords
  <2>2. /\ \A n \in DOMAIN records' : \E k \in DOMAIN records : records'[n] = records[k]
        /\ \A n, m \in DOMAIN records' : n <= m =>
              \E k, l \in DOMAIN records :
                 k <= l /\ records'[n] = records[k] /\ records'[m] = records[l]
    BY <1>5, Recognized
  <2>3. \A n, m \in DOMAIN records' : n <= m => records'[n].time <= records'[m].time
    BY <2>2 DEF Collected
  <2>4. \A n \in DOMAIN records' :
           /\ records'[n].time <= time
           /\ \A j \in DOMAIN newRecords : records'[n].time <= newRecords[j].time
    BY <2>2 DEF Collected
  <2> QED
    BY <2>1, <2>3, <2>4 DEF Collected
<1>6. ASSUME NEW a \in Addrs, Receive(a) PROVE Collected'
  <2>1. UNCHANGED <<time, records>>
    BY <1>6 DEF Receive
  <2>2. \A j \in DOMAIN newRecords' :
           \/ j \in DOMAIN newRecords /\ newRecords'[j] = newRecords[j]
           \/ newRecords'[j].time = time
    BY <1>6, Received
  <2> QED
    BY <2>1, <2>2 DEF Collected
<1>7. CASE UNCHANGED <<time, newRecords, records>>
  BY <1>7 DEF Collected
<1>8. CASE \/ RemoveIntrusion \/ RecognizeIntrusions
           \/ ExecuteSql \/ ExecuteFails \/ UNCHANGED vars
  BY <1>7, <1>8
     DEF RemoveIntrusion, RecognizeIntrusions, ExecuteSql, ExecuteFails, Detector, vars
<1> QED
  BY <1>1, <1>2, <1>3, <1>4, <1>5, <1>6, <1>8 DEF IdsNext, Detect

\* What an intrusion has got is not after what is received.
LEMMA TrackedStep ==
    ASSUME IdsTypeOK, Arrived, Collected, Tracked, [IdsNext]_vars
    PROVE  Tracked'
<1> USE DEF loop, database, history
<1>1. CASE Tick
  <2>1. time' = time + 1 /\ UNCHANGED <<newRecords, intrusions>>
    BY <1>1 DEF Tick
  <2>2. \A i \in DOMAIN intrusions : intrusions[i].stop <= time + 1
    BY Fields DEF Tracked
  <2> QED
    BY <2>1, <2>2 DEF Tracked
<1>2. CASE RemoveIntrusion
  <2>1. UNCHANGED <<time, newRecords>>
    BY <1>2 DEF RemoveIntrusion
  <2>2. CASE Gone(intrusions[index])
    <3>1. \A k \in DOMAIN intrusions' :
             /\ Skip(k, index) \in DOMAIN intrusions
             /\ intrusions'[k] = intrusions[Skip(k, index)]
      BY <1>2, <2>2, Forgotten
    <3> QED
      BY <2>1, <3>1 DEF Tracked
  <2>3. CASE ~ Gone(intrusions[index])
    <3>1. /\ index \in DOMAIN intrusions /\ intrusions[index] \in Intrusion
          /\ DOMAIN intrusions' = DOMAIN intrusions
          /\ \A k \in DOMAIN intrusions :
                intrusions'[k] = IF k = index THEN Saved(intrusions[index]) ELSE intrusions[k]
      BY <1>2, <2>3, Kept
    <3>2. \A k \in DOMAIN intrusions :
             intrusions'[k].start = intrusions[k].start /\ intrusions'[k].stop = intrusions[k].stop
      BY <3>1, SavedType
    <3> QED
      BY <2>1, <3>1, <3>2 DEF Tracked
  <2> QED
    BY <2>2, <2>3
<1>3. CASE CollectIgnored \/ CollectNew
  <2>1. UNCHANGED <<time, intrusions>>
    BY <1>3 DEF CollectIgnored, CollectNew, Collect
  <2>2. \A j \in DOMAIN newRecords' :
           j + 1 \in DOMAIN newRecords /\ newRecords'[j] = newRecords[j + 1]
    BY <1>3, CollectTakes, Taken
  <2> QED
    BY <2>1, <2>2 DEF Tracked
<1>4. CASE CollectTracked
  <2>1. UNCHANGED time
    BY <1>4 DEF CollectTracked, Collect
  <2>2. /\ 1 \in DOMAIN newRecords
        /\ \A j \in DOMAIN newRecords' :
              /\ j + 1 \in DOMAIN newRecords /\ newRecords'[j] = newRecords[j + 1]
              /\ 1 <= j + 1
    BY <1>4, CollectTakes, Taken
  <2>3. PICK i \in DOMAIN intrusions :
           /\ newRecords[1] \in Record /\ intrusions[i] \in Intrusion
           /\ DOMAIN intrusions' = DOMAIN intrusions
           /\ \A k \in DOMAIN intrusions :
                 intrusions'[k] = IF k = i THEN Added(intrusions[i], newRecords[1])
                                  ELSE intrusions[k]
    BY <1>4, TrackedIs
  <2>4. ASSUME NEW k \in DOMAIN intrusions
        PROVE  /\ intrusions'[k].start <= intrusions'[k].stop /\ intrusions'[k].stop <= time
               /\ \A j \in DOMAIN newRecords' : intrusions'[k].stop <= newRecords'[j].time
    <3>1. CASE k # i
      BY <2>2, <2>3, <3>1 DEF Tracked
    <3>2. CASE k = i
      <4>1. intrusions'[k].start = intrusions[i].start
            /\ intrusions'[k].stop = newRecords[1].time
        BY <2>3, <3>2, AddedType
      <4>2. intrusions[i].start <= intrusions[i].stop
            /\ intrusions[i].stop <= newRecords[1].time
        BY <2>2, <2>3 DEF Tracked
      <4>3. /\ intrusions[i].start \in Nat /\ intrusions[i].stop \in Nat
            /\ newRecords[1].time \in Nat
        BY <2>2, Fields
      <4>4. intrusions[i].start <= newRecords[1].time
        BY <4>2, <4>3
      <4>5. newRecords[1].time <= time
            /\ \A j \in DOMAIN newRecords' : newRecords[1].time <= newRecords'[j].time
        BY <2>2 DEF Arrived
      <4> QED
        BY <4>1, <4>4, <4>5
    <3> QED
      BY <3>1, <3>2
  <2> QED
    BY <2>1, <2>3, <2>4 DEF Tracked
<1>5. ASSUME NEW a \in Many, CollectRecords(a) PROVE Tracked'
  <2>1. UNCHANGED <<time, newRecords>>
    BY <1>5 DEF CollectRecords
  <2>2. \A i \in DOMAIN intrusions' :
           \/ i \in DOMAIN intrusions /\ intrusions'[i] = intrusions[i]
           \/ intrusions'[i] = Found(a)
    BY <1>5, Recognized
  <2>3. PICK i, j \in Packets(a) :
           /\ i <= j
           /\ Found(a) = [srcAddr |-> a, start |-> records[i].time, stop |-> records[j].time,
                          n |-> CountIn(records, a), inserted |-> FALSE, updated |-> FALSE]
    BY FoundIs
  <2>4. i \in DOMAIN records /\ j \in DOMAIN records
    BY DEF Packets
  <2>5. Found(a).start = records[i].time /\ Found(a).stop = records[j].time
    BY <2>3
  <2>6. /\ Found(a).start <= Found(a).stop /\ Found(a).stop <= time
        /\ \A k \in DOMAIN newRecords : Found(a).stop <= newRecords[k].time
    BY <2>3, <2>4, <2>5 DEF Collected
  <2> QED
    BY <2>1, <2>2, <2>6 DEF Tracked
<1>6. ASSUME NEW a \in Addrs, Receive(a) PROVE Tracked'
  <2>1. UNCHANGED <<time, intrusions>>
    BY <1>6 DEF Receive
  <2>2. \A j \in DOMAIN newRecords' :
           \/ j \in DOMAIN newRecords /\ newRecords'[j] = newRecords[j]
           \/ newRecords'[j].time = time
    BY <1>6, Received
  <2> QED
    BY <2>1, <2>2 DEF Tracked
<1>7. CASE UNCHANGED <<time, newRecords, intrusions>>
  BY <1>7 DEF Tracked
<1>8. CASE \/ RemoveRecords \/ RecognizeIntrusions
           \/ ExecuteSql \/ ExecuteFails \/ UNCHANGED vars
  BY <1>7, <1>8
     DEF RemoveRecords, RecognizeIntrusions, ExecuteSql, ExecuteFails, Detector, vars
<1> QED
  BY <1>1, <1>2, <1>3, <1>4, <1>5, <1>6, <1>8 DEF IdsNext, Detect

\* An intrusion was over before a time,
OverBefore(ri) ==
    /\ ri.start <= ri.stop
    /\ \/ ri.srcAddr \in srcAddrWhiteList
       \/ /\ ri.stop < time
          /\ \A j \in DOMAIN newRecords :
                newRecords[j].srcAddr = ri.srcAddr => ri.stop < newRecords[j].time
    /\ \A j \in DOMAIN records : records[j].srcAddr = ri.srcAddr => ri.stop < records[j].time
    /\ \A i \in DOMAIN intrusions :
          intrusions[i].srcAddr = ri.srcAddr => ri.stop < intrusions[i].start

\* and is one of its kind.
Alone(ri) ==
    \A pi \in past : pi.srcAddr = ri.srcAddr /\ pi.start = ri.start => pi = ri

\* Both together are the invariant.
LEMMA OverIs == Over <=> \A ri \in past : OverBefore(ri) /\ Alone(ri)
BY DEF Over, OverBefore, Alone

\* Where no intrusion is forgotten, only the times matter.
LEMMA OverSame ==
    ASSUME Over, past' = past, \A ri \in past : OverBefore(ri) => OverBefore(ri)'
    PROVE  Over'
<1>1. \A ri \in past : OverBefore(ri) /\ Alone(ri)
  BY OverIs
<1>2. \A ri \in past : Alone(ri)'
  BY <1>1 DEF Alone
<1>3. \A ri \in past' : OverBefore(ri)' /\ Alone(ri)'
  BY <1>1, <1>2
<1> QED
  BY <1>3 DEF Over, OverBefore, Alone

\* No forgotten intrusion is taken for one in memory.
LEMMA NewStart ==
    ASSUME IdsTypeOK, Over, NEW i \in DOMAIN intrusions, NEW ri \in past
    PROVE  ri.srcAddr # intrusions[i].srcAddr \/ ri.start # intrusions[i].start
<1>1. ri.start <= ri.stop
      /\ (ri.srcAddr = intrusions[i].srcAddr => ri.stop < intrusions[i].start)
  BY DEF Over
<1>2. ri.start \in Nat /\ ri.stop \in Nat /\ intrusions[i].start \in Nat
  BY Fields
<1> QED
  BY <1>1, <1>2

\* The intrusion that is forgotten is over.
LEMMA ForgottenOver ==
    ASSUME IdsTypeOK, Placed, Arrived, Tracked,
           RemoveIntrusion, Gone(intrusions[index]), NEW ri, ri = Saved(intrusions[index])
    PROVE  OverBefore(ri)'
<1>1. /\ index \in DOMAIN intrusions /\ intrusions[index] \in Intrusion
      /\ \A k \in DOMAIN intrusions' :
            /\ Skip(k, index) \in DOMAIN intrusions /\ Skip(k, index) # index
            /\ intrusions'[k] = intrusions[Skip(k, index)]
  BY Forgotten
<1>2. ri.srcAddr = intrusions[index].srcAddr /\ ri.start = intrusions[index].start
      /\ ri.stop = intrusions[index].stop
  BY <1>1, SavedType
<1>3. /\ UNCHANGED <<time, newRecords, records>>
      /\ srcAddrWhiteList' = srcAddrWhiteList
            \cup (IF UsedUp(intrusions[index]) THEN {ri.srcAddr} ELSE {})
  BY <1>2 DEF RemoveIntrusion
<1>4. ri.start <= ri.stop
  BY <1>1, <1>2 DEF Tracked
<1>5. ASSUME TimedOut(intrusions[index])
      PROVE  ri.stop < time /\ \A j \in DOMAIN newRecords : ri.stop < newRecords[j].time
  <2>1. removeTime - ri.stop > MEMORY_TIMEOUT /\ ri.stop \in Nat
    BY <1>1, <1>2, <1>5, Fields DEF TimedOut
  <2>2. removeTime \in Nat /\ removeTime <= time /\ time \in Nat
    BY DEF IdsTypeOK
  <2>3. MEMORY_TIMEOUT \in Nat /\ MaxDelay \in Nat /\ MaxDelay <= MEMORY_TIMEOUT
    BY LimitsAssumption
  <2>4. ri.stop < time
    BY <2>1, <2>2, <2>3
  <2>5. ASSUME NEW j \in DOMAIN newRecords PROVE ri.stop < newRecords[j].time
    <3>1. newRecords[j].time \in Nat /\ time - newRecords[j].time <= MaxDelay
      BY Fields DEF Arrived
    <3> QED
      BY <2>1, <2>2, <2>3, <3>1
  <2> QED
    BY <2>4, <2>5
<1>6. \/ ri.srcAddr \in srcAddrWhiteList'
      \/ /\ ri.stop < time
         /\ \A j \in DOMAIN newRecords : ri.stop < newRecords[j].time
  BY <1>3, <1>5 DEF Gone
<1>7. \A j \in DOMAIN records : records[j].srcAddr # ri.srcAddr
  BY <1>1, <1>2 DEF Placed
<1>8. \A k \in DOMAIN intrusions' : intrusions'[k].srcAddr # ri.srcAddr
  BY <1>1, <1>2 DEF Placed
<1> QED
  BY <1>3, <1>4, <1>6, <1>7, <1>8 DEF OverBefore

\* Every step keeps forgotten intrusions before those that come.
LEMMA OverStep ==
    ASSUME IdsTypeOK, Placed, Arrived, Collected, Tracked, Over, [IdsNext]_vars
    PROVE  Over'
<1> USE DEF loop, database, history
<1>0. \A ri \in past : ri.start \in Nat /\ ri.stop \in Nat
  BY Fields
<1>1. CASE Tick
  <2>1. time' = time + 1 /\ UNCHANGED <<newRecords, records, intrusions, srcAddrWhiteList, past>>
        /\ time \in Nat
    BY <1>1 DEF Tick, IdsTypeOK
  <2>2. \A ri \in past : ri.stop < time => ri.stop < time + 1
    BY <1>0, <2>1
  <2>3. \A ri \in past : OverBefore(ri) => OverBefore(ri)'
    BY <2>1, <2>2 DEF OverBefore
  <2> QED
    BY <2>1, <2>3, OverSame
<1>2. CASE RemoveRecords
  <2>1. UNCHANGED <<time, newRecords, intrusions, srcAddrWhiteList, past>>
    BY <1>2 DEF RemoveRecords
  <2>2. \A j \in DOMAIN records' : \E k \in DOMAIN records : records'[j] = records[k]
    BY <1>2, Shortened
  <2>3. \A ri \in past : OverBefore(ri) => OverBefore(ri)'
    BY <2>1, <2>2 DEF OverBefore
  <2> QED
    BY <2>1, <2>3, OverSame
<1>3. CASE RemoveIntrusion
  <2>1. UNCHANGED <<time, newRecords, records>> /\ srcAddrWhiteList \subseteq srcAddrWhiteList'
    BY <1>3 DEF RemoveIntrusion
  <2>2. CASE Gone(intrusions[index])
    <3> DEFINE si == Saved(intrusions[index])
    <3>1. /\ index \in DOMAIN intrusions /\ intrusions[index] \in Intrusion
          /\ \A k \in DOMAIN intrusions' :
                /\ Skip(k, index) \in DOMAIN intrusions
                /\ intrusions'[k] = intrusions[Skip(k, index)]
          /\ past' = past \cup {si}
      BY <1>3, <2>2, Forgotten
    <3>2. si.srcAddr = intrusions[index].srcAddr /\ si.start = intrusions[index].start
      BY <3>1, SavedType
    <3> HIDE DEF si
    <3>3. ASSUME NEW ri \in past PROVE OverBefore(ri)'
      <4>1. OverBefore(ri)
        BY OverIs
      <4> QED
        BY <2>1, <3>1, <4>1 DEF OverBefore
    <3>4. ASSUME NEW ri, ri = si PROVE OverBefore(ri)'
      BY <1>3, <2>2, <3>4, ForgottenOver DEF si
    <3>5. \A ri \in past : si.srcAddr # ri.srcAddr \/ si.start # ri.start
      BY <3>1, <3>2, NewStart
    <3>6. \A ri, pi \in past' : pi.srcAddr = ri.srcAddr /\ pi.start = ri.start => pi = ri
      BY <3>1, <3>5 DEF Over
    <3>7. \A ri \in past' : OverBefore(ri)'
      <4> TAKE ri \in past'
      <4>1. ri \in past \/ ri = si
        BY <3>1
      <4> QED
        BY <3>3, <3>4, <4>1
    <3> QED
      BY <3>6, <3>7 DEF Over, OverBefore
  <2>3. CASE ~ Gone(intrusions[index])
    <3>1. /\ index \in DOMAIN intrusions /\ intrusions[index] \in Intrusion
          /\ DOMAIN intrusions' = DOMAIN intrusions
          /\ \A k \in DOMAIN intrusions :
                intrusions'[k] = IF k = index THEN Saved(intrusions[index]) ELSE intrusions[k]
          /\ past' = past /\ srcAddrWhiteList' = srcAddrWhiteList
      BY <1>3, <2>3, Kept
    <3>2. \A k \in DOMAIN intrusions :
             /\ intrusions'[k].srcAddr = intrusions[k].srcAddr
             /\ intrusions'[k].start = intrusions[k].start
      BY <3>1, SavedType
    <3>3. \A ri \in past : OverBefore(ri) => OverBefore(ri)'
      BY <2>1, <3>1, <3>2 DEF OverBefore
    <3> QED
      BY <3>1, <3>3, OverSame
  <2> QED
    BY <2>2, <2>3
<1>4. CASE CollectIgnored
  <2>1. UNCHANGED <<time, records, intrusions, srcAddrWhiteList, past>>
    BY <1>4 DEF CollectIgnored, Collect
  <2>2. \A j \in DOMAIN newRecords' :
           j + 1 \in DOMAIN newRecords /\ newRecords'[j] = newRecords[j + 1]
    BY <1>4, CollectTakes, Taken
  <2>3. \A ri \in past : OverBefore(ri) => OverBefore(ri)'
    BY <2>1, <2>2 DEF OverBefore
  <2> QED
    BY <2>1, <2>3, OverSame
<1>5. CASE CollectTracked
  <2>1. UNCHANGED <<time, records, srcAddrWhiteList, past>>
    BY <1>5 DEF CollectTracked, Collect, Keep
  <2>2. \A j \in DOMAIN newRecords' :
           j + 1 \in DOMAIN newRecords /\ newRecords'[j] = newRecords[j + 1]
    BY <1>5, CollectTakes, Taken
  <2>3. PICK i \in DOMAIN intrusions :
           /\ newRecords[1] \in Record /\ intrusions[i] \in Intrusion
           /\ DOMAIN intrusions' = DOMAIN intrusions
           /\ \A k \in DOMAIN intrusions :
                 intrusions'[k] = IF k = i THEN Added(intrusions[i], newRecords[1])
                                  ELSE intrusions[k]
    BY <1>5, TrackedIs
  <2>4. \A k \in DOMAIN intrusions :
           /\ intrusions'[k].srcAddr = intrusions[k].srcAddr
           /\ intrusions'[k].start = intrusions[k].start
    BY <2>3, AddedType
  <2>5. \A ri \in past : OverBefore(ri) => OverBefore(ri)'
    BY <2>1, <2>2, <2>3, <2>4 DEF OverBefore
  <2> QED
    BY <2>1, <2>5, OverSame
<1>6. CASE CollectNew
  <2>1. UNCHANGED <<time, intrusions, srcAddrWhiteList, past>>
    BY <1>6 DEF CollectNew, Collect, Keep
  <2>2. /\ 1 \in DOMAIN newRecords
        /\ \A j \in DOMAIN newRecords' :
              j + 1 \in DOMAIN newRecords /\ newRecords'[j] = newRecords[j + 1]
    BY <1>6, CollectTakes, Taken
  <2>3. /\ newRecords[1].srcAddr \notin srcAddrWhiteList
        /\ \A i \in DOMAIN records' :
              \/ i \in DOMAIN records /\ records'[i] = records[i]
              \/ records'[i] = newRecords[1]
    BY <1>6, NewIs
  <2>4. \A ri \in past : OverBefore(ri) => OverBefore(ri)'
    BY <2>1, <2>2, <2>3 DEF OverBefore
  <2> QED
    BY <2>1, <2>4, OverSame
<1>7. ASSUME NEW a \in Many, CollectRecords(a) PROVE Over'
  <2>1. UNCHANGED <<time, newRecords, srcAddrWhiteList, past>>
    BY <1>7 DEF CollectRecords
  <2>2. \A n \in DOMAIN records' : \E k \in DOMAIN records : records'[n] = records[k]
    BY <1>7, Recognized
  <2>3. \A i \in DOMAIN intrusions' :
           \/ i \in DOMAIN intrusions /\ intrusions'[i] = intrusions[i]
           \/ intrusions'[i] = Found(a)
    BY <1>7, Recognized
  <2>4. PICK k \in DOMAIN records :
           records[k].srcAddr = a /\ Found(a).srcAddr = a /\ Found(a).start = records[k].time
    <3>1. PICK i, j \in Packets(a) :
             Found(a) = [srcAddr |-> a, start |-> records[i].time, stop |-> records[j].time,
                         n |-> CountIn(records, a), inserted |-> FALSE, updated |-> FALSE]
      BY FoundIs
    <3> QED
      BY <3>1 DEF Packets
  <2>5. \A ri \in past : OverBefore(ri) => OverBefore(ri)'
    BY <2>1, <2>2, <2>3, <2>4 DEF OverBefore
  <2> QED
    BY <2>1, <2>5, OverSame
<1>8. ASSUME NEW a \in Addrs, Receive(a) PROVE Over'
  <2>1. UNCHANGED <<time, records, intrusions, srcAddrWhiteList, past>>
    BY <1>8 DEF Receive
  <2>2. \A j \in DOMAIN newRecords' :
           \/ j \in DOMAIN newRecords /\ newRecords'[j] = newRecords[j]
           \/ newRecords'[j].time = time
    BY <1>8, Received
  <2>3. \A ri \in past : OverBefore(ri) => OverBefore(ri)'
    BY <2>1, <2>2 DEF OverBefore
  <2> QED
    BY <2>1, <2>3, OverSame
<1>9. CASE UNCHANGED <<time, newRecords, records, intrusions, srcAddrWhiteList, past>>
  <2>1. \A ri \in past : OverBefore(ri) => OverBefore(ri)'
    BY <1>9 DEF OverBefore
  <2> QED
    BY <1>9, <2>1, OverSame
<1>10. CASE RecognizeIntrusions \/ ExecuteSql \/ ExecuteFails \/ UNCHANGED vars
  BY <1>9, <1>10 DEF RecognizeIntrusions, ExecuteSql, ExecuteFails, Detector, vars
<1> QED
  BY <1>1, <1>2, <1>3, <1>4, <1>5, <1>6, <1>7, <1>8, <1>10 DEF IdsNext, Detect

-----------------------------------------------------------------------------
(* The database *)

\* What becomes of the intrusions when one of them is saved.
LEMMA SavedOrOther ==
    ASSUME IdsTypeOK, RemoveIntrusion
    PROVE  /\ index \in DOMAIN intrusions /\ intrusions[index] \in Intrusion
           /\ \A k \in DOMAIN intrusions' :
                 \/ intrusions'[k] = Saved(intrusions[index])
                 \/ \E m \in DOMAIN intrusions : m # index /\ intrusions'[k] = intrusions[m]
           /\ \A m \in DOMAIN intrusions :
                 m # index => \E k \in DOMAIN intrusions' : intrusions'[k] = intrusions[m]
           /\ \/ Saved(intrusions[index]) \in past'
              \/ \E k \in DOMAIN intrusions' : intrusions'[k] = Saved(intrusions[index])
           /\ past \subseteq past' /\ past' \subseteq past \cup {Saved(intrusions[index])}
<1>1. CASE Gone(intrusions[index])
  <2>1. /\ index \in DOMAIN intrusions /\ intrusions[index] \in Intrusion
        /\ \A k \in DOMAIN intrusions' :
              /\ Skip(k, index) \in DOMAIN intrusions /\ Skip(k, index) # index
              /\ intrusions'[k] = intrusions[Skip(k, index)]
        /\ \A m \in DOMAIN intrusions :
              m # index => \E k \in DOMAIN intrusions' : Skip(k, index) = m
        /\ past' = past \cup {Saved(intrusions[index])}
    BY <1>1, Forgotten
  <2> QED
    BY <2>1
<1>2. CASE ~ Gone(intrusions[index])
  <2>1. /\ index \in DOMAIN intrusions /\ intrusions[index] \in Intrusion
        /\ DOMAIN intrusions' = DOMAIN intrusions
        /\ \A k \in DOMAIN intrusions :
              intrusions'[k] = IF k = index THEN Saved(intrusions[index]) ELSE intrusions[k]
        /\ past' = past
    BY <1>2, Kept
  <2> QED
    BY <2>1
<1> QED
  BY <1>1, <1>2

\* What is known stays known.
LEMMA KnownStep ==
    ASSUME IdsTypeOK, [IdsNext]_vars, NEW a, NEW start, Known(a, start)
    PROVE  Known(a, start)'
<1> USE DEF loop, database, history
<1>1. CASE RemoveIntrusion
  <2> DEFINE si == Saved(intrusions[index])
  <2>1. /\ index \in DOMAIN intrusions /\ intrusions[index] \in Intrusion
        /\ \A m \in DOMAIN intrusions :
              m # index => \E k \in DOMAIN intrusions' : intrusions'[k] = intrusions[m]
        /\ si \in past' \/ \E k \in DOMAIN intrusions' : intrusions'[k] = si
        /\ past \subseteq past'
    BY <1>1, SavedOrOther
  <2>2. /\ si.srcAddr = intrusions[index].srcAddr /\ si.start = intrusions[index].start
        /\ si.inserted
    BY <2>1, SavedType
  <2> HIDE DEF si
  <2>3. CASE \E ri \in past : ri.srcAddr = a /\ ri.start = start
    BY <2>1, <2>3 DEF Known
  <2>4. ASSUME NEW i \in DOMAIN intrusions,
               intrusions[i].inserted, intrusions[i].srcAddr = a, intrusions[i].start = start
        PROVE  Known(a, start)'
    <3>1. CASE i = index
      BY <2>1, <2>2, <2>4, <3>1 DEF Known
    <3>2. CASE i # index
      <4>1. PICK k \in DOMAIN intrusions' : intrusions'[k] = intrusions[i]
        BY <2>1, <3>2
      <4> QED
        BY <2>4, <4>1 DEF Known
    <3> QED
      BY <3>1, <3>2
  <2> QED
    BY <2>3, <2>4 DEF Known
<1>2. CASE CollectTracked
  <2>1. UNCHANGED past
    BY <1>2 DEF CollectTracked, Collect
  <2>2. PICK i \in DOMAIN intrusions :
           /\ newRecords[1] \in Record /\ intrusions[i] \in Intrusion
           /\ DOMAIN intrusions' = DOMAIN intrusions
           /\ \A k \in DOMAIN intrusions :
                 intrusions'[k] = IF k = i THEN Added(intrusions[i], newRecords[1])
                                  ELSE intrusions[k]
    BY <1>2, TrackedIs
  <2>3. \A k \in DOMAIN intrusions :
           /\ intrusions'[k].srcAddr = intrusions[k].srcAddr
           /\ intrusions'[k].start = intrusions[k].start
           /\ intrusions[k].inserted => intrusions'[k].inserted
    BY <2>2, AddedType
  <2> QED
    BY <2>1, <2>2, <2>3 DEF Known
<1>3. ASSUME NEW b \in Many, CollectRecords(b) PROVE Known(a, start)'
  <2>1. UNCHANGED past
    BY <1>3 DEF CollectRecords
  <2>2. intrusions \in Seq(Intrusion) /\ intrusions' = Append(intrusions, Found(b))
    BY <1>3 DEF IdsTypeOK, CollectRecords
  <2>3. \A i \in DOMAIN intrusions : i \in DOMAIN intrusions' /\ intrusions'[i] = intrusions[i]
    BY <2>2
  <2> QED
    BY <2>1, <2>3 DEF Known
<1>4. CASE UNCHANGED <<intrusions, past>>
  BY <1>4 DEF Known
<1>5. CASE \/ Tick \/ RemoveRecords \/ CollectIgnored \/ CollectNew \/ RecognizeIntrusions
           \/ ExecuteSql \/ ExecuteFails \/ (\E b \in Addrs : Receive(b)) \/ UNCHANGED vars
  BY <1>4, <1>5
     DEF Tick, RemoveRecords, CollectIgnored, CollectNew, Collect, RecognizeIntrusions,
         ExecuteSql, ExecuteFails, Detector, Receive, vars
<1> QED
  BY <1>1, <1>2, <1>3, <1>5 DEF IdsNext, Detect

\* A statement makes rows for its own intrusion only.
LEMMA ExecutedRows ==
    ASSUME NEW table \in Seq(Row), NEW s \in Statement, NEW i \in DOMAIN Executed(table, s)
    PROVE  \/ /\ s.op = "INSERT" /\ Executed(table, s)[i].srcAddr = s.srcAddr
              /\ Executed(table, s)[i].start = s.start
           \/ \E j \in DOMAIN table :
                 /\ Executed(table, s)[i].srcAddr = table[j].srcAddr
                 /\ Executed(table, s)[i].start = table[j].start
<1> DEFINE new == Executed(table, s)
<1>0. s.op \in {"INSERT", "UPDATE", "CAPTURE"}
  BY DEF Statement
<1>1. CASE s.op = "INSERT"
  <2> DEFINE row == [srcAddr |-> s.srcAddr, start |-> s.start, stop |-> s.stop, n |-> s.n]
  <2>1. new = Append(table, row) /\ row \in Row /\ row.srcAddr = s.srcAddr /\ row.start = s.start
    BY <1>1 DEF Executed, Statement, Row
  <2> HIDE DEF row, new
  <2>2. i \in DOMAIN new
    BY DEF new
  <2>3. new[i] = row \/ (i \in DOMAIN table /\ new[i] = table[i])
    BY <2>1, <2>2
  <2> QED
    BY <1>1, <2>1, <2>3 DEF new
<1>2. CASE s.op = "UPDATE"
  <2> DEFINE row(k) == IF Matches(table[k], s)
                       THEN [table[k] EXCEPT !.stop = s.stop, !.n = s.n]
                       ELSE table[k]
  <2>1. new = [k \in DOMAIN table |-> row(k)]
    BY <1>2 DEF Executed
  <2>2. i \in DOMAIN new
    OBVIOUS
  <2>3. i \in DOMAIN table /\ table[i] \in Row /\ new[i] = row(i)
    <3> HIDE DEF new, row
    <3> QED
      BY <2>1, <2>2
  <2> HIDE DEF new
  <2>4. new[i].srcAddr = table[i].srcAddr /\ new[i].start = table[i].start
    BY <2>3 DEF Row
  <2> QED
    BY <2>3, <2>4 DEF new
<1>3. CASE s.op = "CAPTURE"
  BY <1>3 DEF Executed
<1> QED
  BY <1>0, <1>1, <1>2, <1>3

\* The statements that are left when one is taken.
LEMMA QueueTail ==
    ASSUME IdsTypeOK, sqlQueue # <<>>, sqlQueue' = Tail(sqlQueue)
    PROVE  /\ Head(sqlQueue) \in Statement /\ Head(sqlQueue) = sqlQueue[1]
           /\ 1 \in DOMAIN sqlQueue
           /\ \A i \in DOMAIN sqlQueue' :
                 i + 1 \in DOMAIN sqlQueue /\ sqlQueue'[i] = sqlQueue[i + 1]
<1>1. sqlQueue \in Seq(Statement)
  BY DEF IdsTypeOK
<1>2. /\ Head(sqlQueue) \in Statement /\ Tail(sqlQueue) \in Seq(Statement)
      /\ Head(sqlQueue) = sqlQueue[1] /\ Len(Tail(sqlQueue)) = Len(sqlQueue) - 1
      /\ \A i \in 1 .. Len(Tail(sqlQueue)) : Tail(sqlQueue)[i] = sqlQueue[i + 1]
  BY <1>1, HeadTailProperties
<1>3. Len(sqlQueue) \in Nat /\ Len(sqlQueue) > 0 /\ DOMAIN sqlQueue = 1 .. Len(sqlQueue)
      /\ DOMAIN sqlQueue' = 1 .. Len(sqlQueue) - 1
  BY <1>1, <1>2
<1> QED
  BY <1>2, <1>3

\* What a row or an INSERT says.
Told(a, start) ==
    \/ \E i \in DOMAIN rows : rows[i].srcAddr = a /\ rows[i].start = start
    \/ \E i \in DOMAIN sqlQueue :
          sqlQueue[i].op = "INSERT" /\ sqlQueue[i].srcAddr = a /\ sqlQueue[i].start = start

\* The database has been told of known intrusions only,
LEMMA HeardIs == Heard => \A a, start : Told(a, start) => Known(a, start)
BY DEF Heard, Told

\* and it is enough to see that of the next state,
LEMMA HeardNext ==
    ASSUME \A a, start : Told(a, start)' => Known(a, start)'
    PROVE  Heard'
<1>1. ASSUME NEW i \in DOMAIN rows' PROVE Known(rows[i].srcAddr, rows[i].start)'
  BY <1>1 DEF Told, Known
<1>2. ASSUME NEW i \in DOMAIN sqlQueue', sqlQueue'[i].op = "INSERT"
      PROVE  Known(sqlQueue[i].srcAddr, sqlQueue[i].start)'
  BY <1>2 DEF Told, Known
<1> QED
  BY <1>1, <1>2 DEF Heard

\* where it is true after every step.
LEMMA HeardStep ==
    ASSUME IdsTypeOK, Heard, [IdsNext]_vars
    PROVE  Heard'
<1> USE DEF loop, database, history
<1>0. \A a, start : Told(a, start) \/ Known(a, start) => Known(a, start)'
  BY KnownStep, HeardIs
<1>1. CASE RemoveIntrusion
  <2> DEFINE ri == intrusions[index]
             s == StatementOf(ri)
  <2>1. UNCHANGED rows
    BY <1>1 DEF RemoveIntrusion
  <2>2. /\ ri \in Intrusion
        /\ Saved(ri) \in past' \/ \E k \in DOMAIN intrusions' : intrusions'[k] = Saved(ri)
    BY <1>1, SavedOrOther
  <2>3. /\ sqlQueue \in Seq(Statement) /\ s \in Statement
        /\ sqlQueue' = IF ri.updated THEN sqlQueue ELSE Append(sqlQueue, s)
    <3>1. sqlQueue \in Seq(Statement)
      BY DEF IdsTypeOK
    <3> QED
      BY <1>1, <2>2, <3>1, StatementsAre DEF RemoveIntrusion
  <2>4. s.srcAddr = ri.srcAddr /\ s.start = ri.start
    BY DEF StatementOf
  <2>5. Saved(ri).srcAddr = ri.srcAddr /\ Saved(ri).start = ri.start /\ Saved(ri).inserted
    BY <2>2, SavedType
  <2> HIDE DEF s, ri
  <2>6. \A a, start : a = s.srcAddr /\ start = s.start => Known(a, start)'
    BY <2>2, <2>4, <2>5 DEF Known
  <2>7. \A i \in DOMAIN sqlQueue' :
           (i \in DOMAIN sqlQueue /\ sqlQueue'[i] = sqlQueue[i]) \/ sqlQueue'[i] = s
    BY <2>3
  <2>8. \A a, start : Told(a, start)' => Told(a, start) \/ (a = s.srcAddr /\ start = s.start)
    BY <2>1, <2>7 DEF Told
  <2> QED
    BY <1>0, <2>6, <2>8, HeardNext
<1>2. CASE CollectTracked \/ CollectNew
  <2>1. UNCHANGED rows /\ Collect(Head(newRecords)) /\ Keep(Head(newRecords))
    BY <1>2 DEF CollectTracked, CollectNew, Collect
  <2>2. PICK s \in Statement :
           s.op = "CAPTURE" /\ (sqlQueue' = sqlQueue \/ sqlQueue' = Append(sqlQueue, s))
    BY <2>1, CollectIs, KeepIs
  <2>3. sqlQueue \in Seq(Statement)
    BY DEF IdsTypeOK
  <2>4. \A i \in DOMAIN sqlQueue' :
           (i \in DOMAIN sqlQueue /\ sqlQueue'[i] = sqlQueue[i]) \/ sqlQueue'[i] = s
    BY <2>2, <2>3
  <2>5. \A a, start : Told(a, start)' => Told(a, start)
    BY <2>1, <2>2, <2>4 DEF Told
  <2> QED
    BY <1>0, <2>5, HeardNext
<1>3. CASE ExecuteSql
  <2>1. sqlQueue # <<>> /\ sqlQueue' = Tail(sqlQueue) /\ rows' = Executed(rows, Head(sqlQueue))
    BY <1>3 DEF ExecuteSql
  <2>2. /\ Head(sqlQueue) \in Statement /\ Head(sqlQueue) = sqlQueue[1] /\ 1 \in DOMAIN sqlQueue
        /\ \A i \in DOMAIN sqlQueue' :
              i + 1 \in DOMAIN sqlQueue /\ sqlQueue'[i] = sqlQueue[i + 1]
    BY <2>1, QueueTail
  <2> DEFINE s == Head(sqlQueue)
  <2>3. ASSUME NEW i \in DOMAIN rows'
        PROVE  \/ s.op = "INSERT" /\ rows'[i].srcAddr = s.srcAddr /\ rows'[i].start = s.start
               \/ \E j \in DOMAIN rows :
                     rows'[i].srcAddr = rows[j].srcAddr /\ rows'[i].start = rows[j].start
    <3>1. rows \in Seq(Row)
      BY DEF IdsTypeOK
    <3> QED
      BY <2>1, <2>2, <3>1, ExecutedRows
  <2> HIDE DEF s
  <2>4. s = sqlQueue[1]
    BY <2>2 DEF s
  <2>5. \A a, start : Told(a, start)' => Told(a, start)
    BY <2>2, <2>3, <2>4 DEF Told
  <2> QED
    BY <1>0, <2>5, HeardNext
<1>4. CASE ExecuteFails
  <2>1. sqlQueue # <<>> /\ sqlQueue' = Tail(sqlQueue) /\ UNCHANGED rows
    BY <1>4 DEF ExecuteFails
  <2>2. \A i \in DOMAIN sqlQueue' :
           i + 1 \in DOMAIN sqlQueue /\ sqlQueue'[i] = sqlQueue[i + 1]
    BY <2>1, QueueTail
  <2>3. \A a, start : Told(a, start)' => Told(a, start)
    BY <2>1, <2>2 DEF Told
  <2> QED
    BY <1>0, <2>3, HeardNext
<1>5. CASE UNCHANGED <<sqlQueue, rows>>
  <2>1. \A a, start : Told(a, start)' => Told(a, start)
    BY <1>5 DEF Told
  <2> QED
    BY <1>0, <2>1, HeardNext
<1>6. CASE \/ Tick \/ RemoveRecords \/ CollectIgnored \/ RecognizeIntrusions
           \/ (\E a \in Many : CollectRecords(a))
           \/ (\E a \in Addrs : Receive(a)) \/ UNCHANGED vars
  BY <1>5, <1>6
     DEF Tick, RemoveRecords, CollectIgnored, Collect, RecognizeIntrusions, CollectRecords,
         Receive, vars
<1> QED
  BY <1>1, <1>2, <1>3, <1>4, <1>6 DEF IdsNext, Detect

\* The table when the queue is empty, as a fold,
LEMMA SettledIs == Settled = Fold(rows, sqlQueue)
BY DEF Settled, Fold

\* has rows only.
LEMMA SettledType ==
    ASSUME IdsTypeOK
    PROVE  Settled \in Seq(Row)
BY FoldType, SettledIs DEF IdsTypeOK

\* A statement that is sent will be executed last.
LEMMA SettledSent ==
    ASSUME IdsTypeOK, NEW s \in Statement, UNCHANGED rows, sqlQueue' = Append(sqlQueue, s)
    PROVE  Settled' = Executed(Settled, s)
<1>1. sqlQueue \in Seq(Statement)
  BY DEF IdsTypeOK
<1>2. Settled' = Fold(rows, Append(sqlQueue, s))
  BY DEF Settled, Fold
<1>3. Fold(rows, Append(sqlQueue, s)) = Executed(Fold(rows, sqlQueue), s)
  BY <1>1, FoldAppend
<1> QED
  BY <1>2, <1>3, SettledIs

\* The table will say of an intrusion what memory says.
Says(ri) ==
    /\ ri.updated => ri.inserted
    /\ ri.inserted /\ <<ri.srcAddr, ri.start>> \notin failed =>
          /\ Entry(Settled, ri.srcAddr, ri.start)[1] = 1
          /\ ri.updated => Entry(Settled, ri.srcAddr, ri.start) = <<1, ri.stop, ri.n>>

SaysPast(ri) ==
    <<ri.srcAddr, ri.start>> \notin failed =>
        Entry(Settled, ri.srcAddr, ri.start) = <<1, ri.stop, ri.n>>

\* The invariant, one intrusion at a time,
LEMMA FollowsIs ==
    Follows <=> /\ \A ri \in past : SaysPast(ri)
                /\ \A i \in DOMAIN intrusions : Says(intrusions[i])
BY DEF Follows, Says, SaysPast

\* and in the next state.
LEMMA FollowsNext ==
    ASSUME \A ri \in past' : SaysPast(ri)',
           \A i \in DOMAIN intrusions' : \A ri : ri = intrusions'[i] => Says(ri)'
    PROVE  Follows'
<1>1. \A i \in DOMAIN intrusions' : Says(intrusions[i])'
  BY DEF Says
<1> QED
  BY <1>1 DEF Follows, Says, SaysPast

\* Where the table says the same, and memory too.
Same(a, start) == Entry(Settled, a, start)' = Entry(Settled, a, start)

\* If the entry of an intrusion is the same, so is what the table says of it.
LEMMA SaysSame ==
    ASSUME failed \subseteq failed', NEW ri,
           <<ri.srcAddr, ri.start>> \notin failed' => Same(ri.srcAddr, ri.start)
    PROVE  (Says(ri) => Says(ri)') /\ (SaysPast(ri) => SaysPast(ri)')
BY DEF Says, SaysPast, Same

\* Steps that change neither intrusions nor the entries they look for.
LEMMA FollowsSame ==
    ASSUME Follows, UNCHANGED <<intrusions, past>>, failed \subseteq failed',
           \A a, start : <<a, start>> \notin failed' => Same(a, start)
    PROVE  Follows'
<1>1. \A ri \in past : SaysPast(ri)'
  BY FollowsIs, SaysSame
<1>2. \A i \in DOMAIN intrusions : \A ri : ri = intrusions[i] => Says(ri)'
  BY FollowsIs, SaysSame
<1> QED
  BY <1>1, <1>2, FollowsNext

\* The statement of an intrusion that is saved.
LEMMA SavedSays ==
    ASSUME IdsTypeOK, Placed, Over, Heard, Follows, RemoveIntrusion,
           NEW ri, ri = intrusions[index]
    PROVE  /\ <<ri.srcAddr, ri.start>> \notin failed =>
                 Entry(Settled, ri.srcAddr, ri.start)' = <<1, ri.stop, ri.n>>
           /\ \A a, start : a # ri.srcAddr \/ start # ri.start => Same(a, start)
<1> DEFINE s == StatementOf(ri)
           e == Entry(Settled, ri.srcAddr, ri.start)
<1>1. index \in DOMAIN intrusions /\ ri \in Intrusion
  BY SavedOrOther
<1>2. /\ sqlQueue \in Seq(Statement) /\ s \in Statement
      /\ sqlQueue' = IF ri.updated THEN sqlQueue ELSE Append(sqlQueue, s)
  <2>1. sqlQueue \in Seq(Statement)
    BY DEF IdsTypeOK
  <2> QED
    BY <1>1, <2>1, StatementsAre DEF RemoveIntrusion
<1>3. UNCHANGED rows
  BY DEF RemoveIntrusion, database
<1>4. Says(ri)
  BY <1>1, FollowsIs
<1>5. CASE ri.updated
  <2>1. Settled' = Settled
    BY <1>2, <1>3, <1>5 DEF Settled
  <2> QED
    BY <1>4, <1>5, <2>1 DEF Says, Same
<1>6. CASE ~ ri.updated
  <2>1. Settled' = Executed(Settled, s) /\ Settled \in Seq(Row)
    BY <1>2, <1>3, <1>6, SettledSent, SettledType
  <2>2. /\ s.srcAddr = ri.srcAddr /\ s.start = ri.start /\ s.stop = ri.stop /\ s.n = ri.n
        /\ s.op = IF ri.inserted THEN "UPDATE" ELSE "INSERT"
    BY DEF StatementOf
  <2> HIDE DEF s
  <2>3. \A a, start : Entry(Settled, a, start)' = Stepped(Entry(Settled, a, start), s, a, start)
    <3> TAKE a, start
    <3>1. Entry(Executed(Settled, s), a, start) = Stepped(Entry(Settled, a, start), s, a, start)
      BY <1>2, <2>1, EntryStep
    <3> QED
      BY <2>1, <3>1
  <2>4. \A a, start : a # ri.srcAddr \/ start # ri.start => Same(a, start)
    BY <2>2, <2>3 DEF Same, Stepped
  <2>5. CASE ri.inserted
    <3>1. <<ri.srcAddr, ri.start>> \notin failed => e[1] = 1
      BY <1>4, <2>5 DEF Says
    <3>2. s.op # "CAPTURE" /\ s.op # "INSERT"
      BY <2>2, <2>5
    <3>3. e[1] = 1 => Stepped(e, s, ri.srcAddr, ri.start) = <<1, ri.stop, ri.n>>
      BY <2>2, <3>2 DEF Stepped
    <3> QED
      BY <2>3, <2>4, <3>1, <3>3
  <2>6. CASE ~ ri.inserted
    <3>1. ~ Known(ri.srcAddr, ri.start)
      <4>1. \A pi \in past : pi.srcAddr # ri.srcAddr \/ pi.start # ri.start
        BY <1>1, NewStart
      <4>2. \A i \in DOMAIN intrusions : intrusions[i].srcAddr = ri.srcAddr => i = index
        BY <1>1 DEF Placed
      <4> QED
        BY <2>6, <4>1, <4>2 DEF Known
    <3>2. ~ Told(ri.srcAddr, ri.start)
      BY <3>1, HeardIs
    <3>3. RowsOf(rows, ri.srcAddr, ri.start) = {}
      BY <3>2 DEF Told, RowsOf
    <3>4. \A k \in DOMAIN sqlQueue : sqlQueue[k].op = "INSERT" =>
             sqlQueue[k].srcAddr # ri.srcAddr \/ sqlQueue[k].start # ri.start
      BY <3>2 DEF Told
    <3>5. e = <<0, 0, 0>>
      <4>1. rows \in Seq(Row)
        BY DEF IdsTypeOK
      <4>2. Entry(Fold(rows, sqlQueue), ri.srcAddr, ri.start) = <<0, 0, 0>>
        BY <1>2, <3>3, <3>4, <4>1, EntryAbsent
      <4> QED
        BY <4>2, SettledIs
    <3>6. s.op = "INSERT" /\ <<0, 0, 0>>[1] = 0
      BY <2>2, <2>6
    <3>7. Stepped(<<0, 0, 0>>, s, ri.srcAddr, ri.start) = <<1, ri.stop, ri.n>>
      BY <2>2, <3>6 DEF Stepped
    <3> QED
      BY <2>3, <2>4, <3>5, <3>7
  <2> QED
    BY <2>5, <2>6
<1> QED
  BY <1>5, <1>6

\* After every step the table will still say what memory says.
LEMMA FollowsStep ==
    ASSUME IdsTypeOK, Placed, Over, Heard, Follows, [IdsNext]_vars
    PROVE  Follows'
<1> USE DEF loop, database, history
<1>1. CASE RemoveIntrusion
  <2>1. PICK ri : ri = intrusions[index]
    OBVIOUS
  <2>2. PICK si : si = Saved(ri)
    OBVIOUS
  <2>3. /\ index \in DOMAIN intrusions /\ ri \in Intrusion
        /\ \A k \in DOMAIN intrusions' :
              \/ intrusions'[k] = si
              \/ \E m \in DOMAIN intrusions : m # index /\ intrusions'[k] = intrusions[m]
        /\ past' \subseteq past \cup {si}
    BY <1>1, <2>1, <2>2, SavedOrOther
  <2>4. si.srcAddr = ri.srcAddr /\ si.start = ri.start /\ si.stop = ri.stop /\ si.n = ri.n
        /\ si.inserted /\ si.updated
    BY <2>2, <2>3, SavedType
  <2>5. /\ <<ri.srcAddr, ri.start>> \notin failed =>
              Entry(Settled, ri.srcAddr, ri.start)' = <<1, ri.stop, ri.n>>
        /\ \A a, start : a # ri.srcAddr \/ start # ri.start => Same(a, start)
    BY <1>1, <2>1, SavedSays
  <2>6. failed' = failed
    BY <1>1 DEF RemoveIntrusion
  <2>7. SaysPast(si)'
    BY <2>4, <2>5, <2>6 DEF SaysPast
  <2>8. Says(si)'
    <3>1. <<1, ri.stop, ri.n>>[1] = 1
      OBVIOUS
    <3> QED
      BY <2>4, <2>5, <2>6, <3>1 DEF Says
  <2>9. ASSUME NEW pi \in past PROVE SaysPast(pi)'
    <3>1. pi.srcAddr # ri.srcAddr \/ pi.start # ri.start
      BY <2>1, <2>3, NewStart
    <3>2. Same(pi.srcAddr, pi.start) /\ SaysPast(pi)
      BY <2>5, <3>1, FollowsIs
    <3> QED
      BY <2>6, <3>2, SaysSame
  <2>10. ASSUME NEW m \in DOMAIN intrusions, m # index, NEW pi, pi = intrusions[m]
         PROVE  Says(pi)'
    <3>1. pi.srcAddr # ri.srcAddr
      BY <2>1, <2>3, <2>10 DEF Placed
    <3>2. Same(pi.srcAddr, pi.start) /\ Says(pi)
      BY <2>5, <2>10, <3>1, FollowsIs
    <3> QED
      BY <2>6, <3>2, SaysSame
  <2>11. \A pi \in past' : SaysPast(pi)'
    BY <2>3, <2>7, <2>9
  <2>12. \A k \in DOMAIN intrusions' : \A pi : pi = intrusions'[k] => Says(pi)'
    BY <2>3, <2>8, <2>10
  <2> QED
    BY <2>11, <2>12, FollowsNext
<1>2. ASSUME Collect(Head(newRecords)), Keep(Head(newRecords))
      PROVE  failed' = failed /\ past' = past /\ \A a, start : Same(a, start)
  <2>1. UNCHANGED <<rows, failed, past>>
    BY <1>2 DEF Collect
  <2>2. PICK s \in Statement :
           s.op = "CAPTURE" /\ (sqlQueue' = sqlQueue \/ sqlQueue' = Append(sqlQueue, s))
    BY <1>2, CollectIs, KeepIs
  <2>3. CASE sqlQueue' = sqlQueue
    BY <2>1, <2>3 DEF Same, Settled
  <2>4. CASE sqlQueue' = Append(sqlQueue, s)
    <3>1. Settled' = Executed(Settled, s)
      BY <2>1, <2>4, SettledSent
    <3>2. Settled' = Settled
      BY <2>2, <3>1 DEF Executed
    <3> QED
      BY <2>1, <3>2 DEF Same
  <2> QED
    BY <2>2, <2>3, <2>4
<1>3. CASE CollectTracked
  <2>1. failed' = failed /\ past' = past /\ \A a, start : Same(a, start)
    BY <1>2, <1>3 DEF CollectTracked
  <2>2. PICK i \in DOMAIN intrusions :
           /\ newRecords[1] \in Record /\ intrusions[i] \in Intrusion
           /\ DOMAIN intrusions' = DOMAIN intrusions
           /\ \A k \in DOMAIN intrusions :
                 intrusions'[k] = IF k = i THEN Added(intrusions[i], newRecords[1])
                                  ELSE intrusions[k]
    BY <1>3, TrackedIs
  <2>3. \A ri \in past : SaysPast(ri)'
    BY <2>1, FollowsIs, SaysSame
  <2>4. ASSUME NEW k \in DOMAIN intrusions, NEW ri, ri = intrusions'[k]
        PROVE  Says(ri)'
    <3>1. CASE k # i
      <4>1. ri = intrusions[k]
        BY <2>2, <2>4, <3>1
      <4>2. Says(ri)
        BY <4>1, FollowsIs
      <4> QED
        BY <2>1, <4>2, SaysSame
    <3>2. CASE k = i
      <4>1. PICK qi : qi = intrusions[i]
        OBVIOUS
      <4>2. /\ ri.srcAddr = qi.srcAddr /\ ri.start = qi.start
            /\ (ri.inserted <=> qi.inserted) /\ ~ ri.updated
        <5>1. ri = Added(qi, newRecords[1])
          BY <2>2, <2>4, <3>2, <4>1
        <5> QED
          BY <2>2, <4>1, <5>1, AddedType
      <4>3. Says(qi)
        BY <4>1, FollowsIs
      <4>4. Says(qi)'
        BY <2>1, <4>3, SaysSame
      <4> QED
        BY <4>2, <4>4 DEF Says
    <3> QED
      BY <3>1, <3>2
  <2> QED
    BY <2>1, <2>2, <2>3, <2>4, FollowsNext
<1>4. CASE CollectNew
  <2>1. failed' = failed /\ past' = past /\ \A a, start : Same(a, start)
    BY <1>2, <1>4 DEF CollectNew
  <2>2. UNCHANGED intrusions
    BY <1>4 DEF CollectNew
  <2> QED
    BY <2>1, <2>2, FollowsSame
<1>5. ASSUME NEW a \in Many, CollectRecords(a) PROVE Follows'
  <2>1. UNCHANGED <<sqlQueue, rows, failed, past>>
    BY <1>5 DEF CollectRecords
  <2>2. \A b, start : Same(b, start)
    BY <2>1 DEF Same, Settled
  <2>3. \A i \in DOMAIN intrusions' :
           \/ i \in DOMAIN intrusions /\ intrusions'[i] = intrusions[i]
           \/ intrusions'[i] = Found(a)
    BY <1>5, Recognized
  <2>4. \A ri \in past : SaysPast(ri)'
    BY <2>1, <2>2, FollowsIs, SaysSame
  <2>5. ASSUME NEW i \in DOMAIN intrusions', NEW ri, ri = intrusions'[i] PROVE Says(ri)'
    <3>1. CASE i \in DOMAIN intrusions /\ intrusions'[i] = intrusions[i]
      <4>1. Says(ri)
        BY <2>5, <3>1, FollowsIs
      <4> QED
        BY <2>1, <2>2, <4>1, SaysSame
    <3>2. CASE intrusions'[i] = Found(a)
      <4>1. ~ ri.inserted /\ ~ ri.updated
        BY <2>5, <3>2 DEF Found
      <4> QED
        BY <4>1 DEF Says
    <3> QED
      BY <2>3, <3>1, <3>2
  <2> QED
    BY <2>1, <2>4, <2>5, FollowsNext
<1>6. CASE ExecuteSql
  <2>1. sqlQueue # <<>> /\ sqlQueue' = Tail(sqlQueue) /\ rows' = Executed(rows, Head(sqlQueue))
        /\ UNCHANGED <<failed, intrusions, past>>
    BY <1>6 DEF ExecuteSql, Detector
  <2>2. sqlQueue \in Seq(Statement)
    BY DEF IdsTypeOK
  <2>3. Fold(Executed(rows, Head(sqlQueue)), Tail(sqlQueue)) = Fold(rows, sqlQueue)
    BY <2>1, <2>2, FoldTail
  <2>4. Settled' = Settled
    BY <2>1, <2>3, SettledIs DEF Settled, Fold
  <2>5. \A a, start : Same(a, start)
    BY <2>4 DEF Same
  <2> QED
    BY <2>1, <2>5, FollowsSame
<1>7. CASE ExecuteFails
  <2> DEFINE s == Head(sqlQueue)
  <2>1. sqlQueue # <<>> /\ sqlQueue' = Tail(sqlQueue) /\ UNCHANGED <<rows, intrusions, past>>
        /\ failed' = IF s.op = "CAPTURE" THEN failed ELSE failed \cup {<<s.srcAddr, s.start>>}
    BY <1>7 DEF ExecuteFails, Detector
  <2>2. sqlQueue \in Seq(Statement) /\ rows \in Seq(Row)
    BY DEF IdsTypeOK
  <2>3. ASSUME NEW a, NEW start, <<a, start>> \notin failed' PROVE Same(a, start)
    <3>1. s.op = "CAPTURE" \/ s.srcAddr # a \/ s.start # start
      BY <2>1, <2>3
    <3>2. Entry(Fold(rows, Tail(sqlQueue)), a, start) = Entry(Fold(rows, sqlQueue), a, start)
      BY <2>1, <2>2, <3>1, EntryFails
    <3>3. Settled' = Fold(rows, Tail(sqlQueue))
      BY <2>1 DEF Settled, Fold
    <3> QED
      BY <3>2, <3>3, SettledIs DEF Same
  <2>4. failed \subseteq failed'
    BY <2>1
  <2> QED
    BY <2>1, <2>3, <2>4, FollowsSame
<1>8. CASE UNCHANGED <<sqlQueue, rows, failed, intrusions, past>>
  <2>1. \A a, start : Same(a, start)
    BY <1>8 DEF Same, Settled
  <2> QED
    BY <1>8, <2>1, FollowsSame
<1>9. CASE \/ Tick \/ RemoveRecords \/ CollectIgnored \/ RecognizeIntrusions
           \/ (\E a \in Addrs : Receive(a)) \/ UNCHANGED vars
  BY <1>8, <1>9
     DEF Tick, RemoveRecords, CollectIgnored, Collect, RecognizeIntrusions, Receive, vars
<1> QED
  BY <1>1, <1>3, <1>4, <1>5, <1>6, <1>7, <1>9 DEF IdsNext, Detect

\* An entry that is one row is what RowsFollowMemory looks for.
LEMMA FollowsRows ==
    ASSUME IdsTypeOK, Follows
    PROVE  RowsFollowMemory
<1> SUFFICES ASSUME NEW ri \in UpToDate, <<ri.srcAddr, ri.start>> \notin failed
             PROVE  \E i \in DOMAIN Settled :
                       /\ Settled[i].stop = ri.stop /\ Settled[i].n = ri.n
                       /\ \A j \in DOMAIN Settled : Matches(Settled[j], ri) <=> j = i
  BY DEF RowsFollowMemory
<1>1. Entry(Settled, ri.srcAddr, ri.start) = <<1, ri.stop, ri.n>>
  <2>1. CASE ri \in past
    BY <2>1, FollowsIs DEF SaysPast
  <2>2. CASE \E i \in DOMAIN intrusions : ri = intrusions[i] /\ ri.updated
    <3>1. Says(ri)
      BY <2>2, FollowsIs
    <3> QED
      BY <2>2, <3>1 DEF Says
  <2>3. ri \in past \/ \E i \in DOMAIN intrusions : ri = intrusions[i] /\ ri.updated
    BY DEF UpToDate, ToSet
  <2> QED
    BY <2>1, <2>2, <2>3
<1>2. PICK i : RowsOf(Settled, ri.srcAddr, ri.start) = {i}
  <2>1. <<1, ri.stop, ri.n>>[1] = 1
    OBVIOUS
  <2>2. Entry(Settled, ri.srcAddr, ri.start)[1] = 1
    BY <1>1, <2>1
  <2> QED
    BY <2>2, EntryIs
<1>3. <<1, Settled[i].stop, Settled[i].n>> = <<1, ri.stop, ri.n>>
  BY <1>1, <1>2, EntryIs
<1>4. Settled[i].stop = ri.stop /\ Settled[i].n = ri.n
  BY <1>3
<1>5. i \in DOMAIN Settled /\ \A j \in DOMAIN Settled : Matches(Settled[j], ri) <=> j = i
  BY <1>2 DEF RowsOf, Matches
<1> QED
  BY <1>4, <1>5

-----------------------------------------------------------------------------
(* Each packet is counted once *)

\* The packets of a source that intrusions in memory have, and those forgotten had.
MemoryOf(list, a) == CountOf({list[i] : i \in From(list, a)})
PastOf(S, a) == CountOf({ri \in S : ri.srcAddr = a})

\* The balance of one source.
Balanced(a) ==
    received[a] = ignored[a] + expired[a] + CountIn(records, a) + CountIn(newRecords, a)
                    + MemoryOf(intrusions, a) + PastOf(past, a)

\* CountedOnce is the balance of every source,
LEMMA CountedIs == CountedOnce <=> \A a \in Addrs : Balanced(a)
<1>1. ASSUME NEW a \in Addrs
      PROVE  /\ Cardinality(Packets(a)) = CountIn(records, a)
             /\ Cardinality({i \in DOMAIN newRecords : newRecords[i].srcAddr = a})
                   = CountIn(newRecords, a)
             /\ CountOf({intrusions[i] : i \in Tracking(a)}) = MemoryOf(intrusions, a)
             /\ CountOf({ri \in past : ri.srcAddr = a}) = PastOf(past, a)
  BY DEF Packets, CountIn, From, Tracking, MemoryOf, PastOf
<1> QED
  BY <1>1 DEF CountedOnce, Balanced

\* in the next state too.
LEMMA CountedNext ==
    ASSUME \A a \in Addrs : Balanced(a)'
    PROVE  CountedOnce'
<1>1. ASSUME NEW a \in Addrs
      PROVE  /\ Cardinality(Packets(a)') = CountIn(records', a)
             /\ Cardinality({i \in DOMAIN newRecords' : newRecords'[i].srcAddr = a})
                   = CountIn(newRecords', a)
             /\ CountOf({intrusions'[i] : i \in Tracking(a)'}) = MemoryOf(intrusions', a)
             /\ CountOf({ri \in past' : ri.srcAddr = a}) = PastOf(past', a)
  BY DEF Packets, CountIn, From, Tracking, MemoryOf, PastOf
<1> QED
  BY <1>1 DEF CountedOnce, Balanced

\* A source without an intrusion, and with one.
LEMMA MemoryIs ==
    ASSUME NEW list, NEW a
    PROVE  /\ From(list, a) = {} => MemoryOf(list, a) = 0
           /\ \A i : From(list, a) = {i} /\ list[i].n \in Nat => MemoryOf(list, a) = list[i].n
<1>1. ASSUME From(list, a) = {} PROVE MemoryOf(list, a) = 0
  <2>1. {list[i] : i \in From(list, a)} = {}
    BY <1>1
  <2> QED
    BY <2>1, CountOfEmpty DEF MemoryOf
<1>2. ASSUME NEW i, From(list, a) = {i}, list[i].n \in Nat
      PROVE  MemoryOf(list, a) = list[i].n
  <2>1. {list[k] : k \in From(list, a)} = {list[i]}
    BY <1>2
  <2> QED
    BY <1>2, <2>1, CountOfOne DEF MemoryOf
<1> QED
  BY <1>1, <1>2

\* The intrusion of a source that is tracked.
LEMMA OnlyOne ==
    ASSUME Placed, NEW i \in DOMAIN intrusions
    PROVE  From(intrusions, intrusions[i].srcAddr) = {i}
BY DEF Placed, From

\* One more forgotten intrusion counts for its own source.
LEMMA PastIs ==
    ASSUME NEW S, IsFiniteSet(S), \A ri \in S : ri.n \in Nat, NEW a
    PROVE  /\ PastOf(S, a) \in Nat
           /\ \A ri : ri \notin S /\ ri.n \in Nat =>
                 PastOf(S \cup {ri}, a) = PastOf(S, a) + IF ri.srcAddr = a THEN ri.n ELSE 0
<1> DEFINE T == {ri \in S : ri.srcAddr = a}
<1>1. IsFiniteSet(T) /\ \A ri \in T : ri.n \in Nat
  <2>1. T \subseteq S
    OBVIOUS
  <2> QED
    BY <2>1, FS_Subset
<1>2. CountOf(T) \in Nat
  <2> HIDE DEF T
  <2> QED
    BY <1>1, PileFinite, CountOfIs
<1>3. ASSUME NEW ri, ri \notin S, ri.n \in Nat
      PROVE  PastOf(S \cup {ri}, a) = PastOf(S, a) + IF ri.srcAddr = a THEN ri.n ELSE 0
  <2>1. CASE ri.srcAddr = a
    <3>1. {pi \in S \cup {ri} : pi.srcAddr = a} = T \cup {ri} /\ ri \notin T
      BY <1>3, <2>1
    <3>2. PastOf(S \cup {ri}, a) = CountOf(T \cup {ri}) /\ PastOf(S, a) = CountOf(T)
      BY <3>1 DEF PastOf
    <3> HIDE DEF T
    <3>3. CountOf(T \cup {ri}) = ri.n + CountOf(T)
      BY <1>1, <1>3, <3>1, CountOfAdd
    <3> QED
      BY <1>2, <1>3, <2>1, <3>2, <3>3
  <2>2. CASE ri.srcAddr # a
    <3>1. {pi \in S \cup {ri} : pi.srcAddr = a} = T
      BY <2>2
    <3>2. PastOf(S \cup {ri}, a) = CountOf(T) /\ PastOf(S, a) = CountOf(T)
      BY <3>1 DEF PastOf
    <3> HIDE DEF T
    <3> QED
      BY <1>2, <2>2, <3>2
  <2> QED
    BY <2>1, <2>2
<1> QED
  BY <1>2, <1>3 DEF PastOf

\* The parts of the balance are numbers.
LEMMA Parts ==
    ASSUME IdsTypeOK, Placed, NEW a \in Addrs
    PROVE  /\ received[a] \in Nat /\ ignored[a] \in Nat /\ expired[a] \in Nat
           /\ CountIn(records, a) \in Nat /\ CountIn(newRecords, a) \in Nat
           /\ MemoryOf(intrusions, a) \in Nat /\ PastOf(past, a) \in Nat
<1>1. received[a] \in Nat /\ ignored[a] \in Nat /\ expired[a] \in Nat
  BY DEF IdsTypeOK
<1>2. CountIn(records, a) \in Nat /\ CountIn(newRecords, a) \in Nat
  BY CountType DEF IdsTypeOK
<1>3. MemoryOf(intrusions, a) \in Nat
  <2>1. CASE From(intrusions, a) = {}
    BY <2>1, MemoryIs
  <2>2. CASE From(intrusions, a) # {}
    <3>1. PICK i \in DOMAIN intrusions : intrusions[i].srcAddr = a
      BY <2>2 DEF From
    <3>2. From(intrusions, a) = {i} /\ intrusions[i].n \in Nat
      BY <3>1, OnlyOne, Fields
    <3> QED
      BY <3>2, MemoryIs
  <2> QED
    BY <2>1, <2>2
<1>4. PastOf(past, a) \in Nat
  <2>1. IsFiniteSet(past) /\ \A ri \in past : ri.n \in Nat
    BY Fields DEF IdsTypeOK
  <2> QED
    BY <2>1, PastIs
<1> QED
  BY <1>1, <1>2, <1>3, <1>4

\* A list of intrusions that differs in those of other sources only.
LEMMA MemorySame ==
    ASSUME NEW list, NEW new, NEW a,
           \A k \in From(new, a) : \E i \in From(list, a) : new[k] = list[i],
           \A i \in From(list, a) : \E k \in From(new, a) : new[k] = list[i]
    PROVE  MemoryOf(new, a) = MemoryOf(list, a)
<1>1. {new[k] : k \in From(new, a)} = {list[i] : i \in From(list, a)}
  OBVIOUS
<1> QED
  BY <1>1 DEF MemoryOf

\* An intrusion that is saved or forgotten takes its number along.
LEMMA CountRemoveIntrusion ==
    ASSUME IdsTypeOK, Placed, Placed', Over, CountedOnce, RemoveIntrusion
    PROVE  CountedOnce'
<1> USE DEF database
<1>1. PICK ri : ri = intrusions[index]
  OBVIOUS
<1>2. PICK si : si = Saved(ri)
  OBVIOUS
<1>3. /\ index \in DOMAIN intrusions /\ ri \in Intrusion
      /\ \A k \in DOMAIN intrusions' :
            \/ intrusions'[k] = si
            \/ \E m \in DOMAIN intrusions : m # index /\ intrusions'[k] = intrusions[m]
      /\ \A m \in DOMAIN intrusions :
            m # index => \E k \in DOMAIN intrusions' : intrusions'[k] = intrusions[m]
  BY <1>1, <1>2, SavedOrOther
<1>4. si.srcAddr = ri.srcAddr /\ si.start = ri.start /\ si.n = ri.n /\ ri.n \in Nat
  BY <1>2, <1>3, SavedType DEF Intrusion
<1>5. UNCHANGED <<received, ignored, expired, records, newRecords>>
  BY DEF RemoveIntrusion
<1>6. MemoryOf(intrusions, ri.srcAddr) = ri.n
  <2>1. From(intrusions, ri.srcAddr) = {index}
    BY <1>1, <1>3, OnlyOne
  <2> QED
    BY <1>1, <1>4, <2>1, MemoryIs
<1>7. ASSUME NEW a \in Addrs, a # ri.srcAddr
      PROVE  MemoryOf(intrusions', a) = MemoryOf(intrusions, a)
  <2>1. \A k \in From(intrusions', a) :
           \E i \in From(intrusions, a) : intrusions'[k] = intrusions[i]
    BY <1>3, <1>4, <1>7 DEF From
  <2>2. \A i \in From(intrusions, a) :
           \E k \in From(intrusions', a) : intrusions'[k] = intrusions[i]
    BY <1>1, <1>3, <1>7 DEF From
  <2> QED
    BY <2>1, <2>2, MemorySame
<1>8. ASSUME NEW a \in Addrs
      PROVE  /\ MemoryOf(intrusions', a) \in Nat /\ PastOf(past', a) \in Nat
             /\ MemoryOf(intrusions', a) + PastOf(past', a) =
                   MemoryOf(intrusions, a) + PastOf(past, a)
  <2>1. MemoryOf(intrusions, a) \in Nat /\ PastOf(past, a) \in Nat
    BY Parts
  <2>2. CASE Gone(intrusions[index])
    <3>1. past' = past \cup {si}
      BY <1>1, <1>2, <2>2, Forgotten
    <3>2. si \notin past
      BY <1>1, <1>3, <1>4, NewStart
    <3>3. PastOf(past', a) = PastOf(past, a) + IF si.srcAddr = a THEN si.n ELSE 0
      <4>1. IsFiniteSet(past) /\ \A pi \in past : pi.n \in Nat
        BY Fields DEF IdsTypeOK
      <4> QED
        BY <1>4, <3>1, <3>2, <4>1, PastIs
    <3>4. CASE a = ri.srcAddr
      <4>1. \A k \in DOMAIN intrusions' :
               \E m \in DOMAIN intrusions : m # index /\ intrusions'[k] = intrusions[m]
        BY <2>2, Forgotten
      <4>2. From(intrusions', a) = {}
        BY <1>1, <1>3, <3>4, <4>1 DEF From, Placed
      <4>3. MemoryOf(intrusions', a) = 0
        BY <4>2, MemoryIs
      <4> QED
        BY <1>4, <1>6, <2>1, <3>3, <3>4, <4>3
    <3>5. CASE a # ri.srcAddr
      BY <1>4, <1>7, <2>1, <3>3, <3>5
    <3> QED
      BY <3>4, <3>5
  <2>3. CASE ~ Gone(intrusions[index])
    <3>1. /\ DOMAIN intrusions' = DOMAIN intrusions /\ intrusions'[index] = si
          /\ past' = past
      BY <1>1, <1>2, <1>3, <2>3, Kept
    <3>2. CASE a = ri.srcAddr
      <4>1. From(intrusions', a) = {index}
        BY <1>3, <1>4, <3>1, <3>2 DEF Placed, From
      <4>2. MemoryOf(intrusions', a) = si.n
        BY <1>4, <3>1, <4>1, MemoryIs
      <4>3. PastOf(past', a) = PastOf(past, a)
        BY <3>1
      <4> QED
        BY <1>4, <1>6, <2>1, <3>2, <4>2, <4>3
    <3>3. CASE a # ri.srcAddr
      <4>1. MemoryOf(intrusions', a) = MemoryOf(intrusions, a)
        BY <1>7, <3>3
      <4>2. PastOf(past', a) = PastOf(past, a)
        BY <3>1
      <4> QED
        BY <2>1, <4>1, <4>2
    <3> QED
      BY <3>2, <3>3
  <2> QED
    BY <2>2, <2>3
<1>9. ASSUME NEW a \in Addrs PROVE Balanced(a)'
  <2>1. Balanced(a)
    BY CountedIs
  <2>2. /\ MemoryOf(intrusions, a) \in Nat /\ PastOf(past, a) \in Nat
        /\ received[a] \in Nat /\ ignored[a] \in Nat /\ expired[a] \in Nat
        /\ CountIn(records, a) \in Nat /\ CountIn(newRecords, a) \in Nat
    BY Parts
  <2>3. /\ MemoryOf(intrusions', a) \in Nat /\ PastOf(past', a) \in Nat
        /\ MemoryOf(intrusions', a) + PastOf(past', a) =
              MemoryOf(intrusions, a) + PastOf(past, a)
    BY <1>8
  <2> QED
    BY <1>5, <2>1, <2>2, <2>3 DEF Balanced
<1> QED
  BY <1>9, CountedNext

\* Every step keeps the balance.
LEMMA CountedStep ==
    ASSUME IdsTypeOK, Placed, Placed', Over, CountedOnce, [IdsNext]_vars
    PROVE  CountedOnce'
<1> USE DEF loop, database, history
<1>0. \A a \in Addrs : Balanced(a)
  BY CountedIs
<1>1. CASE RemoveRecords
  <2> DEFINE n == Cardinality(OldRecords)
  <2>1. /\ records \in Seq(Record) /\ n \in 0 .. Len(records) /\ OldRecords = 1 .. n
        /\ records' = SubSeq(records, n + 1, Len(records))
        /\ UNCHANGED <<received, ignored, newRecords, intrusions, past>>
        /\ expired' = [a \in Addrs |-> expired[a] + Cardinality(OldRecords \cap Packets(a))]
    BY <1>1, OldRecordsAre DEF IdsTypeOK, RemoveRecords
  <2> HIDE DEF n
  <2>2. ASSUME NEW a \in Addrs PROVE Balanced(a)'
    <3> DEFINE c == Cardinality(From(records, a) \cap (1 .. n))
    <3>1. CountIn(records, a) = c + CountIn(records', a)
      BY <2>1, CountSub
    <3>2. expired'[a] = expired[a] + c
      <4>1. OldRecords \cap Packets(a) = From(records, a) \cap (1 .. n)
        BY <2>1 DEF Packets, From
      <4> QED
        BY <2>1, <4>1
    <3>3. c \in Nat /\ CountIn(records', a) \in Nat
      <4>1. IsFiniteSet(From(records, a)) /\ records' \in Seq(Record)
        BY <2>1, CountType, RestIs
      <4>2. c \in Nat
        BY <4>1, FS_Subset, FS_CardinalityType
      <4> QED
        BY <4>1, <4>2, CountType
    <3> HIDE DEF c
    <3>4. Balanced(a)
      BY <1>0
    <3> QED
      BY <2>1, <3>1, <3>2, <3>3, <3>4, Parts DEF Balanced
  <2> QED
    BY <2>2, CountedNext
<1>2. CASE RemoveIntrusion
  BY <1>2, CountRemoveIntrusion
<1>3. ASSUME NEW pr, pr = Head(newRecords), Collect(pr), NEW a \in Addrs
      PROVE  /\ pr \in Record /\ pr = newRecords[1]
             /\ CountIn(newRecords, a) = CountIn(newRecords', a) + IF pr.srcAddr = a THEN 1 ELSE 0
             /\ CountIn(newRecords', a) \in Nat
             /\ UNCHANGED <<received, expired, past>>
  <2>1. newRecords \in Seq(Record) /\ newRecords # <<>> /\ newRecords' = Tail(newRecords)
        /\ UNCHANGED <<received, expired, past>>
    BY <1>3 DEF IdsTypeOK, Collect
  <2>2. pr \in Record /\ newRecords' \in Seq(Record) /\ pr = newRecords[1]
    BY <1>3, CollectIs
  <2>3. CountIn(newRecords', a) \in Nat
    BY <2>2, CountType
  <2>4. CountIn(newRecords, a) = CountIn(newRecords', a) + IF pr.srcAddr = a THEN 1 ELSE 0
    BY <1>3, <2>1, CountTail
  <2> QED
    BY <2>1, <2>2, <2>3, <2>4
<1>4. CASE CollectIgnored
  <2>1. PICK pr : pr = Head(newRecords)
    OBVIOUS
  <2>2. /\ Collect(pr) /\ ignored' = [ignored EXCEPT ![pr.srcAddr] = @ + 1]
        /\ UNCHANGED <<records, intrusions>>
    BY <1>4, <2>1 DEF CollectIgnored
  <2>3. ASSUME NEW a \in Addrs PROVE Balanced(a)'
    <3>1. /\ pr \in Record
          /\ CountIn(newRecords, a) = CountIn(newRecords', a) + IF pr.srcAddr = a THEN 1 ELSE 0
          /\ CountIn(newRecords', a) \in Nat
          /\ UNCHANGED <<received, expired, past>>
      BY <1>3, <2>1, <2>2
    <3>2. ignored'[a] = ignored[a] + IF pr.srcAddr = a THEN 1 ELSE 0
      BY <2>2, <3>1 DEF IdsTypeOK, Record
    <3>3. Balanced(a)
      BY <1>0
    <3> QED
      BY <2>2, <3>1, <3>2, <3>3, Parts DEF Balanced
  <2> QED
    BY <2>3, CountedNext
<1>5. CASE CollectTracked
  <2>1. PICK pr : pr = Head(newRecords)
    OBVIOUS
  <2>2. Collect(pr) /\ UNCHANGED <<records, ignored>>
    BY <1>5, <2>1 DEF CollectTracked, Keep
  <2>3. PICK i \in DOMAIN intrusions :
           /\ newRecords[1] \in Record /\ intrusions[i] \in Intrusion
           /\ intrusions[i].srcAddr = newRecords[1].srcAddr
           /\ DOMAIN intrusions' = DOMAIN intrusions
           /\ \A k \in DOMAIN intrusions :
                 intrusions'[k] = IF k = i THEN Added(intrusions[i], newRecords[1])
                                  ELSE intrusions[k]
    BY <1>5, TrackedIs
  <2>4. /\ intrusions'[i].n = intrusions[i].n + 1 /\ intrusions[i].n \in Nat
        /\ intrusions'[i].srcAddr = intrusions[i].srcAddr
    BY <2>3, AddedType, Fields
  <2>5. ASSUME NEW a \in Addrs PROVE Balanced(a)'
    <3>1. /\ pr = newRecords[1]
          /\ CountIn(newRecords, a) = CountIn(newRecords', a) + IF pr.srcAddr = a THEN 1 ELSE 0
          /\ CountIn(newRecords', a) \in Nat
          /\ UNCHANGED <<received, expired, past>>
      BY <1>3, <2>1, <2>2
    <3>2. MemoryOf(intrusions', a) = MemoryOf(intrusions, a) + IF pr.srcAddr = a THEN 1 ELSE 0
      <4>1. CASE pr.srcAddr = a
        <5>1. From(intrusions, a) = {i}
          BY <2>3, <3>1, <4>1, OnlyOne
        <5>2. From(intrusions', a) = {i}
          BY <2>3, <2>4, <3>1, <4>1 DEF From, Placed
        <5>3. MemoryOf(intrusions, a) = intrusions[i].n
          BY <2>4, <5>1, MemoryIs
        <5>4. MemoryOf(intrusions', a) = intrusions'[i].n
          BY <2>4, <5>2, MemoryIs
        <5> QED
          BY <2>4, <4>1, <5>3, <5>4
      <4>2. CASE pr.srcAddr # a
        <5>1. \A k \in From(intrusions', a) : k \in From(intrusions, a)
                                              /\ intrusions'[k] = intrusions[k]
          BY <2>3, <2>4, <3>1, <4>2 DEF From
        <5>2. \A k \in From(intrusions, a) : k \in From(intrusions', a)
                                             /\ intrusions'[k] = intrusions[k]
          BY <2>3, <3>1, <4>2 DEF From
        <5>3. MemoryOf(intrusions', a) = MemoryOf(intrusions, a)
          BY <5>1, <5>2, MemorySame
        <5> QED
          BY <4>2, <5>3, Parts
      <4> QED
        BY <4>1, <4>2
    <3>3. Balanced(a)
      BY <1>0
    <3>4. /\ received[a] \in Nat /\ ignored[a] \in Nat /\ expired[a] \in Nat
          /\ CountIn(records, a) \in Nat /\ CountIn(newRecords, a) \in Nat
          /\ MemoryOf(intrusions, a) \in Nat /\ PastOf(past, a) \in Nat
      BY Parts
    <3>5. /\ received'[a] = received[a] /\ ignored'[a] = ignored[a]
          /\ expired'[a] = expired[a] /\ PastOf(past', a) = PastOf(past, a)
          /\ CountIn(records', a) = CountIn(records, a)
      BY <2>2, <3>1
    <3> QED
      BY <3>1, <3>2, <3>3, <3>4, <3>5 DEF Balanced
  <2> QED
    BY <2>5, CountedNext
<1>6. CASE CollectNew
  <2>1. PICK pr : pr = Head(newRecords)
    OBVIOUS
  <2>2. /\ Collect(pr) /\ UNCHANGED <<intrusions, ignored>>
        /\ records' = Append(records, pr) /\ records \in Seq(Record)
    BY <1>6, <2>1 DEF CollectNew, Keep, IdsTypeOK
  <2>3. ASSUME NEW a \in Addrs PROVE Balanced(a)'
    <3>1. /\ pr \in Record
          /\ CountIn(newRecords, a) = CountIn(newRecords', a) + IF pr.srcAddr = a THEN 1 ELSE 0
          /\ CountIn(newRecords', a) \in Nat
          /\ UNCHANGED <<received, expired, past>>
      BY <1>3, <2>1, <2>2
    <3>2. CountIn(records', a) = CountIn(records, a) + IF pr.srcAddr = a THEN 1 ELSE 0
      BY <2>2, <3>1, CountAppend
    <3>3. Balanced(a)
      BY <1>0
    <3>4. /\ received[a] \in Nat /\ ignored[a] \in Nat /\ expired[a] \in Nat
          /\ CountIn(records, a) \in Nat /\ CountIn(newRecords, a) \in Nat
          /\ MemoryOf(intrusions, a) \in Nat /\ PastOf(past, a) \in Nat
      BY Parts
    <3>5. /\ received'[a] = received[a] /\ ignored'[a] = ignored[a]
          /\ expired'[a] = expired[a] /\ PastOf(past', a) = PastOf(past, a)
          /\ MemoryOf(intrusions', a) = MemoryOf(intrusions, a)
      BY <2>2, <3>1
    <3> QED
      BY <3>1, <3>2, <3>3, <3>4, <3>5 DEF Balanced
  <2> QED
    BY <2>3, CountedNext
<1>7. ASSUME NEW b \in Many, CollectRecords(b) PROVE CountedOnce'
  <2>1. /\ UNCHANGED <<received, ignored, expired, newRecords, past>>
        /\ records \in Seq(Record) /\ intrusions \in Seq(Intrusion)
        /\ records' = RemoveIf(records, From(records, b))
        /\ intrusions' = Append(intrusions, Found(b))
    <3>1. Packets(b) = From(records, b)
      BY DEF Packets, From
    <3> QED
      BY <1>7, <3>1 DEF CollectRecords, IdsTypeOK
  <2>2. Found(b).srcAddr = b /\ Found(b).n = CountIn(records, b) /\ CountIn(records, b) \in Nat
        /\ b \in Addrs
    BY FoundIs
  <2> DEFINE i == Len(intrusions) + 1
  <2>3. /\ i \in DOMAIN intrusions' /\ intrusions'[i] = Found(b) /\ i \notin DOMAIN intrusions
        /\ DOMAIN intrusions' = DOMAIN intrusions \cup {i}
        /\ \A k \in DOMAIN intrusions : intrusions'[k] = intrusions[k]
    BY <2>1
  <2> HIDE DEF i
  <2>4. From(intrusions, b) = {}
    <3>1. PICK k \in DOMAIN records : records[k].srcAddr = b
      BY FoundIs DEF Packets
    <3> QED
      BY <3>1 DEF From, Placed
  <2>5. ASSUME NEW a \in Addrs PROVE Balanced(a)'
    <3>1. CountIn(records', a) = IF a = b THEN 0 ELSE CountIn(records, a)
      BY <2>1, CountRemoveIf
    <3>2. Balanced(a)
      BY <1>0
    <3>5. /\ received[a] \in Nat /\ ignored[a] \in Nat /\ expired[a] \in Nat
          /\ CountIn(records, a) \in Nat /\ CountIn(newRecords, a) \in Nat
          /\ MemoryOf(intrusions, a) \in Nat /\ PastOf(past, a) \in Nat
      BY Parts
    <3>3. CASE a = b
      <4>1. From(intrusions', a) = {i}
        BY <2>2, <2>3, <2>4, <3>3 DEF From
      <4>2. MemoryOf(intrusions', a) = CountIn(records, a)
        BY <2>2, <2>3, <3>3, <4>1, MemoryIs
      <4>3. MemoryOf(intrusions, a) = 0
        BY <2>4, <3>3, MemoryIs
      <4>4. received'[a] = received[a] /\ ignored'[a] = ignored[a]
            /\ expired'[a] = expired[a] /\ PastOf(past', a) = PastOf(past, a)
            /\ CountIn(newRecords', a) = CountIn(newRecords, a)
        BY <2>1
      <4>5. CountIn(records', a) = 0
        BY <3>1, <3>3
      <4> QED
        BY <3>2, <3>5, <4>2, <4>3, <4>4, <4>5 DEF Balanced
    <3>4. CASE a # b
      <4>1. \A k \in From(intrusions', a) : k \in From(intrusions, a)
                                            /\ intrusions'[k] = intrusions[k]
        BY <2>2, <2>3, <3>4 DEF From
      <4>2. \A k \in From(intrusions, a) : k \in From(intrusions', a)
                                           /\ intrusions'[k] = intrusions[k]
        BY <2>3 DEF From
      <4>3. MemoryOf(intrusions', a) = MemoryOf(intrusions, a)
        BY <4>1, <4>2, MemorySame
      <4>4. received'[a] = received[a] /\ ignored'[a] = ignored[a]
            /\ expired'[a] = expired[a] /\ PastOf(past', a) = PastOf(past, a)
            /\ CountIn(newRecords', a) = CountIn(newRecords, a)
        BY <2>1
      <4>5. CountIn(records', a) = CountIn(records, a)
        BY <3>1, <3>4
      <4> QED
        BY <3>2, <4>3, <4>4, <4>5 DEF Balanced
    <3> QED
      BY <3>3, <3>4
  <2> QED
    BY <2>5, CountedNext
<1>8. ASSUME NEW b \in Addrs, Receive(b) PROVE CountedOnce'
  <2> DEFINE pr == [srcAddr |-> b, time |-> time]
  <2>1. /\ UNCHANGED <<ignored, expired, records, intrusions, past>>
        /\ received' = [received EXCEPT ![b] = @ + 1]
        /\ newRecords' = Append(newRecords, pr) /\ newRecords \in Seq(Record)
    BY <1>8 DEF Receive, IdsTypeOK
  <2>2. pr \in Record /\ pr.srcAddr = b
    BY DEF IdsTypeOK, Record
  <2> HIDE DEF pr
  <2>3. ASSUME NEW a \in Addrs PROVE Balanced(a)'
    <3>1. CountIn(newRecords', a) = CountIn(newRecords, a) + IF b = a THEN 1 ELSE 0
      BY <2>1, <2>2, CountAppend
    <3>2. received'[a] = received[a] + IF b = a THEN 1 ELSE 0
      BY <2>1 DEF IdsTypeOK
    <3>3. Balanced(a)
      BY <1>0
    <3>4. /\ received[a] \in Nat /\ ignored[a] \in Nat /\ expired[a] \in Nat
          /\ CountIn(records, a) \in Nat /\ CountIn(newRecords, a) \in Nat
          /\ MemoryOf(intrusions, a) \in Nat /\ PastOf(past, a) \in Nat
      BY Parts
    <3>5. /\ ignored'[a] = ignored[a] /\ expired'[a] = expired[a]
          /\ PastOf(past', a) = PastOf(past, a) /\ CountIn(records', a) = CountIn(records, a)
          /\ MemoryOf(intrusions', a) = MemoryOf(intrusions, a)
      BY <2>1
    <3> QED
      BY <3>1, <3>2, <3>3, <3>4, <3>5 DEF Balanced
  <2> QED
    BY <2>3, CountedNext
<1>9. CASE UNCHANGED <<received, ignored, expired, records, newRecords, intrusions, past>>
  BY <1>0, <1>9, CountedNext DEF Balanced
<1>10. CASE Tick \/ RecognizeIntrusions \/ ExecuteSql \/ ExecuteFails \/ UNCHANGED vars
  BY <1>9, <1>10 DEF Tick, RecognizeIntrusions, ExecuteSql, ExecuteFails, Detector, vars
<1> QED
  BY <1>1, <1>2, <1>4, <1>5, <1>6, <1>7, <1>8, <1>10 DEF IdsNext, Detect

-----------------------------------------------------------------------------
(* The invariants of the detector, and of it together with the capture *)

IInv ==
    /\ IdsTypeOK
    /\ Placed
    /\ Arrived
    /\ Collected
    /\ Tracked
    /\ Over
    /\ Heard
    /\ Follows
    /\ CountedOnce

\* It holds when the detector starts.
LEMMA IdsInit == Init => IInv
<1> SUFFICES ASSUME Init PROVE IInv
  OBVIOUS
<1>1. IdsTypeOK
  BY IdsTypeInit
<1>2. /\ newRecords = <<>> /\ records = <<>> /\ intrusions = <<>> /\ past = {}
      /\ rows = <<>> /\ sqlQueue = <<>>
      /\ received = [a \in Addrs |-> 0] /\ ignored = [a \in Addrs |-> 0]
      /\ expired = [a \in Addrs |-> 0]
  BY DEF Init
<1>3. Placed /\ Arrived /\ Collected /\ Tracked /\ Over /\ Heard /\ Follows
  BY <1>2 DEF Placed, Arrived, Collected, Tracked, Over, Heard, Follows
<1>4. ASSUME NEW a \in Addrs PROVE Balanced(a)
  <2>1. From(records, a) = {} /\ From(newRecords, a) = {} /\ From(intrusions, a) = {}
    BY <1>2 DEF From
  <2>2. CountIn(records, a) = 0 /\ CountIn(newRecords, a) = 0
    BY <2>1, FS_EmptySet DEF CountIn
  <2>3. MemoryOf(intrusions, a) = 0
    BY <2>1, MemoryIs
  <2>4. PastOf(past, a) = 0
    <3>1. {ri \in past : ri.srcAddr = a} = {}
      BY <1>2
    <3> QED
      BY <3>1, CountOfEmpty DEF PastOf
  <2>5. received[a] = 0 /\ ignored[a] = 0 /\ expired[a] = 0
    BY <1>2
  <2> QED
    BY <2>2, <2>3, <2>4, <2>5 DEF Balanced
<1>5. CountedOnce
  BY <1>4, CountedIs
<1> QED
  BY <1>1, <1>3, <1>5 DEF IInv

\* Every step of the detector, of a terminal and of the database preserves it.
LEMMA IdsStep ==
    ASSUME IInv, [IdsNext]_vars
    PROVE  IInv'
<1> USE DEF IInv
<1>1. IdsTypeOK'
  BY IdsTypeStep
<1>2. Placed'
  BY PlacedStep
<1>3. Arrived' /\ Collected' /\ Tracked' /\ Over'
  BY ArrivedStep, CollectedStep, TrackedStep, OverStep
<1>4. Heard' /\ Follows'
  BY HeardStep, FollowsStep
<1>5. CountedOnce'
  BY <1>2, CountedStep
<1> QED
  BY <1>1, <1>2, <1>3, <1>4, <1>5

\* The capture program and the detector together take such steps only.
LEMMA DetectionStep ==
    ASSUME [DetectionNext]_<<capture, vars>>
    PROVE  [IdsNext]_vars
BY DEF DetectionNext, ReportPacket, IdsNext

\* The invariant holds for the capture program and the detector together.
LEMMA DetectionInductive == DetectionSpec => []IInv
<1>1. DetectionInit => IInv
  BY IdsInit DEF DetectionInit
<1>2. IInv /\ [DetectionNext]_<<capture, vars>> => IInv'
  BY IdsStep, DetectionStep
<1> QED
  BY <1>1, <1>2, PTL DEF DetectionSpec

\* A source is ignored, or tracked by one intrusion, or its packets wait in
\* records: never two of these, so that IdsWorker.collectRecords may give a packet
\* to the first intrusion of its source, whatever the terminals deliver between
\* the loops of the detector and however often the source is found and forgotten.
THEOREM SourcesOwned == DetectionSpec => []OneOwner
<1>1. IInv => OneOwner
  BY PlacedOwner DEF IInv
<1> QED
  BY <1>1, DetectionInductive, PTL

\* Each packet a terminal has delivered is counted once, by one intrusion, in
\* memory or forgotten, or among those that wait, are ignored or were dropped with
\* age; none twice by collectRecords and recognizeIntrusions, none lost between them.
THEOREM PacketsCountedOnce == DetectionSpec => []CountedOnce
<1>1. IInv => CountedOnce
  BY DEF IInv
<1> QED
  BY <1>1, DetectionInductive, PTL

\* What intoDatabase has marked updated is, once the queue of the SqlConnection is
\* empty, in one row of ids_statistics with the counts of memory: the UPDATE of an
\* intrusion comes after its INSERT and touches no other row, also where an
\* earlier intrusion of the same source has a row.
THEOREM TableFollows == DetectionSpec => []RowsFollowMemory
<1>1. IInv => RowsFollowMemory
  BY FollowsRows DEF IInv
<1> QED
  BY <1>1, DetectionInductive, PTL
=============================================================================
