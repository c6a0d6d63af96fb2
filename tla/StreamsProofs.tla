---------------------------- MODULE StreamsProofs ----------------------------
(***************************************************************************)
(* Proofs about Streams, for any clients and any sizes of the payload: the *)
(* order of the requests that are performed or answered, on both servers,  *)
(* that what a function of the S7 server is handed is one message, and     *)
(* that no request is lost in which nothing was refused or timed out.      *)
(*                                                                         *)
(* What is not read yet is a line without a gap, of which each step of the *)
(* worker takes some units from the front (Moved).  So a unit that was     *)
(* read comes before all that is still to come, whatever was purged, and   *)
(* the order follows.  That a payload is whole needs more: what is in the  *)
(* buffer of the message being received, at each place of the worker.      *)
(* That nothing is lost needs to know which unit comes next at each place. *)
(***************************************************************************)
EXTENDS Streams, SequenceTheorems, WellFoundedInduction, TLAPS

-----------------------------------------------------------------------------
(* Numbers *)

\* The least of a set of numbers.
LEMMA LeastNumber ==
    ASSUME NEW S \in SUBSET Nat, S # {}
    PROVE  \E i \in S : \A j \in S : i <= j
<1>1. PICK i \in S : \A j \in S : <<j, i>> \notin OpToRel(<, Nat)
  BY NatLessThanWellFounded, WFMin
<1>2. ASSUME NEW j \in S PROVE i <= j
  <2>1. i \in Nat /\ j \in Nat
    OBVIOUS
  <2>2. ~ (j < i)
    BY <2>1, <1>1 DEF OpToRel
  <2> QED
    BY <2>1, <2>2
<1> QED
  BY <1>2

-----------------------------------------------------------------------------
(* Sequences put together *)

\* The sequences that FlattenSeq goes through: F[i] is what the first i make.
Flattening(F, seqs) ==
    /\ F = [i \in 0 .. Len(seqs) |-> F[i]]
    /\ F[0] = <<>>
    /\ \A i \in 1 .. Len(seqs) : F[i] = F[i - 1] \o seqs[i]

\* A property of a number that 0 has, and that each number hands on to the next
\* up to n, is one of every number up to n.
LEMMA UpTo ==
    ASSUME NEW n \in Nat, NEW P,
           P \in SUBSET (0 .. n), 0 \in P,
           \A i \in 0 .. n - 1 : i \in P => i + 1 \in P
    PROVE  P = 0 .. n
<1> DEFINE R == (0 .. n) \ P
<1>1. SUFFICES ASSUME R # {} PROVE FALSE
  OBVIOUS
<1>2. PICK i \in R : \A j \in R : i <= j
  <2>1. R \in SUBSET Nat
    OBVIOUS
  <2> QED
    BY <1>1, <2>1, LeastNumber
<1>3. i # 0 /\ i - 1 \in 0 .. n - 1 /\ (i - 1) + 1 = i
  BY <1>2
<1>4. i - 1 \notin R
  BY <1>2, <1>3
<1> QED
  BY <1>2, <1>3, <1>4

\* What FlattenSeq returns is the last of these.
LEMMA FlattenIs ==
    ASSUME NEW S, NEW seqs \in Seq(Seq(S))
    PROVE  \E F : Flattening(F, seqs) /\ FlattenSeq(seqs) = F[Len(seqs)]
<1> DEFINE n == Len(seqs)
           Rec(i, f) == f = [j \in 1 .. i |-> IF j = 1 THEN seqs[j] ELSE f[j - 1] \o seqs[j]]
           flatten == CHOOSE f : Rec(n, f)
<1>0. n \in Nat
  OBVIOUS
<1>1. CASE n = 0
  <2> DEFINE F == [i \in 0 .. n |-> <<>>]
  <2>1. seqs = <<>> /\ FlattenSeq(seqs) = seqs
    <3>1. seqs = <<>>
      BY <1>1, EmptySeq
    <3>2. FlattenSeq(seqs) = seqs
      BY <1>1 DEF FlattenSeq
    <3> QED
      BY <3>1, <3>2
  <2>2. Flattening(F, seqs) /\ F[n] = <<>>
    BY <1>1 DEF Flattening
  <2> QED
    BY <2>1, <2>2
<1>2. CASE n # 0
  <2>1. FlattenSeq(seqs) = flatten[n]
    BY <1>2 DEF FlattenSeq
  <2> DEFINE P == {i \in 0 .. n : \E f : Rec(i, f)}
  <2>2. P = 0 .. n
    <3>1. 0 \in P
      <4> DEFINE f == [j \in 1 .. 0 |-> <<>>]
      <4>1. Rec(0, f)
        OBVIOUS
      <4>2. \E g : Rec(0, g)
        BY <4>1
      <4> HIDE DEF Rec
      <4> QED
        BY <1>0, <4>2
    <3>2. ASSUME NEW i \in 0 .. n - 1, i \in P PROVE i + 1 \in P
      <4>1. PICK f : Rec(i, f)
        BY <3>2
      <4> DEFINE g == [j \in 1 .. i + 1 |-> IF j = 1 THEN seqs[j] ELSE f[j - 1] \o seqs[j]]
      <4>2. ASSUME NEW j \in 1 .. i + 1, j # 1 PROVE g[j - 1] = f[j - 1]
        <5>1. j - 1 \in 1 .. i /\ j - 1 \in 1 .. i + 1
          BY <4>2
        <5> QED
          BY <4>1, <5>1
      <4>3. Rec(i + 1, g)
        BY <4>2
      <4>4. \E h : Rec(i + 1, h)
        BY <4>3
      <4> HIDE DEF Rec
      <4> QED
        BY <1>0, <4>4
    <3> HIDE DEF P
    <3>3. P \in SUBSET (0 .. n)
      BY DEF P
    <3> QED
      BY <1>0, <3>1, <3>2, <3>3, UpTo
  <2>3. Rec(n, flatten)
    <3>1. n \in 0 .. n
      BY <1>0
    <3> HIDE DEF Rec
    <3>2. \E f : Rec(n, f)
      BY <2>2, <3>1
    <3> QED
      BY <3>2
  <2> HIDE DEF flatten
  <2> DEFINE F == [i \in 0 .. n |-> IF i = 0 THEN <<>> ELSE flatten[i]]
  <2>4. ASSUME NEW i \in 1 .. n PROVE F[i] = F[i - 1] \o seqs[i]
    <3>1. F[i] = flatten[i] /\ i \in Nat /\ i - 1 \in 0 .. n
      BY <1>0
    <3>2. flatten[i] = IF i = 1 THEN seqs[i] ELSE flatten[i - 1] \o seqs[i]
      BY <2>3
    <3>3. CASE i = 1
      <4>1. seqs[i] = <<>> \o seqs[i]
        BY ConcatEmptySeq, ElementOfSeq
      <4> QED
        BY <3>1, <3>2, <3>3, <4>1
    <3>4. CASE i # 1
      <4>1. F[i - 1] = flatten[i - 1]
        BY <3>1, <3>4
      <4> QED
        BY <3>1, <3>2, <3>4, <4>1
    <3> QED
      BY <3>3, <3>4
  <2>5. Flattening(F, seqs)
    <3>1. F = [i \in 0 .. Len(seqs) |-> F[i]] /\ F[0] = <<>>
      BY <1>0
    <3> HIDE DEF F
    <3> QED
      BY <2>4, <3>1 DEF Flattening
  <2>6. F[n] = flatten[n]
    BY <1>0, <1>2
  <2> QED
    BY <2>1, <2>5, <2>6
<1> QED
  BY <1>1, <1>2

\* One after the other: each element is linked by R to the next.
Linked(s, R) == \A a \in 1 .. Len(s) - 1 : <<s[a], s[a + 1]>> \in R

LEMMA LinkedConcat ==
    ASSUME NEW S, NEW R, NEW s \in Seq(S), NEW t \in Seq(S), s # <<>>, t # <<>>,
           Linked(s, R), Linked(t, R), <<s[Len(s)], t[1]>> \in R
    PROVE  /\ s \o t \in Seq(S) /\ s \o t # <<>> /\ Linked(s \o t, R)
           /\ (s \o t)[1] = s[1] /\ (s \o t)[Len(s \o t)] = t[Len(t)]
<1>1. /\ s \o t \in Seq(S) /\ Len(s \o t) = Len(s) + Len(t)
      /\ \A i \in 1 .. Len(s) + Len(t) :
            (s \o t)[i] = IF i <= Len(s) THEN s[i] ELSE t[i - Len(s)]
  BY ConcatProperties
<1>2. Len(s) \in Nat \ {0} /\ Len(t) \in Nat \ {0}
  BY EmptySeq
<1>3. ASSUME NEW a \in 1 .. Len(s) + Len(t) - 1
      PROVE  <<(s \o t)[a], (s \o t)[a + 1]>> \in R
  <2>1. a \in 1 .. Len(s) + Len(t) /\ a + 1 \in 1 .. Len(s) + Len(t)
    BY <1>2
  <2>2. CASE a < Len(s)
    <3>1. (s \o t)[a] = s[a] /\ (s \o t)[a + 1] = s[a + 1] /\ a \in 1 .. Len(s) - 1
      BY <1>1, <1>2, <2>1, <2>2
    <3> QED
      BY <3>1 DEF Linked
  <2>3. CASE a = Len(s)
    <3>1. (s \o t)[a] = s[Len(s)] /\ (s \o t)[a + 1] = t[1]
      BY <1>1, <1>2, <2>1, <2>3
    <3> QED
      BY <3>1
  <2>4. CASE a > Len(s)
    <3>1. /\ (s \o t)[a] = t[a - Len(s)] /\ (s \o t)[a + 1] = t[(a - Len(s)) + 1]
          /\ a - Len(s) \in 1 .. Len(t) - 1
      BY <1>1, <1>2, <2>1, <2>4
    <3> QED
      BY <3>1 DEF Linked
  <2>5. a < Len(s) \/ a = Len(s) \/ a > Len(s)
    BY <1>2, <2>1
  <2> QED
    BY <2>2, <2>3, <2>4, <2>5
<1>4. (s \o t)[1] = s[1] /\ (s \o t)[Len(s) + Len(t)] = t[Len(t)]
  <2>1. 1 \in 1 .. Len(s) + Len(t) /\ Len(s) + Len(t) \in 1 .. Len(s) + Len(t)
    BY <1>2
  <2> QED
    BY <1>1, <1>2, <2>1
<1>5. s \o t # <<>>
  BY <1>1, <1>2, EmptySeq
<1> QED
  BY <1>1, <1>3, <1>4, <1>5 DEF Linked

\* Linked sequences of which each leads to the next are linked as one.
LEMMA FlattenLinked ==
    ASSUME NEW S, NEW R, NEW seqs \in Seq(Seq(S) \ {<<>>}), seqs # <<>>,
           \A i \in 1 .. Len(seqs) : Linked(seqs[i], R),
           \A i \in 1 .. Len(seqs) - 1 : <<seqs[i][Len(seqs[i])], seqs[i + 1][1]>> \in R
    PROVE  /\ FlattenSeq(seqs) \in Seq(S) \ {<<>>}
           /\ Linked(FlattenSeq(seqs), R)
           /\ FlattenSeq(seqs)[1] = seqs[1][1]
           /\ FlattenSeq(seqs)[Len(FlattenSeq(seqs))] = seqs[Len(seqs)][Len(seqs[Len(seqs)])]
<1> DEFINE n == Len(seqs)
<1>1. seqs \in Seq(Seq(S)) /\ n \in Nat \ {0}
  <2>1. Seq(S) \ {<<>>} \subseteq Seq(S)
    OBVIOUS
  <2> QED
    BY <2>1, SeqMonotonic, EmptySeq
<1>2. PICK F : Flattening(F, seqs) /\ FlattenSeq(seqs) = F[n]
  BY <1>1, FlattenIs
<1> DEFINE Good(i) == /\ F[i] \in Seq(S) \ {<<>>} /\ Linked(F[i], R)
                      /\ F[i][1] = seqs[1][1] /\ F[i][Len(F[i])] = seqs[i][Len(seqs[i])]
           P == {i \in 0 .. n : i > 0 => Good(i)}
<1>3. \A i \in 1 .. n : seqs[i] \in Seq(S) \ {<<>>}
  BY ElementOfSeq
<1>4. ASSUME NEW i \in 0 .. n - 1, i \in P PROVE i + 1 \in P
  <2>1. /\ i + 1 \in 1 .. n /\ F[i + 1] = F[i] \o seqs[i + 1]
        /\ seqs[i + 1] \in Seq(S) \ {<<>>} /\ Linked(seqs[i + 1], R)
    <3>1. i + 1 \in 1 .. n /\ (i + 1) - 1 = i
      BY <1>1
    <3> QED
      BY <1>2, <1>3, <3>1 DEF Flattening
  <2>2. CASE i = 0
    <3>1. F[i] = <<>> /\ i + 1 = 1
      BY <1>2, <2>2 DEF Flattening
    <3>2. F[i + 1] = seqs[i + 1]
      BY <2>1, <3>1, ConcatEmptySeq
    <3>3. Good(1)
      BY <2>1, <3>1, <3>2
    <3>4. Good(i + 1)
      BY <3>1, <3>3
    <3> HIDE DEF Good
    <3> QED
      BY <1>1, <2>1, <3>4
  <2>3. CASE i > 0
    <3>1. Good(i) /\ i \in 1 .. n - 1
      BY <1>4, <2>3
    <3>2. <<F[i][Len(F[i])], seqs[i + 1][1]>> \in R
      BY <3>1
    <3>3. /\ F[i + 1] \in Seq(S) /\ F[i + 1] # <<>> /\ Linked(F[i + 1], R)
          /\ F[i + 1][1] = F[i][1]
          /\ F[i + 1][Len(F[i + 1])] = seqs[i + 1][Len(seqs[i + 1])]
      <4>1. F[i] \in Seq(S) /\ F[i] # <<>> /\ Linked(F[i], R)
        BY <3>1
      <4>2. seqs[i + 1] \in Seq(S) /\ seqs[i + 1] # <<>>
        BY <2>1
      <4>3. /\ F[i] \o seqs[i + 1] \in Seq(S) /\ F[i] \o seqs[i + 1] # <<>>
            /\ Linked(F[i] \o seqs[i + 1], R)
            /\ (F[i] \o seqs[i + 1])[1] = F[i][1]
            /\ (F[i] \o seqs[i + 1])[Len(F[i] \o seqs[i + 1])] = seqs[i + 1][Len(seqs[i + 1])]
        <5> HIDE DEF Good
        <5>1. Linked(seqs[i + 1], R)
          BY <2>1
        <5>2. \A s, t \in Seq(S) : s # <<>> /\ t # <<>> /\ Linked(s, R) /\ Linked(t, R)
                  /\ <<s[Len(s)], t[1]>> \in R =>
                 /\ s \o t \in Seq(S) /\ s \o t # <<>> /\ Linked(s \o t, R)
                 /\ (s \o t)[1] = s[1] /\ (s \o t)[Len(s \o t)] = t[Len(t)]
          BY ONLY LinkedConcat
        <5> QED
          BY ONLY <3>2, <4>1, <4>2, <5>1, <5>2
      <4> QED
        BY ONLY <2>1, <4>3
    <3>4. Good(i + 1)
      BY <3>1, <3>3
    <3> HIDE DEF Good
    <3> QED
      BY <1>1, <2>1, <3>4
  <2> QED
    BY <1>1, <2>2, <2>3
<1>5. n \in P
  <2>1. P \in SUBSET (0 .. n) /\ 0 \in P
    BY <1>1
  <2> HIDE DEF P
  <2>2. P = 0 .. n
    BY <1>1, <1>4, <2>1, UpTo
  <2> QED
    BY <1>1, <2>2
<1>6. Good(n)
  BY <1>1, <1>5
<1> QED
  BY <1>2, <1>6

\* The lengths of the first i of a sequence of sequences.
LEMMA FlattenLengths ==
    ASSUME NEW S, NEW seqs \in Seq(Seq(S))
    PROVE  \E F : /\ Flattening(F, seqs) /\ FlattenSeq(seqs) = F[Len(seqs)]
                  /\ \A i \in 0 .. Len(seqs) : F[i] \in Seq(S)
                  /\ \A i \in 1 .. Len(seqs) : Len(F[i]) = Len(F[i - 1]) + Len(seqs[i])
<1> DEFINE n == Len(seqs)
<1>0. n \in Nat
  OBVIOUS
<1>1. PICK F : Flattening(F, seqs) /\ FlattenSeq(seqs) = F[n]
  BY FlattenIs
<1> DEFINE P == {i \in 0 .. n : F[i] \in Seq(S)}
<1>2. ASSUME NEW i \in 0 .. n - 1, F[i] \in Seq(S)
      PROVE  F[i + 1] \in Seq(S) /\ Len(F[i + 1]) = Len(F[i]) + Len(seqs[i + 1])
  <2>1. i + 1 \in 1 .. n /\ (i + 1) - 1 = i
    BY <1>0
  <2>2. F[i + 1] = F[i] \o seqs[i + 1] /\ seqs[i + 1] \in Seq(S)
    BY <1>1, <2>1, ElementOfSeq DEF Flattening
  <2> QED
    BY <1>2, <2>2, ConcatProperties
<1>3. P = 0 .. n
  <2>1. P \in SUBSET (0 .. n) /\ 0 \in P
    <3>1. F[0] \in Seq(S)
      BY <1>1, EmptySeq DEF Flattening
    <3> QED
      BY <1>0, <3>1
  <2>2. ASSUME NEW i \in 0 .. n - 1, i \in P PROVE i + 1 \in P
    <3>1. F[i] \in Seq(S)
      BY <2>2
    <3>2. i + 1 \in 0 .. n
      BY <1>0
    <3>3. F[i + 1] \in Seq(S)
      BY <1>2, <3>1
    <3> QED
      BY <3>2, <3>3
  <2> HIDE DEF P
  <2> QED
    BY <1>0, <2>1, <2>2, UpTo
<1>4. \A i \in 0 .. n : F[i] \in Seq(S)
  BY <1>3
<1>5. ASSUME NEW i \in 1 .. n PROVE Len(F[i]) = Len(F[i - 1]) + Len(seqs[i])
  <2>1. i - 1 \in 0 .. n - 1 /\ (i - 1) + 1 = i /\ i - 1 \in 0 .. n
    BY <1>0
  <2>2. F[i - 1] \in Seq(S)
    BY <1>4, <2>1
  <2>3. Len(F[(i - 1) + 1]) = Len(F[i - 1]) + Len(seqs[(i - 1) + 1])
    BY <1>2, <2>1, <2>2
  <2> QED
    BY <2>1, <2>3
<1> QED
  BY <1>1, <1>4, <1>5

-----------------------------------------------------------------------------
(* The line of what the client sends *)

Unit == [m : Nat, p : Nat, k : Int]

\* The units of the script, and what comes behind each of them and at the end.
Sent ==
    {u \in Unit :
        u.m \in DOMAIN script /\ u.p \in DOMAIN script[u.m] /\ u.k \in -1 .. Size(u.m, u.p)}

At(m, p, k) == [m |-> m, p |-> p, k |-> k]

NextUnit(u) ==
    IF u.k < Size(u.m, u.p) THEN At(u.m, u.p, u.k + 1)
    ELSE IF u.p < Len(script[u.m]) THEN At(u.m, u.p + 1, -1)
    ELSE At(u.m + 1, 1, -1)

End == At(Len(script) + 1, 1, -1)

Links == {uv \in Sent \X Sent : uv[2] = NextUnit(uv[1])}

\* What is not read yet is without a gap, and as long as the client has not
\* closed the connection it goes to the end of the script.
Line ==
    /\ script \in IF server = "s7" THEN IsoScripts ELSE ModbusScripts
    /\ stream \in Seq(Sent) /\ wire \in Seq(Sent)
    /\ Linked(Ahead, Links)
    /\ Ahead # <<>> /\ ~closed => NextUnit(Ahead[Len(Ahead)]) = End

\* The unit that is read next.
Comes(u) == IF Ahead # <<>> THEN Ahead[1] = u ELSE closed \/ u = End

ScriptOK == script \in IF server = "s7" THEN IsoScripts ELSE ModbusScripts

LEMMA ScriptShape ==
    ASSUME server \in {"s7", "modbus"}, ScriptOK
    PROVE  /\ Len(script) \in Nat /\ DOMAIN script = 1 .. Len(script)
           /\ \A m \in 1 .. Len(script) :
                 /\ Len(script[m]) \in Nat \ {0} /\ DOMAIN script[m] = 1 .. Len(script[m])
                 /\ \A p \in 1 .. Len(script[m]) : script[m][p].len \in Int /\ Size(m, p) \in Nat
<1> DEFINE IsoPacket == [type : {"CR", "DR", "DT", "other"}, ok : BOOLEAN, len : Int, eot : BOOLEAN]
           ModbusPacket == [proto : BOOLEAN, fun : Headers \ {"proto", "short"}, claimed : Int, len : Nat, value : Values]
<1>1. CASE server = "s7"
  <2>1. script \in Seq(Seq(IsoPacket) \ {<<>>})
    BY <1>1, ScriptsAssumption DEF ScriptOK
  <2>2. Len(script) \in Nat /\ DOMAIN script = 1 .. Len(script)
    BY <2>1, LenProperties
  <2>3. ASSUME NEW m \in 1 .. Len(script)
        PROVE  /\ Len(script[m]) \in Nat \ {0} /\ DOMAIN script[m] = 1 .. Len(script[m])
               /\ \A p \in 1 .. Len(script[m]) : script[m][p].len \in Int /\ Size(m, p) \in Nat
    <3>1. script[m] \in Seq(IsoPacket) /\ script[m] # <<>>
      BY <2>1, <2>2, ElementOfSeq
    <3>2. Len(script[m]) \in Nat \ {0} /\ DOMAIN script[m] = 1 .. Len(script[m])
      BY <3>1, EmptySeq, LenProperties
    <3>3. \A p \in 1 .. Len(script[m]) : script[m][p] \in IsoPacket
      BY <3>1, <3>2, ElementOfSeq
    <3> QED
      BY <3>2, <3>3 DEF Size
  <2> QED
    BY <2>2, <2>3
<1>2. CASE server = "modbus"
  <2>1. script \in Seq(Seq(ModbusPacket)) /\ \A m \in DOMAIN script : Len(script[m]) = 1
    BY <1>2, ScriptsAssumption DEF ScriptOK
  <2>2. Len(script) \in Nat /\ DOMAIN script = 1 .. Len(script)
    BY <2>1, LenProperties
  <2>3. ASSUME NEW m \in 1 .. Len(script)
        PROVE  /\ Len(script[m]) \in Nat \ {0} /\ DOMAIN script[m] = 1 .. Len(script[m])
               /\ \A p \in 1 .. Len(script[m]) : script[m][p].len \in Int /\ Size(m, p) \in Nat
    <3>1. script[m] \in Seq(ModbusPacket) /\ Len(script[m]) = 1
      BY <2>1, <2>2, ElementOfSeq
    <3>2. DOMAIN script[m] = 1 .. Len(script[m])
      BY <3>1, LenProperties
    <3>3. \A p \in 1 .. Len(script[m]) : script[m][p] \in ModbusPacket
      BY <3>1, <3>2, ElementOfSeq
    <3> QED
      BY <3>1, <3>2, <3>3 DEF Size
  <2> QED
    BY <2>2, <2>3
<1> QED
  BY <1>1, <1>2

\* A packet as it is sent.
Sending(m, p) == [k \in 1 .. HeaderSize + Size(m, p) |-> At(m, p, k - HeaderSize)]

LEMMA SendingLinked ==
    ASSUME server \in {"s7", "modbus"}, ScriptOK,
           NEW m \in 1 .. Len(script), NEW p \in 1 .. Len(script[m])
    PROVE  /\ Sending(m, p) \in Seq(Sent) \ {<<>>}
           /\ Len(Sending(m, p)) = HeaderSize + Size(m, p)
           /\ Linked(Sending(m, p), Links)
           /\ Sending(m, p)[1] = At(m, p, -1)
           /\ Sending(m, p)[Len(Sending(m, p))] = At(m, p, Size(m, p))
<1>1. /\ m \in DOMAIN script /\ p \in DOMAIN script[m] /\ Size(m, p) \in Nat
      /\ m \in Nat /\ p \in Nat /\ HeaderSize = 2
  BY ScriptShape DEF HeaderSize
<1>2. ASSUME NEW k \in -1 .. Size(m, p) PROVE At(m, p, k) \in Sent
  BY <1>1 DEF Sent, Unit, At
<1>3. \A k \in 1 .. 2 + Size(m, p) : Sending(m, p)[k] = At(m, p, k - 2) /\ k - 2 \in -1 .. Size(m, p)
  BY <1>1 DEF Sending
<1>4. Sending(m, p) \in Seq(Sent) /\ Len(Sending(m, p)) = 2 + Size(m, p)
  <2>1. 2 + Size(m, p) \in Nat
    BY <1>1
  <2>2. \A k \in 1 .. 2 + Size(m, p) : At(m, p, k - 2) \in Sent
    BY <1>2, <1>3
  <2>3. Sending(m, p) \in [1 .. 2 + Size(m, p) -> Sent]
    BY <1>1, <2>2 DEF Sending
  <2>4. Sending(m, p) \in Seq(Sent)
    BY <2>1, <2>3, SeqDef
  <2>5. DOMAIN Sending(m, p) = 1 .. 2 + Size(m, p)
    BY <2>3
  <2> QED
    BY <2>1, <2>4, <2>5, LenProperties
<1>5. ASSUME NEW k \in 1 .. 1 + Size(m, p)
      PROVE  <<Sending(m, p)[k], Sending(m, p)[k + 1]>> \in Links
  <2>1. /\ Sending(m, p)[k] = At(m, p, k - 2) /\ k - 2 \in -1 .. Size(m, p)
        /\ Sending(m, p)[k + 1] = At(m, p, k - 1) /\ k - 1 \in -1 .. Size(m, p)
    <3>1. k \in 1 .. 2 + Size(m, p) /\ k + 1 \in 1 .. 2 + Size(m, p) /\ (k + 1) - 2 = k - 1
      BY <1>1
    <3> QED
      BY <1>3, <3>1
  <2>2. NextUnit(At(m, p, k - 2)) = At(m, p, k - 1)
    <3>1. k - 2 < Size(m, p) /\ (k - 2) + 1 = k - 1
      BY <1>1
    <3> QED
      BY <3>1 DEF NextUnit, At
  <2> QED
    BY <1>2, <2>1, <2>2 DEF Links
<1>6. Linked(Sending(m, p), Links)
  <2>1. (2 + Size(m, p)) - 1 = 1 + Size(m, p)
    BY <1>1
  <2> QED
    BY <1>4, <1>5, <2>1 DEF Linked
<1>7. Sending(m, p)[1] = At(m, p, -1) /\ Sending(m, p)[2 + Size(m, p)] = At(m, p, Size(m, p))
  <2>1. /\ 1 \in 1 .. 2 + Size(m, p) /\ 2 + Size(m, p) \in 1 .. 2 + Size(m, p)
        /\ (2 + Size(m, p)) - 2 = Size(m, p) /\ 1 - 2 = -1
    BY <1>1
  <2> QED
    BY <1>3, <2>1
<1>8. Sending(m, p) # <<>>
  BY <1>1, <1>4, EmptySeq
<1> QED
  BY <1>1, <1>4, <1>6, <1>7, <1>8

LEMMA UnitsLinked ==
    ASSUME server \in {"s7", "modbus"}, ScriptOK, NEW m \in 1 .. Len(script)
    PROVE  /\ Units(m) \in Seq(Sent) \ {<<>>}
           /\ Linked(Units(m), Links)
           /\ Units(m)[1] = At(m, 1, -1)
           /\ NextUnit(Units(m)[Len(Units(m))]) = At(m + 1, 1, -1)
<1> DEFINE n == Len(script[m])
           seqs == [p \in DOMAIN script[m] |-> Sending(m, p)]
<1>0. n \in Nat \ {0} /\ DOMAIN script[m] = 1 .. n /\ m \in DOMAIN script /\ m \in Nat
  BY ScriptShape
<1>1. Units(m) = FlattenSeq(seqs)
  BY DEF Units, Sending, At
<1>2. seqs \in Seq(Seq(Sent) \ {<<>>}) /\ Len(seqs) = n /\ DOMAIN seqs = 1 .. n
  <2>1. \A p \in 1 .. n : Sending(m, p) \in Seq(Sent) \ {<<>>}
    BY SendingLinked
  <2>2. seqs \in [1 .. n -> Seq(Sent) \ {<<>>}]
    BY <1>0, <2>1
  <2> HIDE DEF seqs
  <2>3. seqs \in Seq(Seq(Sent) \ {<<>>}) /\ DOMAIN seqs = 1 .. n
    BY <1>0, <2>2, SeqDef
  <2> QED
    BY <1>0, <2>3, LenProperties
<1>3. \A p \in 1 .. n : seqs[p] = Sending(m, p)
  BY <1>0
<1> HIDE DEF seqs
<1>4. seqs # <<>>
  BY <1>0, <1>2, EmptySeq
<1>5. ASSUME NEW p \in 1 .. n PROVE Linked(seqs[p], Links)
  BY <1>3, SendingLinked
<1>6. ASSUME NEW p \in 1 .. n - 1
      PROVE  <<seqs[p][Len(seqs[p])], seqs[p + 1][1]>> \in Links
  <2>1. p \in 1 .. n /\ p + 1 \in 1 .. n /\ p < n
    BY <1>0
  <2>2. /\ seqs[p][Len(seqs[p])] = At(m, p, Size(m, p)) /\ seqs[p + 1][1] = At(m, p + 1, -1)
    BY <1>3, <2>1, SendingLinked
  <2>3. Size(m, p) \in Nat /\ Size(m, p + 1) \in Nat
    BY <2>1, ScriptShape
  <2>4. At(m, p, Size(m, p)) \in Sent /\ At(m, p + 1, -1) \in Sent
    BY <1>0, <2>1, <2>3 DEF Sent, Unit, At
  <2>5. NextUnit(At(m, p, Size(m, p))) = At(m, p + 1, -1)
    BY <2>1, <2>3 DEF NextUnit, At
  <2> QED
    BY <2>2, <2>4, <2>5 DEF Links
<1>7. /\ FlattenSeq(seqs) \in Seq(Sent) \ {<<>>} /\ Linked(FlattenSeq(seqs), Links)
      /\ FlattenSeq(seqs)[1] = seqs[1][1]
      /\ FlattenSeq(seqs)[Len(FlattenSeq(seqs))] = seqs[n][Len(seqs[n])]
  BY <1>2, <1>4, <1>5, <1>6, FlattenLinked
<1>8. seqs[1][1] = At(m, 1, -1) /\ seqs[n][Len(seqs[n])] = At(m, n, Size(m, n))
  <2>1. 1 \in 1 .. n /\ n \in 1 .. n
    BY <1>0
  <2> QED
    BY <1>3, <2>1, SendingLinked
<1>9. NextUnit(At(m, n, Size(m, n))) = At(m + 1, 1, -1)
  <2>1. Size(m, n) \in Nat
    BY <1>0, ScriptShape
  <2> QED
    BY <1>0, <2>1 DEF NextUnit, At
<1> QED
  BY <1>1, <1>7, <1>8, <1>9

\* At the beginning all of it is on its way.
LEMMA LineInit ==
    ASSUME Init
    PROVE  Line /\ Comes(At(1, 1, -1))
<1> DEFINE n == Len(script)
           seqs == [m \in DOMAIN script |-> Units(m)]
<1>0. server \in {"s7", "modbus"} /\ ScriptOK
  BY DEF Init, SocketInit, ScriptOK
<1>1. n \in Nat /\ DOMAIN script = 1 .. n
  BY <1>0, ScriptShape
<1>2. wire = FlattenSeq(seqs) /\ stream = <<>> /\ stream \in Seq(Sent)
  BY EmptySeq DEF Init, SocketInit
<1>3. seqs \in Seq(Seq(Sent) \ {<<>>}) /\ Len(seqs) = n
  <2>1. \A m \in 1 .. n : Units(m) \in Seq(Sent) \ {<<>>}
    BY <1>0, UnitsLinked
  <2>2. seqs \in [1 .. n -> Seq(Sent) \ {<<>>}]
    BY <1>1, <2>1
  <2> HIDE DEF seqs
  <2>3. seqs \in Seq(Seq(Sent) \ {<<>>}) /\ DOMAIN seqs = 1 .. n
    BY <1>1, <2>2, SeqDef
  <2> QED
    BY <1>1, <2>3, LenProperties
<1>4. \A m \in 1 .. n : seqs[m] = Units(m)
  BY <1>1
<1> HIDE DEF seqs
<1>5. CASE n = 0
  <2>1. seqs = <<>>
    BY <1>3, <1>5, EmptySeq
  <2>2. wire = <<>> /\ wire \in Seq(Sent)
    BY <1>2, <2>1, EmptySeq DEF FlattenSeq
  <2>3. Ahead = <<>> /\ Len(Ahead) = 0
    BY <1>2, <2>2, ConcatEmptySeq, EmptySeq DEF Ahead
  <2>4. Linked(Ahead, Links)
    BY <2>3 DEF Linked
  <2> QED
    BY <1>0, <1>2, <1>5, <2>2, <2>3, <2>4 DEF Line, Comes, End, ScriptOK
<1>6. CASE n # 0
  <2>1. n \in Nat \ {0} /\ seqs # <<>>
    BY <1>1, <1>3, <1>6, EmptySeq
  <2>2. ASSUME NEW m \in 1 .. n PROVE Linked(seqs[m], Links)
    BY <1>0, <1>4, UnitsLinked
  <2>3. ASSUME NEW m \in 1 .. n - 1
        PROVE  <<seqs[m][Len(seqs[m])], seqs[m + 1][1]>> \in Links
    <3>1. m \in 1 .. n /\ m + 1 \in 1 .. n
      BY <1>1
    <3>2. /\ NextUnit(Units(m)[Len(Units(m))]) = At(m + 1, 1, -1)
          /\ Units(m + 1)[1] = At(m + 1, 1, -1)
          /\ Units(m) \in Seq(Sent) \ {<<>>} /\ Units(m + 1) \in Seq(Sent) \ {<<>>}
      BY <1>0, <3>1, UnitsLinked
    <3>3. Units(m)[Len(Units(m))] \in Sent /\ Units(m + 1)[1] \in Sent
      <4>1. Len(Units(m)) \in 1 .. Len(Units(m)) /\ 1 \in 1 .. Len(Units(m + 1))
        BY <3>2, EmptySeq
      <4> QED
        BY <3>2, <4>1, ElementOfSeq
    <3> QED
      BY <1>4, <3>1, <3>2, <3>3 DEF Links
  <2>4. /\ wire \in Seq(Sent) \ {<<>>} /\ Linked(wire, Links)
        /\ wire[1] = seqs[1][1] /\ wire[Len(wire)] = seqs[n][Len(seqs[n])]
    BY <1>2, <1>3, <2>1, <2>2, <2>3, FlattenLinked
  <2>5. Ahead = wire
    BY <1>2, <2>4, ConcatEmptySeq DEF Ahead
  <2>6. wire[1] = At(1, 1, -1) /\ NextUnit(wire[Len(wire)]) = End
    <3>1. 1 \in 1 .. n /\ n \in 1 .. n
      BY <2>1
    <3> QED
      BY <1>0, <1>4, <2>4, <3>1, UnitsLinked DEF End
  <2> QED
    BY <1>0, <1>2, <2>4, <2>5, <2>6 DEF Line, Comes, ScriptOK
<1> QED
  BY <1>5, <1>6

-----------------------------------------------------------------------------
(* Reading from the line *)

\* n units have been read, and perhaps the connection has been closed.
Moved(n) ==
    /\ script' = script /\ server' = server
    /\ stream' \in Seq(Sent) /\ wire' \in Seq(Sent)
    /\ Len(Ahead') + n <= Len(Ahead)
    /\ \A i \in 1 .. Len(Ahead') : Ahead'[i] = Ahead[i + n]
    /\ ~closed' => ~closed /\ Len(Ahead') + n = Len(Ahead)

LEMMA AheadShape ==
    ASSUME Line
    PROVE  /\ Ahead \in Seq(Sent) /\ Len(Ahead) \in Nat /\ Len(stream) \in Nat
           /\ Len(Ahead) = Len(stream) + Len(wire) /\ Len(stream) <= Len(Ahead)
           /\ (Ahead = <<>> <=> Len(Ahead) = 0)
           /\ \A i \in 1 .. Len(Ahead) : Ahead[i] \in Sent
           /\ \A i \in 1 .. Len(stream) : Ahead[i] = stream[i]
<1>1. stream \in Seq(Sent) /\ wire \in Seq(Sent)
  BY DEF Line
<1>2. /\ Ahead \in Seq(Sent) /\ Len(Ahead) = Len(stream) + Len(wire)
      /\ \A i \in 1 .. Len(stream) + Len(wire) :
            Ahead[i] = IF i <= Len(stream) THEN stream[i] ELSE wire[i - Len(stream)]
  BY <1>1, ConcatProperties DEF Ahead
<1>3. Len(stream) \in Nat /\ Len(wire) \in Nat /\ Len(Ahead) \in Nat
  BY <1>1, <1>2
<1>4. Ahead = <<>> <=> Len(Ahead) = 0
  BY <1>2, EmptySeq
<1>5. \A i \in 1 .. Len(Ahead) : Ahead[i] \in Sent
  BY <1>2, ElementOfSeq
<1> QED
  BY <1>2, <1>3, <1>4, <1>5

\* The names of the units depend on the script alone.
LEMMA SameScript ==
    ASSUME script' = script, server' = server
    PROVE  /\ Sent' = Sent /\ Links' = Links /\ End' = End
           /\ \A u : NextUnit(u)' = NextUnit(u)
  BY DEF Sent, Links, End, NextUnit, Size

\* As it is for one read, the line is for the rest of it.
LEMMA MovedLine ==
    ASSUME Line, NEW n \in Nat, Moved(n)
    PROVE  Line'
<1>1. /\ Ahead \in Seq(Sent) /\ Len(Ahead) \in Nat /\ Linked(Ahead, Links)
  BY AheadShape DEF Line
<1>2. Ahead' \in Seq(Sent) /\ Len(Ahead') \in Nat
  <2>1. Ahead' = stream' \o wire'
    BY DEF Ahead
  <2>2. Ahead' \in Seq(Sent)
    BY <2>1, ConcatProperties DEF Moved
  <2> QED
    BY <2>2
<1>3. Links' = Links /\ Sent' = Sent /\ End' = End
  BY SameScript DEF Moved
<1>4. ASSUME NEW i \in 1 .. Len(Ahead') - 1
      PROVE  <<Ahead'[i], Ahead'[i + 1]>> \in Links
  <2>1. /\ i \in 1 .. Len(Ahead') /\ i + 1 \in 1 .. Len(Ahead') /\ i + n \in 1 .. Len(Ahead) - 1
        /\ (i + 1) + n = (i + n) + 1
    BY <1>1, <1>2 DEF Moved
  <2>2. Ahead'[i] = Ahead[i + n] /\ Ahead'[i + 1] = Ahead[(i + n) + 1]
    BY <2>1 DEF Moved
  <2> QED
    BY <1>1, <2>1, <2>2 DEF Linked
<1>5. Linked(Ahead, Links)'
  BY <1>3, <1>4 DEF Linked
<1>6. ASSUME Ahead' # <<>>, ~closed'
      PROVE  (NextUnit(Ahead[Len(Ahead)]) = End)'
  <2>1. Len(Ahead') \in 1 .. Len(Ahead') /\ Len(Ahead') + n = Len(Ahead) /\ ~closed
    BY <1>2, <1>6, EmptySeq DEF Moved
  <2>2. Ahead'[Len(Ahead')] = Ahead[Len(Ahead)]
    BY <2>1 DEF Moved
  <2>3. NextUnit(Ahead[Len(Ahead)]) = End
    <3>1. Ahead # <<>>
      BY <1>1, <2>1, EmptySeq
    <3> QED
      BY <2>1, <3>1 DEF Line
  <2> DEFINE u == Ahead'[Len(Ahead')]
  <2>4. NextUnit(Ahead[Len(Ahead)])' = NextUnit(Ahead[Len(Ahead)])
    BY <2>2 DEF NextUnit, Size, Moved
  <2> QED
    BY <1>3, <2>3, <2>4
<1> QED
  BY <1>3, <1>5, <1>6 DEF Line, Moved

\* What the operators of the socket do to the line.
LEMMA ReadMoves ==
    ASSUME Line, NEW n \in Nat, n <= Len(stream),
           stream' = SubSeq(stream, n + 1, Len(stream)),
           UNCHANGED <<server, script, wire, closed>>
    PROVE  Moved(n)
<1>1. stream \in Seq(Sent) /\ wire \in Seq(Sent) /\ Len(stream) \in Nat /\ Len(wire) \in Nat
  BY DEF Line
<1>2. /\ stream' \in Seq(Sent) /\ Len(stream') = Len(stream) - n
      /\ \A i \in 1 .. Len(stream) - n : stream'[i] = stream[i + n]
  <2>1. \A i \in n + 1 .. Len(stream) : stream[i] \in Sent
    <3>1. \A i \in 1 .. Len(stream) : stream[i] \in Sent
      BY <1>1, ElementOfSeq
    <3> QED
      BY <1>1, <3>1
  <2>2. n + 1 \in Int /\ Len(stream) \in Int
    BY <1>1
  <2>3. /\ stream' \in Seq(Sent)
        /\ Len(stream') = IF n + 1 <= Len(stream) THEN Len(stream) - (n + 1) + 1 ELSE 0
        /\ \A i \in 1 .. Len(stream) - (n + 1) + 1 : stream'[i] = stream[n + 1 + i - 1]
    BY <2>1, <2>2, SubSeqProperties
  <2>4. Len(stream') = Len(stream) - n
    BY <1>1, <2>3
  <2>5. ASSUME NEW i \in 1 .. Len(stream) - n PROVE stream'[i] = stream[i + n]
    <3>1. i \in 1 .. Len(stream) - (n + 1) + 1 /\ n + 1 + i - 1 = i + n
      BY <1>1
    <3> QED
      BY <2>3, <3>1
  <2> QED
    BY <2>3, <2>4, <2>5
<1>3. /\ Len(Ahead) = Len(stream) + Len(wire)
      /\ \A i \in 1 .. Len(stream) + Len(wire) :
            Ahead[i] = IF i <= Len(stream) THEN stream[i] ELSE wire[i - Len(stream)]
  BY <1>1, ConcatProperties DEF Ahead
<1>4. /\ Len(Ahead') = Len(stream') + Len(wire)
      /\ \A i \in 1 .. Len(stream') + Len(wire) :
            Ahead'[i] = IF i <= Len(stream') THEN stream'[i] ELSE wire[i - Len(stream')]
  <2>1. Ahead' = stream' \o wire
    BY DEF Ahead
  <2> QED
    BY <1>1, <1>2, <2>1, ConcatProperties
<1>5. ASSUME NEW i \in 1 .. Len(Ahead') PROVE Ahead'[i] = Ahead[i + n]
  <2>1. i + n \in 1 .. Len(stream) + Len(wire) /\ i \in 1 .. Len(stream') + Len(wire)
    BY <1>1, <1>2, <1>4
  <2>2. CASE i <= Len(stream')
    <3>1. i \in 1 .. Len(stream) - n /\ i + n <= Len(stream)
      BY <1>1, <1>2, <2>2, <1>4
    <3> QED
      BY <1>2, <1>3, <1>4, <2>1, <2>2, <3>1
  <2>3. CASE ~ (i <= Len(stream'))
    <3>1. ~ (i + n <= Len(stream)) /\ (i + n) - Len(stream) = i - Len(stream')
      <4> DEFINE a == Len(stream)
                 b == Len(stream')
      <4>1. i \in Nat /\ b = a - n /\ a \in Nat /\ ~ (i <= b)
        BY <1>1, <1>2, <2>1, <2>3
      <4> HIDE DEF a, b
      <4>2. ~ (i + n <= a) /\ (i + n) - a = i - b
        BY <4>1
      <4> QED
        BY <4>2 DEF a, b
    <3> QED
      BY <1>3, <1>4, <2>1, <2>3, <3>1
  <2> QED
    BY <2>2, <2>3
<1> QED
  BY <1>1, <1>2, <1>3, <1>4, <1>5 DEF Moved

LEMMA StandsStill ==
    ASSUME Line, UNCHANGED <<server, script, wire, stream, closed>>
    PROVE  Moved(0)
<1>1. Ahead' = Ahead
  BY DEF Ahead
<1> QED
  BY <1>1, AheadShape DEF Moved, Line

LEMMA ArriveMoves ==
    ASSUME Line, Arrive, UNCHANGED server
    PROVE  Moved(0) /\ Ahead' = Ahead
<1>1. stream \in Seq(Sent) /\ wire \in Seq(Sent) /\ wire # <<>>
  BY DEF Line, Arrive
<1>2. Head(wire) \in Sent /\ Tail(wire) \in Seq(Sent)
  BY <1>1, HeadTailProperties
<1>3. stream' = stream \o <<Head(wire)>> /\ stream' \in Seq(Sent) /\ wire' = Tail(wire)
  BY <1>1, <1>2, AppendProperties, AppendIsConcat DEF Arrive
<1>4. Ahead' = Ahead
  <2>1. wire = <<Head(wire)>> \o Tail(wire)
    <3>1. <<Head(wire)>> \in Seq(Sent) /\ Len(<<Head(wire)>>) = 1
      BY <1>2
    <3>2. /\ Len(Tail(wire)) = Len(wire) - 1 /\ Len(wire) \in Nat \ {0}
          /\ \A i \in 1 .. Len(Tail(wire)) : Tail(wire)[i] = wire[i + 1]
      BY <1>1, HeadTailProperties, EmptySeq
    <3>3. /\ <<Head(wire)>> \o Tail(wire) \in Seq(Sent)
          /\ Len(<<Head(wire)>> \o Tail(wire)) = Len(wire)
          /\ \A i \in 1 .. 1 + Len(Tail(wire)) : (<<Head(wire)>> \o Tail(wire))[i] =
                IF i <= 1 THEN <<Head(wire)>>[i] ELSE Tail(wire)[i - 1]
      BY <1>2, <3>1, <3>2, ConcatProperties
    <3>4. ASSUME NEW i \in 1 .. Len(wire) PROVE wire[i] = (<<Head(wire)>> \o Tail(wire))[i]
      <4>1. CASE i = 1
        BY <1>1, <3>2, <3>3, <4>1
      <4>2. CASE i # 1
        <5>1. i - 1 \in 1 .. Len(Tail(wire)) /\ ~ (i <= 1) /\ (i - 1) + 1 = i
          BY <3>2, <4>2
        <5> QED
          BY <3>2, <3>3, <5>1
      <4> QED
        BY <4>1, <4>2
    <3> QED
      BY <1>1, <3>3, <3>4, SeqEqual
  <2>2. <<Head(wire)>> \in Seq(Sent)
    BY <1>2
  <2> QED
    BY <1>1, <1>2, <1>3, <2>1, <2>2, ConcatAssociative DEF Ahead
<1> QED
  BY <1>2, <1>3, <1>4, AheadShape DEF Moved, Arrive

LEMMA CloseMoves ==
    ASSUME Line, Close, UNCHANGED server
    PROVE  Moved(0)
<1>1. stream \in Seq(Sent) /\ wire \in Seq(Sent)
  BY DEF Line
<1>2. stream' = stream /\ wire' = <<>> /\ closed' /\ script' = script
  BY DEF Close
<1>3. Ahead' = stream /\ wire' \in Seq(Sent)
  BY <1>1, <1>2, ConcatEmptySeq, EmptySeq DEF Ahead
<1> QED
  BY <1>1, <1>2, <1>3, AheadShape DEF Moved

LEMMA DrainMoves ==
    ASSUME Line, NEW drain, NEW done, Drain(drain, done), UNCHANGED server
    PROVE  \E n \in Nat : /\ n <= Len(stream) /\ Moved(n) /\ clean' = (clean /\ n = 0)
                          /\ n = 0 => Len(stream) = 0
<1> DEFINE n == IF Len(stream) < TrashSize THEN Len(stream) ELSE TrashSize
<1>1. n \in Nat /\ n <= Len(stream) /\ (n = 0 => Len(stream) = 0)
  BY TrashAssumption, AheadShape
<1>2. stream' = SubSeq(stream, n + 1, Len(stream)) /\ UNCHANGED <<server, script, wire, closed>>
  BY DEF Drain
<1>3. clean' = (clean /\ n = 0)
  BY DEF Drain
<1> HIDE DEF n
<1> QED
  BY <1>1, <1>2, <1>3, ReadMoves

\* What comes next, after a read of one unit at least, and after none.
LEMMA ComesAfter ==
    ASSUME Line, NEW n \in Nat \ {0}, n <= Len(Ahead), Moved(n), NEW u, u = NextUnit(Ahead[n])
    PROVE  IF Ahead' # <<>> THEN Ahead'[1] = u ELSE closed' \/ u = End
<1>1. Len(Ahead) \in Nat /\ Len(Ahead') \in Nat /\ (Ahead' = <<>> <=> Len(Ahead') = 0)
  BY MovedLine, AheadShape
<1>2. CASE Ahead' # <<>>
  <2>1. 1 \in 1 .. Len(Ahead') /\ n \in 1 .. Len(Ahead) - 1 /\ 1 + n = n + 1
    BY <1>1, <1>2 DEF Moved
  <2>2. Ahead'[1] = Ahead[n + 1]
    BY <2>1 DEF Moved
  <2>3. <<Ahead[n], Ahead[n + 1]>> \in Links
    BY <2>1 DEF Line, Linked
  <2> QED
    BY <1>2, <2>2, <2>3 DEF Links
<1>3. CASE Ahead' = <<>> /\ ~closed'
  <2>1. n = Len(Ahead) /\ ~closed /\ Ahead # <<>>
    BY <1>1, <1>3, AheadShape DEF Moved
  <2> QED
    BY <1>3, <2>1 DEF Line
<1> QED
  BY <1>2, <1>3

LEMMA ComesStill ==
    ASSUME Line, Moved(0), NEW u, Comes(u)
    PROVE  IF Ahead' # <<>> THEN Ahead'[1] = u ELSE closed' \/ u = End
<1>1. Len(Ahead) \in Nat /\ Len(Ahead') \in Nat /\ (Ahead' = <<>> <=> Len(Ahead') = 0)
      /\ (Ahead = <<>> <=> Len(Ahead) = 0)
  BY MovedLine, AheadShape
<1>2. CASE Ahead' # <<>>
  <2>1. 1 \in 1 .. Len(Ahead') /\ Ahead # <<>> /\ 1 + 0 = 1
    BY <1>1, <1>2 DEF Moved
  <2> QED
    BY <1>2, <2>1 DEF Moved, Comes
<1>3. CASE Ahead' = <<>> /\ ~closed'
  <2>1. Ahead = <<>> /\ ~closed
    BY <1>1, <1>3 DEF Moved
  <2> QED
    BY <1>3, <2>1 DEF Comes
<1> QED
  BY <1>2, <1>3

\* Of one packet the units come in the order of their numbers.
LEMMA RunOf ==
    ASSUME Line, server \in {"s7", "modbus"}, NEW n \in Nat, n <= Len(Ahead), n > 0,
           Ahead[1].k + (n - 1) <= Size(Ahead[1].m, Ahead[1].p)
    PROVE  \A i \in 1 .. n : Ahead[i] = At(Ahead[1].m, Ahead[1].p, Ahead[1].k + (i - 1))
<1> DEFINE u == Ahead[1]
           P == {d \in 0 .. n - 1 : Ahead[d + 1] = At(u.m, u.p, u.k + d)}
<1>1. u \in Sent /\ Len(Ahead) \in Nat
  <2>1. 1 \in 1 .. Len(Ahead)
    BY AheadShape
  <2> QED
    BY <2>1, AheadShape
<1>2. u.m \in Nat /\ u.p \in Nat /\ u.k \in Int /\ Size(u.m, u.p) \in Nat /\ u = At(u.m, u.p, u.k)
  <2>1. u \in Unit /\ u.m \in DOMAIN script /\ u.p \in DOMAIN script[u.m]
    BY <1>1 DEF Sent
  <2>2. Size(u.m, u.p) \in Nat
    BY <2>1, ScriptShape DEF Line, ScriptOK
  <2> QED
    BY <2>1, <2>2 DEF Unit, At
<1>3. ASSUME NEW d \in 0 .. (n - 1) - 1, d \in P PROVE d + 1 \in P
  <2>1. d + 1 \in 1 .. Len(Ahead) - 1 /\ d + 1 \in 0 .. n - 1
    BY <1>1
  <2>2. <<Ahead[d + 1], Ahead[(d + 1) + 1]>> \in Links
    BY <2>1 DEF Line, Linked
  <2>3. Ahead[(d + 1) + 1] = NextUnit(At(u.m, u.p, u.k + d))
    BY <1>3, <2>2 DEF Links
  <2>4. u.k + d < Size(u.m, u.p) /\ (u.k + d) + 1 = u.k + (d + 1)
    BY <1>2
  <2>5. NextUnit(At(u.m, u.p, u.k + d)) = At(u.m, u.p, u.k + (d + 1))
    BY <2>4 DEF NextUnit, At
  <2> QED
    BY <2>1, <2>3, <2>5
<1>4. P = 0 .. n - 1
  <2>1. n - 1 \in Nat
    OBVIOUS
  <2>2. P \in SUBSET (0 .. n - 1) /\ 0 \in P
    BY <1>2, <2>1
  <2> HIDE DEF P
  <2> QED
    BY <1>3, <2>1, <2>2, UpTo
<1>5. ASSUME NEW i \in 1 .. n PROVE Ahead[i] = At(u.m, u.p, u.k + (i - 1))
  <2>1. i - 1 \in 0 .. n - 1 /\ (i - 1) + 1 = i
    OBVIOUS
  <2>2. i - 1 \in P
    BY <1>4, <2>1
  <2> QED
    BY <2>1, <2>2
<1> QED
  BY <1>5

\* A unit is sent before another.
Before(u, v) ==
    \/ u.m < v.m
    \/ u.m = v.m /\ u.p < v.p
    \/ u.m = v.m /\ u.p = v.p /\ u.k < v.k

LEMMA Increasing ==
    ASSUME Line, NEW i \in 1 .. Len(Ahead), NEW j \in 1 .. Len(Ahead), i < j
    PROVE  Before(Ahead[i], Ahead[j])
<1> DEFINE n == Len(Ahead) - i - 1
           P == {d \in 0 .. n : Before(Ahead[i], Ahead[(i + d) + 1])}
<1>1. Len(Ahead) \in Nat /\ n \in Nat
  BY AheadShape
<1>2. \A a \in 1 .. Len(Ahead) : Ahead[a].m \in Nat /\ Ahead[a].p \in Nat /\ Ahead[a].k \in Int
  BY AheadShape DEF Sent, Unit
<1>3. ASSUME NEW a \in 1 .. Len(Ahead) - 1 PROVE Before(Ahead[a], Ahead[a + 1])
  <2>1. Ahead[a + 1] = NextUnit(Ahead[a])
    BY <1>3 DEF Line, Linked, Links
  <2>2. a \in 1 .. Len(Ahead)
    BY <1>1
  <2> QED
    BY <1>2, <2>1, <2>2 DEF NextUnit, At, Before
<1>4. ASSUME NEW d \in 0 .. n - 1, d \in P PROVE d + 1 \in P
  <2>1. /\ (i + d) + 1 \in 1 .. Len(Ahead) - 1 /\ (i + (d + 1)) + 1 = ((i + d) + 1) + 1
        /\ d + 1 \in 0 .. n
        /\ (i + d) + 1 \in 1 .. Len(Ahead) /\ ((i + d) + 1) + 1 \in 1 .. Len(Ahead)
    BY <1>1
  <2>2. Before(Ahead[i], Ahead[(i + d) + 1]) /\ Before(Ahead[(i + d) + 1], Ahead[((i + d) + 1) + 1])
    BY <1>3, <1>4, <2>1
  <2>3. Before(Ahead[i], Ahead[((i + d) + 1) + 1])
    <3> DEFINE u == Ahead[i]
               v == Ahead[(i + d) + 1]
               w == Ahead[((i + d) + 1) + 1]
    <3>1. /\ u.m \in Nat /\ u.p \in Nat /\ u.k \in Int
          /\ v.m \in Nat /\ v.p \in Nat /\ v.k \in Int
          /\ w.m \in Nat /\ w.p \in Nat /\ w.k \in Int
      BY <1>2, <2>1
    <3>2. Before(u, v) /\ Before(v, w)
      BY <2>2
    <3> HIDE DEF u, v, w
    <3>3. CASE u.m < v.m \/ v.m < w.m
      <4>1. u.m < w.m
        BY <3>1, <3>2, <3>3 DEF Before
      <4> QED
        BY <4>1 DEF Before, u, w
    <3>4. CASE ~ (u.m < v.m \/ v.m < w.m)
      <4>1. u.m = w.m
        BY <3>2, <3>4 DEF Before
      <4>2. \/ u.p < w.p
            \/ u.p = w.p /\ u.k < w.k
        BY <3>1, <3>2, <3>4 DEF Before
      <4> QED
        BY <4>1, <4>2 DEF Before, u, w
    <3> QED
      BY <3>3, <3>4
  <2> QED
    BY <2>1, <2>3
<1>5. P = 0 .. n
  <2>1. 0 \in P
    <3>1. i \in 1 .. Len(Ahead) - 1 /\ (i + 0) + 1 = i + 1 /\ 0 \in 0 .. n
      BY <1>1
    <3> QED
      BY <1>3, <3>1
  <2>2. P \in SUBSET (0 .. n)
    OBVIOUS
  <2> HIDE DEF P, n
  <2> QED
    BY <1>1, <1>4, <2>1, <2>2, UpTo
<1>6. j - i - 1 \in 0 .. n /\ (i + (j - i - 1)) + 1 = j
  BY <1>1
<1>7. j - i - 1 \in P
  BY <1>5, <1>6
<1> QED
  BY <1>6, <1>7

-----------------------------------------------------------------------------
(* What the worker of the S7 server holds *)

Headers7 ==
    [type : {"CR", "DR", "DT", "CC", "DC", "other"}, ok : BOOLEAN, len : Int, eot : BOOLEAN]

\* A header that CheckPDU accepts tells no more data than the payload holds.
LEMMA HeaderRead ==
    ASSUME Line, server = "s7", Len(stream) >= 2,
           NEW h \in HeadersOf(SubSeq(stream, 1, HeaderSize))
    PROVE  /\ h \in Headers7
           /\ h.ok => h.len \in 0 .. IsoPayload_Size
           /\ \/ stream[1] \in Sent /\ stream[1].k # -1
              \/ /\ stream[1] \in Sent /\ stream[1].k = -1
                 /\ h = script[stream[1].m][stream[1].p]
                 /\ 1 <= stream[1].p /\ stream[1].p <= Len(script[stream[1].m])
                 /\ Size(stream[1].m, stream[1].p) = IF h.len > 0 THEN h.len ELSE 0
                 /\ stream[2] = At(stream[1].m, stream[1].p, 0)
<1> DEFINE u == stream[1]
<1>1. /\ stream \in Seq(Sent) /\ Len(stream) \in Nat
      /\ SubSeq(stream, 1, 2)[1] = u /\ SubSeq(stream, 1, 2)[2] = stream[2]
  <2>1. stream \in Seq(Sent) /\ Len(stream) \in Nat
    BY DEF Line
  <2>2. \A i \in 1 .. 2 : stream[i] \in Sent
    BY <2>1, ElementOfSeq
  <2>3. \A i \in 1 .. 2 - 1 + 1 : SubSeq(stream, 1, 2)[i] = stream[1 + i - 1]
    BY <2>2, SubSeqProperties
  <2>4. SubSeq(stream, 1, 2)[1] = stream[1 + 1 - 1] /\ SubSeq(stream, 1, 2)[2] = stream[1 + 2 - 1]
    BY <2>3
  <2> QED
    BY <2>1, <2>4
<1>2. /\ u \in Sent /\ u.m \in DOMAIN script /\ u.p \in DOMAIN script[u.m] /\ u.k \in Int
      /\ u.m \in Nat /\ u.p \in Nat /\ u = At(u.m, u.p, u.k)
  <2>1. u \in Sent
    BY <1>1, ElementOfSeq
  <2> QED
    BY <2>1 DEF Sent, Unit, At
<1>3. /\ script[u.m][u.p] \in Headers7
      /\ script[u.m][u.p].ok => script[u.m][u.p].len \in 0 .. IsoPayload_Size
      /\ DOMAIN script[u.m] = 1 .. Len(script[u.m])
  <2>1. script \in IsoScripts
    BY DEF Line
  <2> DEFINE packets == [type : {"CR", "DR", "DT", "other"}, ok : BOOLEAN, len : Int, eot : BOOLEAN]
  <2>2. script \in Seq(Seq(packets) \ {<<>>})
    BY <2>1, ScriptsAssumption
  <2>a. packets \subseteq Headers7
    BY DEF Headers7
  <2> HIDE DEF packets
  <2>3. u.m \in 1 .. Len(script)
    BY <1>2, <2>2, LenProperties
  <2>4. script[u.m] \in Seq(packets)
    BY <2>2, <2>3, ElementOfSeq
  <2>5. u.p \in 1 .. Len(script[u.m]) /\ DOMAIN script[u.m] = 1 .. Len(script[u.m])
    BY <1>2, <2>4, LenProperties
  <2>6. script[u.m][u.p] \in Headers7
    BY <2>4, <2>5, <2>a, ElementOfSeq
  <2> QED
    BY <1>2, <2>1, <2>5, <2>6, ScriptsAssumption
<1>4. CASE u.k = -1
  <2>1. stream[2] = At(u.m, u.p, 0)
    <3>1. 1 \in 1 .. Len(Ahead) - 1 /\ Ahead[1] = u /\ Ahead[2] = stream[2]
      <4>1. Len(stream) <= Len(Ahead) /\ Len(Ahead) \in Nat
        BY AheadShape
      <4>2. 1 \in 1 .. Len(stream) /\ 2 \in 1 .. Len(stream)
        BY <1>1
      <4> QED
        BY <1>1, <4>1, <4>2, AheadShape
    <3>2. <<Ahead[1], Ahead[1 + 1]>> \in Links
      BY <3>1 DEF Line, Linked
    <3>3. stream[2] = NextUnit(u)
      BY <3>1, <3>2 DEF Links
    <3>4. u.k < Size(u.m, u.p)
      BY <1>3, <1>4 DEF Size, Headers7
    <3> QED
      BY <1>4, <3>3, <3>4 DEF NextUnit
  <2>2. IsHeader(SubSeq(stream, 1, 2))
    BY <1>1, <1>2, <1>4, <2>1 DEF IsHeader, At
  <2>3. h = script[u.m][u.p]
    BY <1>1, <2>2 DEF HeadersOf, HeaderSize
  <2>4. Size(u.m, u.p) = IF h.len > 0 THEN h.len ELSE 0
    BY <2>3 DEF Size
  <2> QED
    BY <1>2, <1>3, <1>4, <2>1, <2>3, <2>4
<1>5. CASE u.k # -1
  <2>1. h \in Misread
    BY <1>1, <1>5 DEF HeadersOf, HeaderSize, IsHeader
  <2>2. /\ h \in [type : {"CR", "DR", "DT", "other"}, ok : BOOLEAN, len : Int, eot : BOOLEAN]
        /\ h.ok => h.len \in 0 .. IsoPayload_Size
    BY <2>1, ScriptsAssumption
  <2>3. h \in Headers7
    BY <2>2 DEF Headers7
  <2> QED
    BY <1>2, <1>5, <2>2, <2>3
<1> QED
  BY <1>4, <1>5

\* A header is read, and the rest of the step goes by it.
HeaderGoes(h) ==
    /\ pc = "header" /\ Len(stream) >= 2 /\ stream' = SubSeq(stream, 2 + 1, Len(stream))
    /\ header' = h
    /\ pc' = IF AfterHeader(h) = "data" THEN "wait"
             ELSE IF AfterHeader(h) = "refuse" THEN "purge" ELSE AfterHeader(h)
    /\ after' \in {"peek", after}
    /\ UNCHANGED <<script, wire, closed, clean>>
    /\ UNCHANGED <<Payload, Offset, pData, NumParts, performed, reports>>

LEMMA HeaderIs ==
    ASSUME isoRecvHeader
    PROVE  \E h \in HeadersOf(SubSeq(stream, 1, HeaderSize)) : HeaderGoes(h)
  BY DEF isoRecvHeader, HeaderGoes, RecvPacket, HeaderSize

\* Data that is read from its first unit on is that of the header's packet: a
\* header that is none leads to data that begins somewhere else.
Reading ==
    Ahead # <<>> /\ Ahead[1].k = 1 => header = script[Ahead[1].m][Ahead[1].p]

IsoType ==
    /\ header \in Headers7 /\ (header.ok => header.len >= 0)
    /\ Payload \in [Cells -> Unit]
    /\ Offset \in Nat /\ pData \in Nat /\ after \in {"peek", "idle", "again"}
    /\ pc \in {"wait", "data"} => header.ok /\ header.len \in 1 .. IsoPayload_Size - Offset
    /\ pc = "received" => header.ok

\* Everything that is not read yet comes behind u.
Later(u) == \A i \in 1 .. Len(Ahead) : Before(u, Ahead[i])

Id(k) == performed[k].data[1].m

IsoOrder ==
    /\ performed = [k \in 1 .. Len(performed) |-> performed[k]] /\ Len(performed) \in Nat
    /\ FromClient => Later(Payload[0])
    /\ \A k \in 1 .. Len(performed) :
          /\ Id(k) \in Nat /\ Later(At(Id(k), 1, 1))
          /\ FromClient /\ Payload[0].p = 1 /\ Payload[0].k = 1 => Id(k) < Payload[0].m
          /\ \A l \in 1 .. Len(performed) : k < l => Id(k) < Id(l)

ModbusType ==
    /\ mbap.m \in Nat /\ replies \in Seq([m : Nat, reply : Values])
    /\ body \in Values

\* The worker has the header of a request that it has not answered.
Due == pc \notin {"idle", "mbap", "mbap purge", "mbap drain", "reset", "last drain", "ended"}

ModbusOrder ==
    /\ mbap.m # 0 => Later(At(mbap.m, 1, -1))
    /\ \A k \in 1 .. Len(replies) :
          /\ replies[k].m # 0 => Later(At(replies[k].m, 1, -1))
          /\ Due /\ mbap.m # 0 => replies[k].m < mbap.m
          /\ \A l \in 1 .. Len(replies) :
                k < l /\ replies[k].m # 0 /\ replies[l].m # 0 => replies[k].m < replies[l].m

OrderInv ==
    /\ server \in {"s7", "modbus"}
    /\ Line
    /\ server = "s7" => IsoType /\ IsoOrder /\ replies = <<>>
    /\ server = "modbus" => ModbusType /\ ModbusOrder /\ performed = <<>>

-----------------------------------------------------------------------------
(* No request twice, and none before an earlier one *)

\* What comes behind a unit still does when more has been read.
LEMMA LaterStill ==
    ASSUME Line, NEW n \in Nat, Moved(n), NEW u, Later(u)
    PROVE  \A i \in 1 .. Len(Ahead') : Before(u, Ahead'[i])
<1>1. Len(Ahead) \in Nat /\ Len(Ahead') \in Nat
  BY MovedLine, AheadShape
<1> TAKE i \in 1 .. Len(Ahead')
<1>2. i + n \in 1 .. Len(Ahead)
  BY <1>1 DEF Moved
<1> QED
  BY <1>2 DEF Moved, Later

LEMMA LaterThanRead ==
    ASSUME Line, NEW n \in Nat \ {0}, n <= Len(Ahead), Moved(n), NEW u, u = Ahead[1]
    PROVE  \A i \in 1 .. Len(Ahead') : Before(u, Ahead'[i])
<1>1. Len(Ahead) \in Nat /\ Len(Ahead') \in Nat
  BY MovedLine, AheadShape
<1> TAKE i \in 1 .. Len(Ahead')
<1>2. i + n \in 1 .. Len(Ahead) /\ 1 \in 1 .. Len(Ahead) /\ 1 < i + n
  BY <1>1 DEF Moved
<1>3. Ahead'[i] = Ahead[i + n]
  BY DEF Moved
<1> QED
  BY <1>2, <1>3, Increasing

\* What is performed and what is in the buffer keep their order when neither changes.
LEMMA IsoOrderKept ==
    ASSUME Line, IsoType, IsoOrder, NEW n \in Nat, Moved(n), Payload'[0] = Payload[0],
           UNCHANGED performed
    PROVE  IsoOrder'
<1>1. FromClient' = FromClient
  BY DEF FromClient
<1>2. FromClient => \A i \in 1 .. Len(Ahead') : Before(Payload[0], Ahead'[i])
  BY LaterStill DEF IsoOrder
<1>3. (FromClient => Later(Payload[0]))'
  BY <1>1, <1>2 DEF Later
<1>4. ASSUME NEW k \in 1 .. Len(performed)
      PROVE  \A i \in 1 .. Len(Ahead') : Before(At(Id(k), 1, 1), Ahead'[i])
  BY LaterStill DEF IsoOrder
<1>5. \A k \in 1 .. Len(performed) : Id(k)' = Id(k)
  BY DEF Id
<1>6. ASSUME NEW k \in 1 .. Len(performed) PROVE Later(At(Id(k), 1, 1))'
  BY <1>4, <1>5 DEF Later, At
<1> QED
  BY <1>1, <1>3, <1>5, <1>6 DEF IsoOrder

\* A sequence that gets one more element, whatever its elements are.
LEMMA AppendAny ==
    ASSUME NEW s, NEW n \in Nat, s = [k \in 1 .. n |-> s[k]], NEW e
    PROVE  /\ Len(Append(s, e)) = n + 1
           /\ Append(s, e) = [k \in 1 .. n + 1 |-> Append(s, e)[k]]
           /\ \A k \in 1 .. n : Append(s, e)[k] = s[k]
           /\ Append(s, e)[n + 1] = e
<1> DEFINE S == {s[k] : k \in 1 .. n} \cup {e}
<1>1. s \in [1 .. n -> S]
  <2>1. \A k \in 1 .. n : s[k] \in S
    OBVIOUS
  <2> HIDE DEF S
  <2> QED
    BY <2>1
<1>2. e \in S
  OBVIOUS
<1> HIDE DEF S
<1>3. s \in Seq(S) /\ DOMAIN s = 1 .. n
  BY <1>1, SeqDef
<1>4. Len(s) = n
  BY <1>3, LenProperties
<1>5. /\ Append(s, e) \in Seq(S) /\ Len(Append(s, e)) = n + 1
      /\ \A k \in 1 .. n : Append(s, e)[k] = s[k]
      /\ Append(s, e)[n + 1] = e
  BY <1>2, <1>3, <1>4, AppendProperties
<1>6. Append(s, e) \in [1 .. n + 1 -> S]
  BY <1>5, LenProperties
<1> QED
  BY <1>5, <1>6

LEMMA IsoStepOrder ==
    ASSUME OrderInv, server = "s7", IsoStep, UNCHANGED <<server, modbus>>
    PROVE  OrderInv'
<1>0. Line /\ IsoType /\ IsoOrder /\ replies = <<>> /\ replies' = <<>> /\ server' = "s7"
  BY DEF OrderInv, modbus
<1>1. SUFFICES Line' /\ IsoType' /\ IsoOrder'
  BY <1>0 DEF OrderInv
<1> USE DEF iso
<1>2. CASE ExecuteRecv
  <2>1. Moved(0)
    BY <1>0, <1>2, StandsStill DEF ExecuteRecv, Jump
  <2>2. IsoType'
    BY <1>0, <1>2 DEF ExecuteRecv, Jump, IsoType
  <2> QED
    BY <1>0, <1>2, <2>1, <2>2, MovedLine, IsoOrderKept DEF ExecuteRecv
<1>3. CASE NextFragment
  <2>1. Moved(0)
    BY <1>0, <1>3, StandsStill DEF NextFragment, Jump, WaitForData
  <2>2. IsoType'
    BY <1>0, <1>3 DEF NextFragment, Jump, WaitForData, IsoType
  <2> QED
    BY <1>0, <1>3, <2>1, <2>2, MovedLine, IsoOrderKept DEF NextFragment
<1>4. CASE isoRecvHeader
  <2>0. PICK h \in HeadersOf(SubSeq(stream, 1, HeaderSize)) : HeaderGoes(h)
    BY <1>4, HeaderIs
  <2>1. /\ Len(stream) >= 2 /\ header' = h /\ stream' = SubSeq(stream, 2 + 1, Len(stream))
        /\ UNCHANGED <<Payload, Offset, pData, performed>>
        /\ UNCHANGED <<server, script, wire, closed>>
        /\ pc' = IF AfterHeader(h) = "data" THEN "wait"
                 ELSE IF AfterHeader(h) = "refuse" THEN "purge" ELSE AfterHeader(h)
    BY <1>0, <2>0 DEF HeaderGoes
  <2>2. Moved(2)
    BY <1>0, <2>1, AheadShape, ReadMoves
  <2>3. h \in Headers7 /\ (h.ok => h.len \in 0 .. IsoPayload_Size)
    BY <1>0, <2>1, HeaderRead
  <2>4. IsoType'
    <3>1. h.len \in Int /\ (h.ok => h.len >= 0) /\ Offset \in Nat /\ IsoPayload_Size \in Nat
      BY <1>0, <2>3, ScriptsAssumption DEF IsoType, Headers7
    <3>2. pc' \in {"wait", "data"} => h.ok /\ h.len \in 1 .. IsoPayload_Size - Offset
      BY <2>1, <3>1 DEF AfterHeader, CheckPDU
    <3>3. pc' = "received" => h.ok
      BY <2>1 DEF AfterHeader, CheckPDU
    <3>4. after' \in {"peek", "idle", "again"}
      BY <1>0, <2>0 DEF HeaderGoes, IsoType
    <3> QED
      BY <1>0, <2>1, <2>3, <3>1, <3>2, <3>3, <3>4 DEF IsoType
  <2> QED
    BY <1>0, <2>1, <2>2, <2>4, MovedLine, IsoOrderKept
<1>5. CASE isoWaitData
  <2>1. Moved(0)
    BY <1>0, <1>5, StandsStill DEF isoWaitData, WaitForData
  <2>2. IsoType'
    BY <1>0, <1>5 DEF isoWaitData, WaitForData, IsoType
  <2> QED
    BY <1>0, <1>5, <2>1, <2>2, MovedLine, IsoOrderKept DEF isoWaitData
<1>6. CASE isoRecvData
  <2> DEFINE n == header.len
  <2>1. /\ pc = "data" /\ header.ok /\ n \in 1 .. IsoPayload_Size - Offset
        /\ Len(stream) >= n /\ stream' = SubSeq(stream, n + 1, Len(stream))
        /\ UNCHANGED <<header, Offset, pData, performed, after>>
        /\ UNCHANGED <<server, script, wire, closed>>
        /\ pc' = "received"
        /\ Payload' = [c \in Cells |-> IF c \in pData .. pData + n - 1
                                       THEN stream[c - pData + 1] ELSE Payload[c]]
    BY <1>0, <1>6 DEF isoRecvData, RecvPacket, IsoType
  <2>a. n \in Nat \ {0} /\ pData \in Nat /\ Len(stream) \in Nat /\ Len(stream) <= Len(Ahead)
        /\ n <= Len(Ahead) /\ 0 \in Cells
    <3>1. Len(stream) \in Nat /\ Len(Ahead) \in Nat /\ Len(stream) <= Len(Ahead)
      BY <1>0, AheadShape
    <3>2. n \in Nat \ {0} /\ pData \in Nat /\ Offset \in Nat
      BY <1>0, <2>1 DEF IsoType
    <3>3. 0 \in Cells
      BY ScriptsAssumption DEF Cells
    <3> QED
      BY <2>1, <3>1, <3>2, <3>3
  <2>2. Moved(n)
    BY <1>0, <2>1, <2>a, ReadMoves
  <2>3. IsoType'
    <3>1. ASSUME NEW c \in Cells, c \in pData .. pData + n - 1 PROVE stream[c - pData + 1] \in Unit
      <4>1. c - pData + 1 \in 1 .. Len(stream)
        BY <2>1, <2>a, <3>1
      <4>2. stream \in Seq(Sent)
        BY <1>0 DEF Line
      <4> QED
        BY <4>1, <4>2, ElementOfSeq DEF Sent
    <3>2. Payload' \in [Cells -> Unit]
      BY <1>0, <2>1, <3>1 DEF IsoType
    <3> QED
      BY <1>0, <2>1, <3>2 DEF IsoType
  <2>4. CASE pData # 0
    <3>1. Payload'[0] = Payload[0]
      BY <2>1, <2>4, <2>a
    <3> QED
      BY <1>0, <2>1, <2>2, <2>3, <2>a, <3>1, MovedLine, IsoOrderKept
  <2>5. CASE pData = 0
    <3>1. Payload'[0] = Ahead[1] /\ 1 \in 1 .. Len(Ahead)
      <4>1. 0 \in pData .. pData + n - 1 /\ 0 - pData + 1 = 1 /\ 1 \in 1 .. Len(stream)
            /\ 1 \in 1 .. Len(Ahead)
        BY <2>1, <2>5, <2>a
      <4>2. Payload'[0] = stream[1]
        BY <2>1, <2>a, <4>1
      <4> QED
        BY <1>0, <4>1, <4>2, AheadShape
    <3>2. Later(Payload[0])'
      BY <1>0, <2>2, <2>a, <3>1, LaterThanRead DEF Later
    <3>3. ASSUME NEW k \in 1 .. Len(performed)
          PROVE  /\ Id(k)' = Id(k) /\ Id(k) \in Nat
                 /\ \A i \in 1 .. Len(Ahead') : Before(At(Id(k), 1, 1), Ahead'[i])
                 /\ Payload'[0].p = 1 /\ Payload'[0].k = 1 => Id(k) < Payload'[0].m
                 /\ \A l \in 1 .. Len(performed) : k < l => Id(k) < Id(l)
      <4>1. Id(k)' = Id(k) /\ Id(k) \in Nat /\ Later(At(Id(k), 1, 1))
        BY <1>0, <2>1 DEF Id, IsoOrder
      <4>2. \A i \in 1 .. Len(Ahead') : Before(At(Id(k), 1, 1), Ahead'[i])
        BY <1>0, <2>2, <2>a, <4>1, LaterStill
      <4>3. Payload'[0].p = 1 /\ Payload'[0].k = 1 => Id(k) < Payload'[0].m
        BY <3>1, <4>1 DEF Later, Before, At
      <4> QED
        BY <1>0, <4>1, <4>2, <4>3 DEF IsoOrder
    <3>4. IsoOrder'
      <4>1. \A k \in 1 .. Len(performed) : Later(At(Id(k), 1, 1))'
        BY <3>3 DEF Later, At
      <4> QED
        BY <1>0, <2>1, <3>2, <3>3, <4>1 DEF IsoOrder, Id
    <3> QED
      BY <1>0, <2>2, <2>3, <2>a, <3>4, MovedLine
  <2> QED
    BY <2>4, <2>5
<1>7. CASE isoTimeout
  <2>1. Moved(0)
    BY <1>0, <1>7, StandsStill DEF isoTimeout, RecvTimeout
  <2>2. IsoType'
    BY <1>0, <1>7 DEF isoTimeout, RecvTimeout, IsoType
  <2> QED
    BY <1>0, <1>7, <2>1, <2>2, MovedLine, IsoOrderKept DEF isoTimeout
<1>8. CASE FragmentReceived
  <2>1. Moved(0)
    BY <1>0, <1>8, StandsStill DEF FragmentReceived, Jump
  <2>2. IsoType'
    <3>1. /\ pc = "received" /\ header.ok /\ header.len \in Nat /\ Offset \in Nat
          /\ header \in Headers7 /\ after' \in {"peek", "idle", "again"}
      BY <1>0, <1>8 DEF FragmentReceived, IsoType, Headers7
    <3>2. CASE Complete
      <4>1. /\ header' = [header EXCEPT !.len = Offset + @] /\ pc' = "peek"
            /\ UNCHANGED <<Payload, Offset, pData>>
        BY <1>8, <3>2 DEF FragmentReceived, Jump
      <4>2. header' \in Headers7 /\ header'.len >= 0
        <5>1. Offset + header.len \in Nat
          BY <3>1
        <5>2. header' = [type |-> header.type, ok |-> header.ok, len |-> Offset + header.len, eot |-> header.eot]
          BY <3>1, <4>1 DEF Headers7
        <5>3. header' \in Headers7
          BY <3>1, <5>1, <5>2 DEF Headers7
        <5> QED
          BY <5>1, <5>2, <5>3
      <4> QED
        BY <1>0, <3>1, <4>1, <4>2 DEF IsoType
    <3>3. CASE ~Complete
      <4>1. /\ header' = header /\ Offset' = Offset + header.len /\ pc' \in {"purge", "fragment"}
            /\ UNCHANGED <<Payload, pData>>
        BY <1>8, <3>3 DEF FragmentReceived, Jump
      <4> QED
        BY <1>0, <3>1, <4>1 DEF IsoType
    <3> QED
      BY <3>2, <3>3
  <2> QED
    BY <1>0, <1>8, <2>1, <2>2, MovedLine, IsoOrderKept DEF FragmentReceived
<1>9. CASE PurgeStep
  <2>1. UNCHANGED <<header, Payload, Offset, pData, performed>>
    BY <1>9 DEF PurgeStep
  <2>2. /\ \E n \in Nat : Moved(n)
        /\ pc' \in {"purge", "drain", "peek", "idle"} /\ after' \in {"peek", "idle", "again"}
    <3>1. AfterPurge \in {"purge", "peek", "idle"} /\ after' \in {"peek", "idle", "again"}
      BY <1>0, <1>9 DEF AfterPurge, IsoType, PurgeStep
    <3>2. CASE pc = "purge" /\ Purge("drain", AfterPurge)
      <4>1. Moved(0)
        BY <1>0, <3>2, StandsStill DEF Purge
      <4> QED
        BY <3>1, <3>2, <4>1 DEF Purge
    <3>3. CASE pc = "drain" /\ Drain("drain", AfterPurge)
      <4>1. \E n \in Nat : Moved(n)
        BY <1>0, <3>3, DrainMoves
      <4> QED
        BY <3>1, <3>3, <4>1 DEF Drain
    <3> QED
      BY <1>9, <3>2, <3>3 DEF PurgeStep
  <2>3. IsoType'
    BY <1>0, <2>1, <2>2 DEF IsoType
  <2> QED
    BY <1>0, <2>1, <2>2, <2>3, MovedLine, IsoOrderKept
<1>10. CASE DestroySocket /\ UNCHANGED iso
  <2>1. \E n \in Nat : Moved(n)
    <3>1. CASE pc = "reset" /\ Purge("last drain", "ended")
      BY <1>0, <3>1, StandsStill DEF Purge
    <3>2. CASE pc = "last drain" /\ Drain("last drain", "ended")
      BY <1>0, <3>2, DrainMoves
    <3> QED
      BY <1>10, <3>1, <3>2 DEF DestroySocket
  <2>2. IsoType'
    <3>1. pc' \in {"last drain", "ended"}
      BY <1>10 DEF DestroySocket, Purge, Drain
    <3> QED
      BY <1>0, <1>10, <3>1 DEF IsoType
  <2> QED
    BY <1>0, <1>10, <2>1, <2>2, MovedLine, IsoOrderKept
<1>11. CASE Control
  <2>1. UNCHANGED <<server, script, wire, stream, closed>>
    BY <1>0, <1>11 DEF Control, IsoConfirmConnection, SendPacket, Jump
  <2>2. UNCHANGED <<Payload, Offset, pData, performed, after>> /\ pc' \in {"idle", "reset"}
    BY <1>11 DEF Control, IsoConfirmConnection, SendPacket, Jump
  <2>3. header' = header \/ header' = [header EXCEPT !.type = IF @ = "CR" THEN "CC" ELSE "DC"]
    BY <1>11 DEF Control, IsoConfirmConnection
  <2>4. header' \in Headers7 /\ (header'.ok => header'.len >= 0)
    <3>1. header \in Headers7 /\ (header.ok => header.len >= 0)
      BY <1>0 DEF IsoType
    <3> DEFINE type == IF header.type = "CR" THEN "CC" ELSE "DC"
    <3>2. CASE header' = header
      BY <3>1, <3>2
    <3>3. CASE header' = [header EXCEPT !.type = IF @ = "CR" THEN "CC" ELSE "DC"]
      <4>1. header' = [type |-> type, ok |-> header.ok, len |-> header.len, eot |-> header.eot]
        BY <3>1, <3>3 DEF Headers7
      <4>2. type \in {"CC", "DC"}
        OBVIOUS
      <4> HIDE DEF type
      <4>3. header' \in Headers7
        BY <3>1, <4>1, <4>2 DEF Headers7
      <4> QED
        BY <3>1, <4>1, <4>3
    <3> QED
      BY <2>3, <3>2, <3>3
  <2>5. IsoType'
    BY <1>0, <2>2, <2>4 DEF IsoType
  <2> QED
    BY <1>0, <2>1, <2>2, <2>5, StandsStill, MovedLine, IsoOrderKept
<1>12. CASE InvalidPDU \/ Report
  <2>1. UNCHANGED <<server, script, wire, stream, closed>>
    BY <1>0, <1>12 DEF InvalidPDU, Report, Jump
  <2>2. /\ UNCHANGED <<header, Payload, Offset, pData, performed>>
        /\ pc' \in {"purge", "idle", "reset"} /\ after' \in {after, "idle"}
    BY <1>12 DEF InvalidPDU, Report, Jump
  <2>3. IsoType'
    BY <1>0, <2>2 DEF IsoType
  <2> QED
    BY <1>0, <2>1, <2>2, <2>3, StandsStill, MovedLine, IsoOrderKept
<1>13. CASE IsoPerformCommand
  <2> DEFINE e == [data |-> [c \in 1 .. header.len |-> Payload[c - 1]], ok |-> header.ok]
             own == Own(IF S7Header.kind = "userdata" THEN 2 ELSE 1)
  <2> PICK n \in Nat : n = Len(performed)
    BY <1>0 DEF IsoOrder
  <2>1. /\ performed' = Append(performed, e) /\ Payload' = [Payload EXCEPT ![0] = own]
        /\ UNCHANGED <<server, script, wire, stream, closed, header, Offset, pData, after>>
        /\ pc' = "idle"
    BY <1>0, <1>13 DEF IsoPerformCommand, SendPacket
  <2>2. /\ FromClient /\ Payload[0].p = 1 /\ Payload[0].k = 1
        /\ header.len >= 1 /\ Payload[0] \in Unit /\ 0 \in Cells
    <3>1. 0 \in Cells
      BY ScriptsAssumption DEF Cells
    <3>2. Payload[0] \in Unit
      BY <1>0, <3>1 DEF IsoType
    <3>3. FromClient /\ Payload[0].p = 1 /\ Payload[0].k = 1
      <4>1. FromClient /\ Consistent
        BY <1>13 DEF IsoPerformCommand
      <4>2. Payload[0] # Own(2)
        BY <4>1 DEF FromClient, Own
      <4> QED
        BY <4>1, <4>2 DEF Consistent, S7Header
    <3>4. header.len >= 1
      <4>1. header.len \in Int /\ header.len # 0 /\ ~ (header.len < 0)
        BY <1>0, <1>13 DEF IsoPerformCommand, PduKind, IsoType, Headers7
      <4> QED
        BY <4>1
    <3> QED
      BY <3>1, <3>2, <3>3, <3>4
  <2>3. own \in Unit /\ own.m = 0
    BY DEF Own, Unit
  <2>4. e.data[1] = Payload[0]
    <3>1. header.len \in Int
      BY <1>0 DEF IsoType, Headers7
    <3>2. 1 \in 1 .. header.len /\ 1 - 1 = 0
      BY <2>2, <3>1
    <3> QED
      BY <3>2
  <2> HIDE DEF e, own
  <2>5. /\ n \in Nat /\ Len(performed') = n + 1
        /\ performed' = [k \in 1 .. n + 1 |-> performed'[k]]
        /\ \A k \in 1 .. n : performed'[k] = performed[k]
        /\ performed'[n + 1] = e
    <3>1. performed = [k \in 1 .. n |-> performed[k]]
      BY <1>0 DEF IsoOrder
    <3> QED
      BY <2>1, <3>1, AppendAny
  <2>6. ~FromClient' /\ Payload' \in [Cells -> Unit]
    BY <1>0, <2>1, <2>2, <2>3 DEF FromClient, IsoType
  <2>7. IsoType'
    BY <1>0, <2>1, <2>6 DEF IsoType
  <2>8. Moved(0) /\ Ahead' = Ahead
    BY <1>0, <2>1, StandsStill DEF Ahead
  <2>9. /\ Id(n + 1)' = Payload[0].m /\ Payload[0].m \in Nat
        /\ \A k \in 1 .. n : Id(k)' = Id(k) /\ Id(k) < Payload[0].m
    BY <1>0, <2>2, <2>4, <2>5 DEF Id, IsoOrder, Unit
  <2>10. \A i \in 1 .. Len(Ahead) : Before(At(Payload[0].m, 1, 1), Ahead[i])
    <3>1. Payload[0] = At(Payload[0].m, 1, 1)
      BY <2>2 DEF Unit, At
    <3>2. Later(Payload[0])
      BY <1>0, <2>2 DEF IsoOrder
    <3> QED
      BY <3>1, <3>2 DEF Later
  <2>11. ASSUME NEW k \in 1 .. n + 1
         PROVE  /\ Id(k)' \in Nat /\ Later(At(Id(k), 1, 1))'
                /\ \A l \in 1 .. n + 1 : k < l => Id(k)' < Id(l)'
    <3>1. CASE k \in 1 .. n
      <4>1. Id(k)' = Id(k) /\ Id(k) \in Nat /\ Later(At(Id(k), 1, 1))
        BY <1>0, <2>9, <3>1 DEF IsoOrder
      <4>2. Later(At(Id(k), 1, 1))'
        BY <2>8, <4>1 DEF Later, At
      <4>3. ASSUME NEW l \in 1 .. n + 1, k < l PROVE Id(k)' < Id(l)'
        <5>1. CASE l \in 1 .. n
          BY <1>0, <2>9, <3>1, <4>3, <5>1 DEF IsoOrder
        <5>2. CASE l \notin 1 .. n
          <6>1. l = n + 1
            BY <2>5, <5>2
          <6> QED
            BY <2>9, <3>1, <6>1
        <5> QED
          BY <5>1, <5>2
      <4> QED
        BY <4>1, <4>2, <4>3
    <3>2. CASE k \notin 1 .. n
      <4>1. k = n + 1
        BY <2>5, <3>2
      <4>2. Later(At(Id(k), 1, 1))'
        BY <2>8, <2>9, <2>10, <4>1 DEF Later, At
      <4>3. \A l \in 1 .. n + 1 : ~ (k < l)
        BY <2>5, <4>1
      <4> QED
        BY <2>9, <4>1, <4>2, <4>3
    <3> QED
      BY <3>1, <3>2
  <2>12. IsoOrder'
    BY <2>5, <2>6, <2>11 DEF IsoOrder
  <2> QED
    BY <1>0, <2>7, <2>8, <2>12, MovedLine
<1> QED
  BY <1>2, <1>3, <1>4, <1>5, <1>6, <1>7, <1>8, <1>9, <1>10, <1>11, <1>12, <1>13 DEF IsoStep

\* What is answered keeps its order when no request is read and none answered.
LEMMA ModbusOrderKept ==
    ASSUME Line, ModbusType, ModbusOrder, NEW n \in Nat, Moved(n), Due' => Due,
           UNCHANGED <<mbap, replies>>
    PROVE  ModbusOrder'
<1>1. ASSUME mbap.m # 0 PROVE Later(At(mbap.m, 1, -1))'
  <2>1. \A i \in 1 .. Len(Ahead') : Before(At(mbap.m, 1, -1), Ahead'[i])
    BY <1>1, LaterStill DEF ModbusOrder
  <2> QED
    BY <2>1 DEF Later, At
<1>2. ASSUME NEW k \in 1 .. Len(replies), replies[k].m # 0
      PROVE  Later(At(replies[k].m, 1, -1))'
  <2>1. \A i \in 1 .. Len(Ahead') : Before(At(replies[k].m, 1, -1), Ahead'[i])
    BY <1>2, LaterStill DEF ModbusOrder
  <2> QED
    BY <2>1 DEF Later, At
<1> QED
  BY <1>1, <1>2 DEF ModbusOrder

\* The request that is due is answered behind all others, and then is not due.
LEMMA ReplyOrder ==
    ASSUME Line, ModbusType, ModbusOrder, Due, NEW reply \in Values,
           NEW label, label \in {"idle", "reset"}, Reply(reply, label), UNCHANGED server
    PROVE  Line' /\ ModbusType' /\ ModbusOrder'
<1>1. /\ replies' = Append(replies, [m |-> mbap.m, reply |-> reply])
      /\ UNCHANGED <<mbap, body>> /\ pc' = label
      /\ UNCHANGED <<server, script, wire, stream, closed>>
  BY DEF Reply, SendPacket
<1>2. PICK n \in Nat : n = Len(replies)
  BY DEF ModbusType
<1>3. /\ replies \in Seq([m : Nat, reply : Values]) /\ mbap.m \in Nat
      /\ [m |-> mbap.m, reply |-> reply] \in [m : Nat, reply : Values]
  BY DEF ModbusType
<1>4. /\ replies' \in Seq([m : Nat, reply : Values]) /\ Len(replies') = n + 1
      /\ \A k \in 1 .. n : replies'[k] = replies[k]
      /\ replies'[n + 1].m = mbap.m
  BY <1>1, <1>2, <1>3, AppendProperties
<1>5. Moved(0) /\ Ahead' = Ahead /\ ~Due'
  BY <1>1, StandsStill DEF Ahead, Due
<1>7. ASSUME NEW k \in 1 .. n + 1
      PROVE  /\ replies'[k].m # 0 => Later(At(replies'[k].m, 1, -1))
             /\ \A l \in 1 .. n + 1 :
                   k < l /\ replies'[k].m # 0 /\ replies'[l].m # 0 => replies'[k].m < replies'[l].m
  <2>1. CASE k \in 1 .. n
    <3>1. replies'[k].m # 0 => Later(At(replies'[k].m, 1, -1))
      BY <1>2, <1>4, <2>1 DEF ModbusOrder
    <3>2. ASSUME NEW l \in 1 .. n + 1, k < l, replies'[k].m # 0, replies'[l].m # 0
          PROVE  replies'[k].m < replies'[l].m
      <4>1. CASE l \in 1 .. n
        BY <1>2, <1>4, <2>1, <3>2, <4>1 DEF ModbusOrder
      <4>2. CASE l \notin 1 .. n
        <5>1. l = n + 1
          BY <4>2
        <5> QED
          BY <1>2, <1>4, <2>1, <3>2, <5>1 DEF ModbusOrder
      <4> QED
        BY <4>1, <4>2
    <3> QED
      BY <3>1, <3>2
  <2>2. CASE k \notin 1 .. n
    <3>1. k = n + 1 /\ \A l \in 1 .. n + 1 : ~ (k < l)
      BY <2>2
    <3> QED
      BY <1>4, <3>1 DEF ModbusOrder
  <2> QED
    BY <2>1, <2>2
<1>8. ModbusOrder'
  <2>1. (mbap.m # 0 => Later(At(mbap.m, 1, -1)))'
    BY <1>1, <1>5 DEF ModbusOrder, Later, At
  <2>2. \A k \in 1 .. n + 1 : (replies[k].m # 0 => Later(At(replies[k].m, 1, -1)))'
    BY <1>5, <1>7 DEF Later, At
  <2> QED
    BY <1>4, <1>5, <1>7, <2>1, <2>2 DEF ModbusOrder
<1>9. ModbusType'
  BY <1>1, <1>4 DEF ModbusType
<1> QED
  BY <1>5, <1>8, <1>9, MovedLine

\* A message of Modbus is one packet.
LEMMA OnePacket ==
    ASSUME Line, server = "modbus", NEW u \in Sent
    PROVE  /\ u.m \in 1 .. Len(script) /\ u.p = 1 /\ u = At(u.m, 1, u.k) /\ u.k \in Int
           /\ script[u.m][1].value \in Values /\ script[u.m][1].len \in Nat
<1> DEFINE packets ==
             [proto : BOOLEAN, fun : Headers \ {"proto", "short"}, claimed : Int, len : Nat, value : Values]
<1>1. script \in Seq(Seq(packets)) /\ \A m \in DOMAIN script : Len(script[m]) = 1
  BY ScriptsAssumption DEF Line
<1>2. u \in Unit /\ u.m \in DOMAIN script /\ u.p \in DOMAIN script[u.m]
  BY DEF Sent
<1> HIDE DEF packets
<1>3. u.m \in 1 .. Len(script) /\ script[u.m] \in Seq(packets) /\ Len(script[u.m]) = 1
  BY <1>1, <1>2, LenProperties, ElementOfSeq
<1>4. u.p \in 1 .. 1
  BY <1>2, <1>3, LenProperties
<1>5. script[u.m][1] \in packets
  BY <1>3, ElementOfSeq
<1> QED
  BY <1>2, <1>3, <1>4, <1>5 DEF Unit, At, packets

LEMMA ModbusStepOrder ==
    ASSUME OrderInv, server = "modbus", ModbusStep, UNCHANGED <<server, iso>>
    PROVE  OrderInv'
<1>0. /\ Line /\ ModbusType /\ ModbusOrder /\ performed = <<>> /\ performed' = <<>>
      /\ server' = "modbus"
  BY DEF OrderInv, iso
<1>1. SUFFICES Line' /\ ModbusType' /\ ModbusOrder'
  BY <1>0 DEF OrderInv
<1> USE DEF modbus
<1>2. ASSUME UNCHANGED modbus, Due' => Due, \E n \in Nat : Moved(n)
      PROVE  Line' /\ ModbusType' /\ ModbusOrder'
  <2>1. ModbusType'
    BY <1>0, <1>2 DEF ModbusType
  <2> QED
    BY <1>0, <1>2, <2>1, MovedLine, ModbusOrderKept
<1>3. CASE ModbusExecuteRecv
  <2>1. Moved(0)
    BY <1>0, <1>3, StandsStill DEF ModbusExecuteRecv, WaitForData
  <2>2. ~Due'
    BY <1>3 DEF ModbusExecuteRecv, WaitForData, Due
  <2> QED
    BY <1>2, <1>3, <2>1, <2>2 DEF ModbusExecuteRecv
<1>4. CASE RecvHeader
  <2>1. /\ Len(stream) >= 2 /\ stream' = SubSeq(stream, 2 + 1, Len(stream)) /\ ~Due
        /\ UNCHANGED <<server, script, wire, closed>> /\ UNCHANGED <<body, replies>>
    BY <1>0, <1>4 DEF RecvHeader, RecvPacket, HeaderSize, Due
  <2>2. Moved(2) /\ Len(stream) \in Nat
    BY <1>0, <2>1, AheadShape, ReadMoves
  <2>3. /\ stream[1] = Ahead[1] /\ stream[1] \in Sent /\ 1 \in 1 .. Len(Ahead)
        /\ 2 <= Len(Ahead) /\ stream \in Seq(Sent)
    <3>1. 1 \in 1 .. Len(stream) /\ Len(stream) <= Len(Ahead) /\ Len(Ahead) \in Nat
      BY <1>0, <2>1, <2>2, AheadShape
    <3>2. stream \in Seq(Sent)
      BY <1>0 DEF Line
    <3> QED
      BY <1>0, <2>1, <2>2, <3>1, <3>2, AheadShape, ElementOfSeq
  <2>4. CASE mbap'.m = 0
    <3>1. ModbusType'
      BY <1>0, <2>1, <2>4 DEF ModbusType
    <3>2. ASSUME NEW k \in 1 .. Len(replies), replies[k].m # 0
          PROVE  Later(At(replies[k].m, 1, -1))'
      <4>1. \A i \in 1 .. Len(Ahead') : Before(At(replies[k].m, 1, -1), Ahead'[i])
        BY <1>0, <2>2, <3>2, LaterStill DEF ModbusOrder
      <4> QED
        BY <2>1, <4>1 DEF Later, At
    <3>3. ModbusOrder'
      BY <1>0, <2>1, <2>4, <3>2 DEF ModbusOrder
    <3> QED
      BY <1>0, <2>2, <3>1, <3>3, MovedLine
  <2>5. CASE mbap'.m # 0
    <3>1. mbap'.m = stream[1].m /\ stream[1].k = -1
      <4>1. IsHeader(SubSeq(stream, 1, HeaderSize)) /\ mbap'.m = stream[1].m
        BY <1>4, <2>5 DEF RecvHeader
      <4>2. SubSeq(stream, 1, 2)[1] = stream[1]
        <5>1. \A i \in 1 .. 2 : stream[i] \in Sent
          BY <2>1, <2>2, <2>3, ElementOfSeq
        <5>2. \A i \in 1 .. 2 - 1 + 1 : SubSeq(stream, 1, 2)[i] = stream[1 + i - 1]
          BY <5>1, SubSeqProperties
        <5>3. SubSeq(stream, 1, 2)[1] = stream[1 + 1 - 1]
          BY <5>2
        <5> QED
          BY <5>3
      <4> QED
        BY <4>1, <4>2 DEF IsHeader, HeaderSize
    <3>2. /\ mbap'.m \in Nat /\ Ahead[1] = At(mbap'.m, 1, -1)
      BY <1>0, <2>3, <3>1, OnePacket
    <3>3. Later(At(mbap.m, 1, -1))'
      <4>1. \A i \in 1 .. Len(Ahead') : Before(Ahead[1], Ahead'[i])
        BY <1>0, <2>2, <2>3, LaterThanRead
      <4> QED
        BY <3>2, <4>1 DEF Later, At
    <3>4. ASSUME NEW k \in 1 .. Len(replies)
          PROVE  /\ replies[k].m < mbap'.m
                 /\ replies[k].m # 0 => Later(At(replies[k].m, 1, -1))'
      <4>1. CASE replies[k].m # 0
        <5>1. \A i \in 1 .. Len(Ahead') : Before(At(replies[k].m, 1, -1), Ahead'[i])
          BY <1>0, <2>2, <4>1, LaterStill DEF ModbusOrder
        <5>2. Before(At(replies[k].m, 1, -1), Ahead[1])
          BY <1>0, <2>3, <4>1 DEF ModbusOrder, Later
        <5>3. replies[k].m < mbap'.m
          BY <3>2, <5>2 DEF Before, At
        <5> QED
          BY <2>1, <5>1, <5>3 DEF Later, At
      <4>2. CASE replies[k].m = 0
        BY <2>5, <3>2, <4>2
      <4> QED
        BY <4>1, <4>2
    <3>5. ModbusType'
      BY <1>0, <2>1, <3>2 DEF ModbusType
    <3>6. ModbusOrder'
      BY <1>0, <2>1, <3>3, <3>4 DEF ModbusOrder
    <3> QED
      BY <1>0, <2>2, <3>5, <3>6, MovedLine
  <2> QED
    BY <2>4, <2>5
<1>5. CASE RefuseHeader
  <2>1. Due /\ Reply("exception", "reset") /\ "exception" \in Values
    BY <1>5 DEF RefuseHeader, Due, Values
  <2> QED
    BY <1>0, <2>1, ReplyOrder
<1>6. CASE UnknownFunction
  <2>1. Due /\ Reply("exception", "idle") /\ "exception" \in Values
    BY <1>6 DEF UnknownFunction, Accepted, Due, Values
  <2> QED
    BY <1>0, <2>1, ReplyOrder
<1>7. CASE WrongSize \/ BeginBody \/ BeginMultiple
  <2>1. Moved(0)
    BY <1>0, <1>7, StandsStill DEF WrongSize, BeginBody, BeginMultiple, WaitForData, Jump
  <2>2. Due /\ UNCHANGED modbus
    BY <1>7 DEF WrongSize, BeginBody, BeginMultiple, Accepted, Due
  <2> QED
    BY <1>2, <2>1, <2>2
<1>8. CASE RecvBody
  <2>1. /\ Len(stream) >= 1 /\ stream' = SubSeq(stream, 1 + 1, Len(stream)) /\ Due
        /\ UNCHANGED <<server, script, wire, closed>> /\ UNCHANGED <<mbap, replies>>
    BY <1>0, <1>8 DEF RecvBody, RecvPacket, RequestSize, Due
  <2>2. Moved(1) /\ Len(stream) \in Nat
    BY <1>0, <2>1, AheadShape, ReadMoves
  <2>3. body' \in Values
    <3>1. stream[1] \in Sent
      <4>1. stream \in Seq(Sent) /\ 1 \in 1 .. Len(stream)
        BY <1>0, <2>1, <2>2 DEF Line
      <4> QED
        BY <4>1, ElementOfSeq
    <3> QED
      BY <1>0, <1>8, <3>1, OnePacket DEF RecvBody
  <2>4. ModbusType'
    BY <1>0, <2>1, <2>3 DEF ModbusType
  <2> QED
    BY <1>0, <2>1, <2>2, <2>4, MovedLine, ModbusOrderKept
<1>9. CASE Unread
  <2>1. Moved(0)
    BY <1>0, <1>9, StandsStill DEF Unread, Jump
  <2>2. Due /\ UNCHANGED <<mbap, replies>> /\ body' \in Values
    BY <1>9 DEF Unread, Due
  <2>3. ModbusType'
    BY <1>0, <2>2 DEF ModbusType
  <2> QED
    BY <1>0, <2>1, <2>2, <2>3, MovedLine, ModbusOrderKept
<1>10. CASE RecvMultiple
  <2>1. /\ Len(stream) >= 1 /\ stream' = SubSeq(stream, 1 + 1, Len(stream)) /\ Due
        /\ UNCHANGED <<server, script, wire, closed>> /\ UNCHANGED modbus
    BY <1>0, <1>10 DEF RecvMultiple, RecvPacket, Due
  <2>2. Moved(1)
    BY <1>0, <2>1, AheadShape, ReadMoves
  <2> QED
    BY <1>2, <2>1, <2>2
<1>11. CASE ModbusTimeout
  <2>1. Moved(0)
    BY <1>0, <1>11, StandsStill DEF ModbusTimeout, RecvTimeout
  <2>2. Due' => Due
    BY <1>11 DEF ModbusTimeout, RecvTimeout, PurgeOf, Due
  <2> QED
    BY <1>2, <1>11, <2>1, <2>2 DEF ModbusTimeout
<1>12. CASE ModbusPurge
  <2> PICK at \in {"mbap", "body", "data"} :
         LET done == CASE at = "mbap" -> "idle" [] at = "body" -> "unread" [] at = "data" -> "perform"
         IN  \/ pc = PurgeOf(at) /\ Purge(DrainOf(at), done)
             \/ pc = DrainOf(at) /\ Drain(DrainOf(at), done)
    BY <1>12 DEF ModbusPurge
  <2> DEFINE done == CASE at = "mbap" -> "idle" [] at = "body" -> "unread" [] at = "data" -> "perform"
  <2>1. \/ pc = PurgeOf(at) /\ Purge(DrainOf(at), done)
        \/ pc = DrainOf(at) /\ Drain(DrainOf(at), done)
    OBVIOUS
  <2>2. pc' \in {DrainOf(at), done}
    BY <2>1 DEF Purge, Drain
  <2>3. Due' => Due
    BY <2>1, <2>2 DEF PurgeOf, DrainOf, Due
  <2> HIDE DEF done
  <2>4. \E n \in Nat : Moved(n)
    <3>1. CASE pc = PurgeOf(at) /\ Purge(DrainOf(at), done)
      BY <1>0, <3>1, StandsStill DEF Purge
    <3>2. CASE pc = DrainOf(at) /\ Drain(DrainOf(at), done)
      BY <1>0, <3>2, DrainMoves
    <3> QED
      BY <2>1, <3>1, <3>2
  <2> QED
    BY <1>2, <1>12, <2>3, <2>4 DEF ModbusPurge
<1>13. CASE Perform
  <2>1. Due /\ body \in Values
    BY <1>0, <1>13 DEF Perform, Due, ModbusType
  <2>2. CASE body = "refused"
    <3>1. UNCHANGED modbus /\ pc' = "idle" /\ UNCHANGED <<server, script, wire, stream, closed>>
      BY <1>0, <1>13, <2>2 DEF Perform, Jump
    <3> QED
      BY <1>0, <1>2, <2>1, <3>1, StandsStill
  <2>3. CASE body # "refused"
    <3>1. Reply(body, "idle")
      BY <1>13, <2>3 DEF Perform
    <3> QED
      BY <1>0, <2>1, <3>1, ReplyOrder
  <2> QED
    BY <2>2, <2>3
<1>14. CASE DestroySocket /\ UNCHANGED modbus
  <2>1. \E n \in Nat : Moved(n)
    <3>1. CASE pc = "reset" /\ Purge("last drain", "ended")
      BY <1>0, <3>1, StandsStill DEF Purge
    <3>2. CASE pc = "last drain" /\ Drain("last drain", "ended")
      BY <1>0, <3>2, DrainMoves
    <3> QED
      BY <1>14, <3>1, <3>2 DEF DestroySocket
  <2>2. ~Due'
    BY <1>14 DEF DestroySocket, Purge, Drain, Due
  <2> QED
    BY <1>2, <1>14, <2>1, <2>2
<1> QED
  BY <1>3, <1>4, <1>5, <1>6, <1>7, <1>8, <1>9, <1>10, <1>11, <1>12, <1>13, <1>14 DEF ModbusStep

LEMMA EnvironmentOrder ==
    ASSUME OrderInv, Environment, UNCHANGED <<server, iso, modbus>>
    PROVE  OrderInv'
<1>0. Line
  BY DEF OrderInv
<1>1. Moved(0) /\ UNCHANGED pc
  BY <1>0, ArriveMoves, CloseMoves DEF Environment, Arrive, Close
<1>2. CASE server = "s7"
  <2>1. IsoType /\ IsoOrder /\ replies = <<>>
    BY <1>2 DEF OrderInv
  <2>2. IsoType'
    BY <1>1, <2>1 DEF IsoType, iso
  <2> QED
    BY <1>0, <1>1, <1>2, <2>1, <2>2, MovedLine, IsoOrderKept DEF OrderInv, iso, modbus
<1>3. CASE server = "modbus"
  <2>1. ModbusType /\ ModbusOrder /\ performed = <<>>
    BY <1>3 DEF OrderInv
  <2>2. ModbusType' /\ Due' = Due
    BY <1>1, <2>1 DEF ModbusType, modbus, Due
  <2> QED
    BY <1>0, <1>1, <1>3, <2>1, <2>2, MovedLine, ModbusOrderKept DEF OrderInv, iso, modbus
<1> QED
  BY <1>2, <1>3 DEF OrderInv

LEMMA OrderInit ==
    ASSUME Init
    PROVE  OrderInv
<1>1. Line /\ server \in {"s7", "modbus"}
  BY LineInit DEF Init
<1>2. IsoType /\ IsoOrder /\ performed = <<>>
  <2>1. NoHeader \in Headers7 /\ ~NoHeader.ok
    <3>1. FALSE \in BOOLEAN
      BY Zenon
    <3>2. 1 \in Int
      OBVIOUS
    <3> QED
      BY <3>1, <3>2, Zenon DEF NoHeader, Headers7
  <2>2. Own(0) \in Unit /\ Own(0).m = 0 /\ 0 \in Cells
    BY ScriptsAssumption DEF Own, Unit, Cells
  <2>3. performed = <<>> /\ Len(performed) = 0 /\ performed = [k \in 1 .. 0 |-> performed[k]]
    BY DEF Init, IsoInit
  <2>4. IsoType
    BY <2>1, <2>2 DEF Init, IsoInit, IsoType
  <2>5. ~FromClient
    BY <2>2 DEF Init, IsoInit, FromClient
  <2> QED
    BY <2>3, <2>4, <2>5 DEF IsoOrder
<1>3. ModbusType /\ ModbusOrder /\ replies = <<>>
  <2>1. replies = <<>> /\ Len(replies) = 0 /\ mbap.m = 0 /\ body = "ok"
    BY DEF Init, ModbusInit
  <2>2. replies \in Seq([m : Nat, reply : Values])
    BY <2>1, EmptySeq
  <2> QED
    BY <2>1, <2>2 DEF ModbusType, ModbusOrder, Values
<1> QED
  BY <1>1, <1>2, <1>3 DEF OrderInv

\* What each server performs or answers has the order of the script.
LEMMA OrderStates ==
    ASSUME OrderInv
    PROVE  InOrder
<1>1. CASE server = "s7"
  <2>1. IsoOrder /\ replies = <<>>
    BY <1>1 DEF OrderInv
  <2>2. DOMAIN performed = 1 .. Len(performed)
    BY <2>1 DEF IsoOrder
  <2>3. DOMAIN replies = {}
    BY <2>1
  <2> QED
    BY <2>1, <2>2, <2>3 DEF IsoOrder, InOrder, Ids, Id
<1>2. CASE server = "modbus"
  <2>1. ModbusOrder /\ ModbusType /\ performed = <<>>
    BY <1>2 DEF OrderInv
  <2>2. DOMAIN replies = 1 .. Len(replies) /\ DOMAIN performed = {}
    BY <2>1, LenProperties DEF ModbusType
  <2> QED
    BY <2>1, <2>2 DEF ModbusOrder, InOrder
<1> QED
  BY <1>1, <1>2 DEF OrderInv

LEMMA OrderStep ==
    ASSUME OrderInv, [Next]_vars
    PROVE  OrderInv'
<1>1. CASE Next
  <2>1. CASE server = "s7" /\ IsoStep /\ UNCHANGED <<server, modbus>>
    BY <2>1, IsoStepOrder
  <2>2. CASE server = "modbus" /\ ModbusStep /\ UNCHANGED <<server, iso>>
    BY <2>2, ModbusStepOrder
  <2>3. CASE Environment /\ UNCHANGED <<server, iso, modbus>>
    BY <2>3, EnvironmentOrder
  <2> QED
    BY <1>1, <2>1, <2>2, <2>3 DEF Next, Worker
<1>2. CASE UNCHANGED vars
  <2>0. Line
    BY DEF OrderInv
  <2>1. Moved(0) /\ UNCHANGED pc /\ UNCHANGED <<server, iso, modbus>>
    BY <1>2, <2>0, StandsStill DEF vars, socket
  <2>2. CASE server = "s7"
    <3>1. IsoType /\ IsoOrder /\ replies = <<>>
      BY <2>2 DEF OrderInv
    <3>2. IsoType'
      BY <2>1, <3>1 DEF IsoType, iso
    <3> QED
      BY <2>0, <2>1, <2>2, <3>1, <3>2, MovedLine, IsoOrderKept DEF OrderInv, iso, modbus
  <2>3. CASE server = "modbus"
    <3>1. ModbusType /\ ModbusOrder /\ performed = <<>>
      BY <2>3 DEF OrderInv
    <3>2. ModbusType' /\ Due' = Due
      BY <2>1, <3>1 DEF ModbusType, modbus, Due
    <3> QED
      BY <2>0, <2>1, <2>3, <3>1, <3>2, MovedLine, ModbusOrderKept DEF OrderInv, iso, modbus
  <2> QED
    BY <2>2, <2>3 DEF OrderInv
<1> QED
  BY <1>1, <1>2

\* However the bytes of a client arrive, and whatever is refused, times out or is
\* purged in between, each server performs or answers its requests once and in
\* the order in which they were sent.
THEOREM RequestsInOrder == FairSpec => []InOrder
<1>1. Init => OrderInv
  BY OrderInit
<1>2. OrderInv /\ [Next]_vars => OrderInv'
  BY OrderStep
<1>3. OrderInv => InOrder
  BY OrderStates
<1> QED
  BY <1>1, <1>2, <1>3, PTL DEF FairSpec

-----------------------------------------------------------------------------
(* All of one message *)

\* No message is sent in more than two packets.
TwoAtMost == \A s \in IsoScripts : \A m \in DOMAIN s : Len(s[m]) <= 2

\* The data of message a is in the buffer, and nothing of a is to come.
Full(a) == \A c \in 0 .. Total(a) - 1 : Payload[c] = Data(a)[c + 1]
Past(a) == \A i \in 1 .. Len(Ahead) : a < Ahead[i].m
AllIn(a, got) == Full(a) /\ Past(a) /\ Total(a) <= got

\* The data of its first packet is, and unit k of the second packet comes next.
FirstIn(a) == \A c \in 0 .. Size(a, 1) - 1 : Payload[c] = At(a, 1, c + 1)
Half(a, got, k) ==
    Len(script[a]) = 2 /\ FirstIn(a) /\ got = Size(a, 1) /\ Comes(At(a, 2, k))

\* Before, while and after the data of a packet is read.
Partial(a) ==
    \/ AllIn(a, Offset)
    \/ /\ pc \in {"fragment", "header"} /\ Half(a, Offset, -1)
       /\ pData = IF pc = "fragment" THEN 0 ELSE Offset
    \/ pc \in {"wait", "data"} /\ Half(a, Offset, 1) /\ header = script[a][2] /\ pData = Offset

Receiving == pc \in {"fragment", "header", "wait", "data"}

PartialInv ==
    Receiving /\ Offset > 0 =>
        /\ pc # "fragment" => pData >= Offset
        /\ \A a \in DOMAIN script : Payload[0] = At(a, 1, 1) => Partial(a)

ReceivedInv ==
    pc = "received" /\ Offset + header.len > 0 =>
        \A a \in DOMAIN script : Payload[0] = At(a, 1, 1) =>
            \/ AllIn(a, Offset + header.len)
            \/ Half(a, Offset + header.len, -1) /\ Offset = 0 /\ pData = 0

\* What IsoPerformCommand is to be given: a payload that the header fits.
Fits ==
    header.ok /\ header.type = "DT" /\ header.len > 0 =>
        \A a \in DOMAIN script : Payload[0] = At(a, 1, 1) /\ header.len = Total(a) => Full(a)

FitsInv ==
    \/ pc = "peek"
    \/ pc \in {"purge", "drain"} /\ after = "peek"
    \/ pc = "fragment" /\ Offset > 0
    => Fits

WholeInv ==
    /\ OrderInv
    /\ server = "s7" =>
          /\ FromClient => Payload[0].m \in DOMAIN script
          /\ pc \in {"wait", "data"} => Reading
          /\ (Receiving \/ pc = "received") /\ Offset = 0 => pData = 0
          /\ PartialInv /\ ReceivedInv /\ FitsInv
          /\ Whole

\* The data of a message of one and of two packets.
LEMMA DataShape ==
    ASSUME Line, server = "s7", NEW a \in DOMAIN script
    PROVE  /\ Total(a) \in Nat /\ Data(a) = [c \in 1 .. Total(a) |-> Data(a)[c]]
           /\ Len(script[a]) \in Nat \ {0}
           /\ \A p \in 1 .. Len(script[a]) : Size(a, p) \in Nat
           /\ Len(script[a]) = 1 =>
                 Total(a) = Size(a, 1) /\ \A c \in 1 .. Size(a, 1) : Data(a)[c] = At(a, 1, c)
           /\ Len(script[a]) = 2 =>
                 /\ Total(a) = Size(a, 1) + Size(a, 2)
                 /\ \A c \in 1 .. Size(a, 1) : Data(a)[c] = At(a, 1, c)
                 /\ \A c \in 1 .. Size(a, 2) : Data(a)[Size(a, 1) + c] = At(a, 2, c)
<1> DEFINE n == Len(script[a])
           part(p) == [k \in 1 .. Size(a, p) |-> At(a, p, k)]
           seqs == [p \in DOMAIN script[a] |-> part(p)]
<1>0. /\ a \in Nat /\ n \in Nat \ {0} /\ DOMAIN script[a] = 1 .. n
      /\ \A p \in 1 .. n : Size(a, p) \in Nat
  <2>1. a \in 1 .. Len(script)
    BY ScriptShape DEF Line, ScriptOK
  <2> QED
    BY <2>1, ScriptShape DEF Line, ScriptOK
<1>1. ASSUME NEW p \in 1 .. n
      PROVE  /\ part(p) \in Seq(Unit) /\ Len(part(p)) = Size(a, p)
             /\ \A k \in 1 .. Size(a, p) : part(p)[k] = At(a, p, k)
  <2>1. part(p) \in [1 .. Size(a, p) -> Unit] /\ Size(a, p) \in Nat
    BY <1>0 DEF At, Unit
  <2>2. part(p) \in Seq(Unit) /\ DOMAIN part(p) = 1 .. Size(a, p)
    BY <2>1, SeqDef
  <2> QED
    BY <2>1, <2>2, LenProperties
<1> HIDE DEF part
<1>2. seqs \in Seq(Seq(Unit)) /\ Len(seqs) = n /\ \A p \in 1 .. n : seqs[p] = part(p)
  <2>1. seqs \in [1 .. n -> Seq(Unit)]
    BY <1>0, <1>1
  <2>2. seqs \in Seq(Seq(Unit)) /\ DOMAIN seqs = 1 .. n
    BY <1>0, <2>1, SeqDef
  <2> QED
    BY <1>0, <2>2, LenProperties
<1>3. Data(a) = FlattenSeq(seqs)
  BY DEF Data, part, At
<1> HIDE DEF seqs
<1>4. PICK F : /\ Flattening(F, seqs) /\ FlattenSeq(seqs) = F[n]
               /\ \A i \in 0 .. n : F[i] \in Seq(Unit)
  BY <1>2, FlattenLengths
<1>5. F[0] = <<>> /\ \A i \in 1 .. n : F[i] = F[i - 1] \o part(i)
  BY <1>2, <1>4 DEF Flattening
<1>6. Data(a) \in Seq(Unit) /\ Total(a) = Len(Data(a))
  <2>1. n \in 0 .. n
    BY <1>0
  <2> QED
    BY <1>3, <1>4, <2>1 DEF Total
<1>7. Total(a) \in Nat /\ Data(a) = [c \in 1 .. Total(a) |-> Data(a)[c]]
  BY <1>6, LenProperties
<1>8. F[1] = part(1) /\ part(1) \in Seq(Unit)
  <2>1. 1 \in 1 .. n /\ 1 - 1 = 0
    BY <1>0
  <2>2. F[1] = <<>> \o part(1) /\ part(1) \in Seq(Unit)
    BY <1>1, <1>5, <2>1
  <2> QED
    BY <2>2, ConcatEmptySeq
<1>9. ASSUME n = 1
      PROVE  Total(a) = Size(a, 1) /\ \A c \in 1 .. Size(a, 1) : Data(a)[c] = At(a, 1, c)
  <2>1. Data(a) = part(1) /\ 1 \in 1 .. n
    BY <1>3, <1>4, <1>8, <1>9
  <2> QED
    BY <1>1, <1>6, <2>1
<1>10. ASSUME n = 2
       PROVE  /\ Total(a) = Size(a, 1) + Size(a, 2)
              /\ \A c \in 1 .. Size(a, 1) : Data(a)[c] = At(a, 1, c)
              /\ \A c \in 1 .. Size(a, 2) : Data(a)[Size(a, 1) + c] = At(a, 2, c)
  <2>1. 1 \in 1 .. n /\ 2 \in 1 .. n /\ 2 - 1 = 1
    BY <1>10
  <2>2. Data(a) = part(1) \o part(2)
    BY <1>3, <1>4, <1>5, <1>8, <1>10, <2>1
  <2>3. /\ part(1) \in Seq(Unit) /\ Len(part(1)) = Size(a, 1) /\ Size(a, 1) \in Nat
        /\ part(2) \in Seq(Unit) /\ Len(part(2)) = Size(a, 2) /\ Size(a, 2) \in Nat
    BY <1>0, <1>1, <2>1
  <2>4. /\ Len(Data(a)) = Size(a, 1) + Size(a, 2)
        /\ \A c \in 1 .. Size(a, 1) + Size(a, 2) :
              Data(a)[c] = IF c <= Size(a, 1) THEN part(1)[c] ELSE part(2)[c - Size(a, 1)]
    <3>1. /\ Len(part(1) \o part(2)) = Len(part(1)) + Len(part(2))
          /\ \A c \in 1 .. Len(part(1)) + Len(part(2)) :
                (part(1) \o part(2))[c] = IF c <= Len(part(1)) THEN part(1)[c] ELSE part(2)[c - Len(part(1))]
      BY ONLY <2>3, ConcatProperties
    <3> QED
      BY ONLY <2>2, <2>3, <3>1
  <2>5. ASSUME NEW c \in 1 .. Size(a, 1) PROVE Data(a)[c] = At(a, 1, c)
    <3>1. c \in 1 .. Size(a, 1) + Size(a, 2) /\ c <= Size(a, 1)
      BY <2>3
    <3> QED
      BY <1>1, <2>1, <2>4, <3>1
  <2>6. ASSUME NEW c \in 1 .. Size(a, 2) PROVE Data(a)[Size(a, 1) + c] = At(a, 2, c)
    <3>1. /\ Size(a, 1) + c \in 1 .. Size(a, 1) + Size(a, 2) /\ ~ (Size(a, 1) + c <= Size(a, 1))
          /\ (Size(a, 1) + c) - Size(a, 1) = c
      BY <2>3
    <3> QED
      BY <1>1, <2>1, <2>4, <3>1
  <2> QED
    BY <1>6, <2>4, <2>5, <2>6
<1> QED
  BY <1>0, <1>7, <1>9, <1>10

\* With the first packet in the buffer and nothing in the second all is in it.
LEMMA FirstIsFull ==
    ASSUME Line, server = "s7", NEW a \in DOMAIN script, Len(script[a]) <= 2,
           Total(a) = Size(a, 1),
           NEW cells, \A c \in 0 .. Size(a, 1) - 1 : cells[c] = At(a, 1, c + 1)
    PROVE  \A c \in 0 .. Total(a) - 1 : cells[c] = Data(a)[c + 1]
<1>1. Len(script[a]) \in {1, 2} /\ Size(a, 1) \in Nat
  <2>1. Len(script[a]) \in Nat \ {0} /\ \A p \in 1 .. Len(script[a]) : Size(a, p) \in Nat
    BY DataShape
  <2>2. 1 \in 1 .. Len(script[a])
    BY <2>1
  <2>3. Size(a, 1) \in Nat
    BY <2>1, <2>2
  <2> DEFINE n == Len(script[a])
  <2>4. n \in Nat \ {0} /\ n <= 2
    BY <2>1
  <2> HIDE DEF n
  <2>5. n \in {1, 2}
    BY <2>4
  <2> QED
    BY <2>3, <2>5 DEF n
<1>2. \A c \in 1 .. Size(a, 1) : Data(a)[c] = At(a, 1, c)
  BY <1>1, DataShape
<1>3. ASSUME NEW c \in 0 .. Size(a, 1) - 1 PROVE cells[c] = Data(a)[c + 1]
  <2>1. c + 1 \in 1 .. Size(a, 1)
    BY <1>1
  <2> QED
    BY <1>2, <2>1
<1> QED
  BY <1>3

\* What is in the buffer stays while only the stream is read or waited for.
LEMMA PiecesKept ==
    ASSUME Line, NEW n \in Nat, Moved(n), UNCHANGED Payload, NEW a, NEW k
    PROVE  /\ Full(a) => Full(a)'
           /\ Past(a) => Past(a)'
           /\ FirstIn(a) => FirstIn(a)'
           /\ Total(a)' = Total(a) /\ Data(a)' = Data(a) /\ Size(a, 1)' = Size(a, 1)
           /\ n = 0 /\ Comes(At(a, 2, k)) => Comes(At(a, 2, k))'
<1>1. script' = script
  BY DEF Moved
<1>2. Total(a)' = Total(a) /\ Data(a)' = Data(a) /\ Size(a, 1)' = Size(a, 1)
  BY <1>1 DEF Total, Data, Size
<1>3. Full(a) => Full(a)'
  BY <1>2 DEF Full
<1>4. FirstIn(a) => FirstIn(a)'
  BY <1>2 DEF FirstIn, At
<1>5. ASSUME Past(a) PROVE Past(a)'
  <2>1. Len(Ahead) \in Nat /\ Len(Ahead') \in Nat
    BY MovedLine, AheadShape
  <2>2. ASSUME NEW i \in 1 .. Len(Ahead') PROVE a < Ahead'[i].m
    <3>1. i + n \in 1 .. Len(Ahead) /\ Ahead'[i] = Ahead[i + n]
      BY <2>1 DEF Moved
    <3> QED
      BY <1>5, <3>1 DEF Past
  <2> QED
    BY <2>2 DEF Past
<1>6. ASSUME n = 0, Comes(At(a, 2, k)) PROVE Comes(At(a, 2, k))'
  <2>1. IF Ahead' # <<>> THEN Ahead'[1] = At(a, 2, k) ELSE closed' \/ At(a, 2, k) = End
    BY <1>6, ComesStill
  <2>2. End' = End /\ At(a, 2, k)' = At(a, 2, k)
    BY SameScript DEF Moved, At
  <2> QED
    BY <2>1, <2>2 DEF Comes
<1> QED
  BY <1>2, <1>3, <1>4, <1>5, <1>6

LEMMA WholeKept ==
    ASSUME Whole, UNCHANGED <<performed, script>>
    PROVE  Whole'
<1>1. \A a : Data(a)' = Data(a)
  BY DEF Data, Size
<1> QED
  BY <1>1 DEF Whole, Ids

\* Behind the last unit of message a nothing of it is to come.
LEMMA PastAfter ==
    ASSUME Line, NEW n \in Nat \ {0}, n <= Len(Ahead), Moved(n),
           NEW a \in Nat, NextUnit(Ahead[n]) = At(a + 1, 1, -1)
    PROVE  Past(a)'
<1>1. Len(Ahead) \in Nat /\ Len(Ahead') \in Nat
  BY MovedLine, AheadShape
<1>2. ASSUME NEW i \in 1 .. Len(Ahead') PROVE a < Ahead'[i].m
  <2>1. n + 1 \in 1 .. Len(Ahead) /\ i + n \in 1 .. Len(Ahead) /\ n \in 1 .. Len(Ahead) - 1
    BY <1>1 DEF Moved
  <2>2. Ahead[n + 1] = At(a + 1, 1, -1)
    BY <2>1 DEF Line, Linked, Links
  <2>3. Ahead'[i] = Ahead[i + n]
    BY DEF Moved
  <2>4. CASE i = 1
    <3>1. Ahead'[i].m = a + 1
      BY <2>2, <2>3, <2>4 DEF At
    <3> QED
      BY <3>1
  <2>5. CASE i # 1
    <3>1. n + 1 < i + n
      BY <1>1, <2>5
    <3>2. Before(Ahead[n + 1], Ahead[i + n])
      BY <2>1, <3>1, Increasing
    <3>3. Ahead[i + n].m \in Nat
      BY <2>1, AheadShape DEF Sent, Unit
    <3>4. a + 1 <= Ahead[i + n].m
      BY <2>2, <3>2, <3>3 DEF Before, At
    <3> QED
      BY <2>3, <3>3, <3>4
  <2> QED
    BY <2>4, <2>5
<1> QED
  BY <1>2 DEF Past

LEMMA ReadingKept ==
    ASSUME Line, Moved(0), Reading, UNCHANGED header
    PROVE  Reading'
<1>1. SUFFICES ASSUME Ahead' # <<>>, Ahead'[1].k = 1
               PROVE  header = script[Ahead'[1].m][Ahead'[1].p]
  BY DEF Reading, Moved
<1>2. Len(Ahead) \in Nat /\ Len(Ahead') \in Nat /\ (Ahead' = <<>> <=> Len(Ahead') = 0)
      /\ (Ahead = <<>> <=> Len(Ahead) = 0)
  BY MovedLine, AheadShape
<1>3. Ahead # <<>> /\ Ahead'[1] = Ahead[1]
  <2>1. 1 \in 1 .. Len(Ahead') /\ 1 + 0 = 1
    BY <1>1, <1>2
  <2> QED
    BY <1>2, <2>1 DEF Moved
<1> QED
  BY <1>1, <1>3 DEF Reading

\* The packet that is being put together stays so while the worker waits.
LEMMA PartialKept ==
    ASSUME Line, server = "s7", IsoType, PartialInv, Moved(0), UNCHANGED <<header, Payload, Offset>>,
           \/ pc' = pc /\ pData' = pData
           \/ pc = "wait" /\ pc' = "data" /\ pData' = pData
           \/ pc = "fragment" /\ pc' = "header" /\ pData' = pData + Offset
    PROVE  PartialInv'
<1>1. SUFFICES ASSUME Receiving', Offset > 0
               PROVE  /\ pc' # "fragment" => pData' >= Offset
                      /\ \A a \in DOMAIN script : Payload[0] = At(a, 1, 1) => Partial(a)'
  BY DEF PartialInv, Moved, At
<1>2. /\ pc # "fragment" => pData >= Offset
      /\ \A a \in DOMAIN script : Payload[0] = At(a, 1, 1) => Partial(a)
      /\ Offset \in Nat /\ pData \in Nat
  BY <1>1 DEF PartialInv, Receiving, IsoType
<1>3. pc' # "fragment" => pData' >= Offset
  BY <1>2
<1>4. ASSUME NEW a \in DOMAIN script, Partial(a) PROVE Partial(a)'
  <2>0. script' = script
    BY DEF Moved
  <2>1. CASE AllIn(a, Offset)
    <3>1. AllIn(a, Offset)'
      BY <2>1, PiecesKept DEF AllIn
    <3> QED
      BY <3>1 DEF Partial
  <2>2. CASE /\ pc \in {"fragment", "header"} /\ Half(a, Offset, -1)
             /\ pData = IF pc = "fragment" THEN 0 ELSE Offset
    <3>1. FirstIn(a)' /\ Size(a, 1)' = Size(a, 1) /\ Comes(At(a, 2, -1))'
      BY <2>2, PiecesKept DEF Half
    <3>2. Half(a, Offset, -1)'
      BY <2>0, <2>2, <3>1 DEF Half
    <3>3. pc' \in {"fragment", "header"} /\ pData' = IF pc' = "fragment" THEN 0 ELSE Offset
      BY <1>2, <2>2
    <3> QED
      BY <3>2, <3>3 DEF Partial
  <2>3. CASE pc \in {"wait", "data"} /\ Half(a, Offset, 1) /\ header = script[a][2] /\ pData = Offset
    <3>1. FirstIn(a)' /\ Size(a, 1)' = Size(a, 1) /\ Comes(At(a, 2, 1))'
      BY <2>3, PiecesKept DEF Half
    <3>2. Half(a, Offset, 1)'
      BY <2>0, <2>3, <3>1 DEF Half
    <3>3. pc' \in {"wait", "data"} /\ pData' = Offset /\ header' = script'[a][2]
      BY <2>0, <2>3
    <3> QED
      BY <3>2, <3>3 DEF Partial
  <2> QED
    BY <1>4, <2>1, <2>2, <2>3 DEF Partial
<1> QED
  BY <1>2, <1>3, <1>4

LEMMA FitsKept ==
    ASSUME Fits, UNCHANGED <<header, Payload, script>>
    PROVE  Fits'
<1>1. \A a : Total(a)' = Total(a) /\ Data(a)' = Data(a)
  BY DEF Total, Data, Size
<1> QED
  BY <1>1 DEF Fits, Full, At

LEMMA RecvHeaderWhole ==
    ASSUME TwoAtMost, WholeInv, server = "s7", isoRecvHeader, UNCHANGED server
    PROVE  /\ pc' \in {"wait", "data"} => Reading'
           /\ PartialInv' /\ ReceivedInv' /\ FitsInv'
<1> DEFINE u == stream[1]
<1>a. PICK h \in HeadersOf(SubSeq(stream, 1, HeaderSize)) : HeaderGoes(h)
  BY HeaderIs
<1>0. Line /\ IsoType /\ PartialInv /\ FitsInv
  BY DEF WholeInv, OrderInv
<1>1. /\ pc = "header" /\ Len(stream) >= 2 /\ header' = h /\ stream' = SubSeq(stream, 2 + 1, Len(stream))
      /\ UNCHANGED <<Payload, Offset, pData, performed>>
      /\ UNCHANGED <<server, script, wire, closed>>
      /\ pc' = IF AfterHeader(h) = "data" THEN "wait"
               ELSE IF AfterHeader(h) = "refuse" THEN "purge" ELSE AfterHeader(h)
  BY <1>a DEF HeaderGoes
<1>2. Moved(2) /\ 2 \in Nat \ {0} /\ 2 <= Len(Ahead) /\ Ahead[1] = u /\ Ahead[2] = stream[2] /\ Ahead # <<>>
  <2>1. Len(stream) \in Nat /\ Len(Ahead) \in Nat /\ Len(stream) <= Len(Ahead)
    BY <1>0, AheadShape
  <2>2. 1 \in 1 .. Len(stream) /\ 2 \in 1 .. Len(stream) /\ 2 <= Len(Ahead)
    BY <1>1, <2>1
  <2>3. Ahead # <<>>
    BY <1>0, <2>2, AheadShape
  <2> QED
    BY <1>0, <1>1, <2>2, <2>3, AheadShape, ReadMoves
<1>3. /\ h \in Headers7
      /\ h.ok => h.len \in 0 .. IsoPayload_Size
      /\ \/ u \in Sent /\ u.k # -1
         \/ /\ u \in Sent /\ u.k = -1
            /\ h = script[u.m][u.p]
            /\ 1 <= u.p /\ u.p <= Len(script[u.m])
            /\ Size(u.m, u.p) = IF h.len > 0 THEN h.len ELSE 0
            /\ stream[2] = At(u.m, u.p, 0)
  BY <1>0, <1>1, <1>a, HeaderRead
<1>4. /\ Offset \in Nat /\ pData \in Nat /\ IsoPayload_Size \in Nat
      /\ h.len \in Int
  BY <1>0, <1>3, ScriptsAssumption DEF IsoType, Headers7
<1>5. ASSUME NEW a \in DOMAIN script, Offset > 0, Payload[0] = At(a, 1, 1), ~AllIn(a, Offset)
      PROVE  /\ Half(a, Offset, -1) /\ pData = Offset /\ u = At(a, 2, -1) /\ a \in Nat
             /\ Size(a, 1) = Offset /\ Total(a) = Size(a, 1) + Size(a, 2) /\ Len(script[a]) = 2
             /\ Size(a, 2) = IF h.len > 0 THEN h.len ELSE 0
             /\ h = script[a][2] /\ stream[2] = At(a, 2, 0)
  <2>1. Partial(a)
    BY <1>0, <1>1, <1>5 DEF PartialInv, Receiving
  <2>2. Half(a, Offset, -1) /\ pData = Offset
    BY <1>1, <1>5, <2>1 DEF Partial
  <2>3. u = At(a, 2, -1)
    BY <1>2, <2>2 DEF Half, Comes
  <2>4. Len(script[a]) = 2 /\ Size(a, 1) = Offset
    BY <2>2 DEF Half
  <2>5. Total(a) = Size(a, 1) + Size(a, 2)
    BY <1>0, <2>4, DataShape
  <2>6. u.k = -1 /\ u.m = a /\ u.p = 2
    BY <2>3 DEF At
  <2>7. a \in Nat
    BY <1>3, <2>6 DEF Sent, Unit
  <2> QED
    BY <1>3, <2>2, <2>3, <2>4, <2>5, <2>6, <2>7
<1>6. CASE AfterHeader(h) = "refuse"
  <2>1. pc' = "purge"
    BY <1>1, <1>6
  <2>2. Fits'
    <3> SUFFICES ASSUME h.ok, h.type = "DT", h.len > 0, NEW a \in DOMAIN script,
                        Payload[0] = At(a, 1, 1), h.len = Total(a)
                 PROVE  Full(a)'
      BY <1>1, <1>2, PiecesKept, <1>0 DEF Fits, At
    <3>1. Offset > 0
      BY <1>3, <1>4, <1>6 DEF AfterHeader, CheckPDU
    <3>2. AllIn(a, Offset)
      BY <1>4, <1>5, <3>1
    <3> QED
      BY <1>0, <1>1, <1>2, <3>2, PiecesKept DEF AllIn
  <2> QED
    BY <2>1, <2>2 DEF PartialInv, ReceivedInv, FitsInv, Receiving
<1>7. CASE AfterHeader(h) = "received"
  <2>1. pc' = "received" /\ h.len = 0
    <3>1. h.ok /\ h.len <= 0
      BY <1>4, <1>7 DEF AfterHeader, CheckPDU
    <3> QED
      BY <1>1, <1>3, <1>4, <1>7, <3>1
  <2>2. ASSUME NEW a \in DOMAIN script, Offset > 0, Payload[0] = At(a, 1, 1)
        PROVE  AllIn(a, Offset)'
    <3>1. CASE AllIn(a, Offset)
      BY <1>0, <1>1, <1>2, <3>1, PiecesKept DEF AllIn
    <3>2. CASE ~AllIn(a, Offset)
      <4>1. /\ FirstIn(a) /\ Size(a, 2) = 0 /\ stream[2] = At(a, 2, 0) /\ Len(script[a]) = 2 /\ a \in Nat
            /\ Total(a) = Offset /\ Size(a, 1) = Offset
        BY <1>4, <1>5, <2>1, <2>2, <3>2 DEF Half
      <4>2. Full(a)
        <5>1. \A c \in 0 .. Size(a, 1) - 1 : Payload[c] = At(a, 1, c + 1)
          BY <4>1 DEF FirstIn
        <5>2. Len(script[a]) <= 2 /\ Total(a) = Size(a, 1)
          BY <4>1
        <5> QED
          BY <1>0, <5>1, <5>2, FirstIsFull DEF Full
      <4>3. NextUnit(Ahead[2]) = At(a + 1, 1, -1)
        <5>1. Ahead[2] = At(a, 2, 0)
          BY <1>2, <4>1
        <5>2. /\ Ahead[2].m = a /\ Ahead[2].p = 2 /\ Ahead[2].k = 0
              /\ ~ (0 < Size(a, 2)) /\ ~ (2 < Len(script[a]))
          BY <4>1, <5>1 DEF At
        <5>3. NextUnit(Ahead[2]) = At(Ahead[2].m + 1, 1, -1)
          BY ONLY <5>2 DEF NextUnit
        <5> QED
          BY <5>2, <5>3
      <4>4. Past(a)'
        BY <1>0, <1>2, <4>1, <4>3, PastAfter
      <4>5. Full(a)' /\ Total(a)' = Total(a)
        BY <1>0, <1>1, <1>2, <4>2, PiecesKept
      <4> QED
        BY <1>1, <1>4, <4>1, <4>4, <4>5 DEF AllIn
    <3> QED
      BY <3>1, <3>2
  <2>3. ReceivedInv'
    <3>1. Offset' + header'.len = Offset /\ script' = script /\ Payload' = Payload /\ Offset' = Offset
      BY <1>1, <1>4, <2>1
    <3>2. ASSUME NEW a \in DOMAIN script, Offset > 0, Payload[0] = At(a, 1, 1)
          PROVE  AllIn(a, Offset + header.len)'
      BY <2>2, <3>1, <3>2 DEF AllIn
    <3> QED
      BY <3>1, <3>2 DEF ReceivedInv, At
  <2> QED
    BY <2>1, <2>3 DEF PartialInv, FitsInv, Receiving
<1>8. CASE AfterHeader(h) = "data" /\ u.k = -1
  <2>1. pc' = "wait" /\ h.ok /\ h.len > 0 /\ u \in Sent /\ u.k = -1 /\ h = script[u.m][u.p]
        /\ Size(u.m, u.p) = h.len /\ Ahead[2] = At(u.m, u.p, 0)
    <3>1. h.ok /\ h.len > 0 /\ pc' = "wait"
      BY <1>1, <1>4, <1>8 DEF AfterHeader, CheckPDU
    <3> QED
      BY <1>2, <1>3, <1>8, <3>1
  <2>2. ASSUME NEW m, NEW p, m = u.m, p = u.p
        PROVE  Comes(At(m, p, 1))'
    <3>1. NextUnit(Ahead[2]) = At(m, p, 1)
      BY <2>1, <2>2 DEF NextUnit, At
    <3>2. IF Ahead' # <<>> THEN Ahead'[1] = At(m, p, 1) ELSE closed' \/ At(m, p, 1) = End
      BY <1>0, <1>2, <3>1, ComesAfter
    <3> QED
      BY <3>2, SameScript, <1>1 DEF Comes, At
  <2>3. Reading'
    <3> SUFFICES ASSUME Ahead' # <<>>
                 PROVE  header' = script'[Ahead'[1].m][Ahead'[1].p]
      BY DEF Reading
    <3>1. PICK m, p : m = u.m /\ p = u.p
      OBVIOUS
    <3>2. Ahead'[1] = At(m, p, 1)
      <4>1. Comes(At(m, p, 1))'
        BY <2>2, <3>1
      <4> QED
        BY <4>1 DEF Comes, At
    <3>3. Ahead'[1].m = m /\ Ahead'[1].p = p
      BY <3>2 DEF At
    <3> QED
      BY <1>1, <2>1, <3>1, <3>3
  <2>4. PartialInv'
    <3>1. ASSUME Offset > 0, NEW a \in DOMAIN script, Payload[0] = At(a, 1, 1)
          PROVE  Partial(a)'
      <4>1. CASE AllIn(a, Offset)
        <5>1. AllIn(a, Offset)'
          BY <1>0, <1>1, <1>2, <4>1, PiecesKept DEF AllIn
        <5> QED
          BY <5>1 DEF Partial
      <4>2. CASE ~AllIn(a, Offset)
        <5>1. /\ FirstIn(a) /\ Len(script[a]) = 2 /\ u = At(a, 2, -1) /\ pData = Offset
              /\ h = script[a][2] /\ Size(a, 1) = Offset
          BY <1>5, <3>1, <4>2 DEF Half
        <5>2. Comes(At(a, 2, 1))'
          <6>1. a = u.m /\ 2 = u.p
            BY <5>1 DEF At
          <6> QED
            BY <2>2, <6>1
        <5>3. FirstIn(a)' /\ Size(a, 1)' = Size(a, 1)
          BY <1>0, <1>1, <1>2, <5>1, PiecesKept
        <5>4. Half(a, Offset, 1)'
          BY <1>1, <5>1, <5>2, <5>3 DEF Half
        <5> QED
          BY <1>1, <2>1, <5>1, <5>4 DEF Partial
      <4> QED
        BY <4>1, <4>2
    <3>2. Offset > 0 => pData >= Offset
      BY <1>0, <1>1 DEF PartialInv, Receiving
    <3> QED
      BY <1>1, <2>1, <3>1, <3>2 DEF PartialInv, At
  <2> QED
    BY <2>1, <2>3, <2>4 DEF ReceivedInv, FitsInv
<1>b. CASE AfterHeader(h) = "data" /\ u.k # -1
  <2>1. pc' = "wait"
    BY <1>1, <1>b
  <2>2. Reading'
    <3>1. SUFFICES ASSUME Ahead' # <<>>, Ahead'[1].k = 1 PROVE FALSE
      BY DEF Reading
    <3>2. Ahead'[1] = NextUnit(Ahead[2])
      BY <1>0, <1>2, <3>1, ComesAfter
    <3>3. Ahead[2] = NextUnit(u)
      <4>1. 1 \in 1 .. Len(Ahead) - 1
        BY <1>0, <1>2, AheadShape
      <4>2. <<Ahead[1], Ahead[1 + 1]>> \in Links
        BY <1>0, <4>1 DEF Line, Linked
      <4> QED
        BY <1>2, <4>2 DEF Links
    <3>4. u.k \in Int /\ NextUnit(u).k \in Int
      BY <1>3 DEF Sent, Unit, NextUnit, At
    <3>5. NextUnit(u).k = 0
      BY <3>1, <3>2, <3>3, <3>4 DEF NextUnit, At
    <3> QED
      BY <1>b, <3>4, <3>5 DEF NextUnit, At
  <2>3. PartialInv'
    <3>1. ASSUME Offset > 0, NEW a \in DOMAIN script, Payload[0] = At(a, 1, 1)
          PROVE  Partial(a)'
      <4>1. AllIn(a, Offset)
        <5>1. ~AllIn(a, Offset) => u = At(a, 2, -1)
          BY <1>5, <3>1
        <5> QED
          BY <1>b, <5>1 DEF At
      <4>2. AllIn(a, Offset)'
        BY <1>0, <1>1, <1>2, <4>1, PiecesKept DEF AllIn
      <4> QED
        BY <4>2 DEF Partial
    <3>2. Offset > 0 => pData >= Offset
      BY <1>0, <1>1 DEF PartialInv, Receiving
    <3> QED
      BY <1>1, <2>1, <3>1, <3>2 DEF PartialInv, At
  <2> QED
    BY <2>1, <2>2, <2>3 DEF ReceivedInv, FitsInv
<1>9. AfterHeader(h) \in {"refuse", "received", "data"}
  BY DEF AfterHeader
<1>10. pc' \in {"wait", "data"} => AfterHeader(h) = "data"
  BY <1>1, <1>9
<1> QED
  BY <1>1, <1>6, <1>7, <1>8, <1>9, <1>10, <1>b

\* The data of a packet, read from its first unit on.
LEMMA PacketRead ==
    ASSUME Line, server = "s7", NEW n \in Nat \ {0}, n <= Len(Ahead),
           NEW m, NEW p, Ahead[1] = At(m, p, 1), Size(m, p) = n
    PROVE  /\ \A i \in 1 .. n : Ahead[i] = At(m, p, i)
           /\ m \in Nat
           /\ NextUnit(Ahead[n]) = IF p < Len(script[m]) THEN At(m, p + 1, -1) ELSE At(m + 1, 1, -1)
<1>1. \A i \in 1 .. n : Ahead[i] = At(m, p, i)
  <2>1. Ahead[1].m = m /\ Ahead[1].p = p /\ Ahead[1].k = 1
    BY DEF At
  <2>2. Ahead[1].k + (n - 1) <= Size(Ahead[1].m, Ahead[1].p)
    BY <2>1
  <2>3. \A i \in 1 .. n : Ahead[i] = At(Ahead[1].m, Ahead[1].p, Ahead[1].k + (i - 1))
    BY <2>2, RunOf
  <2>4. \A i \in 1 .. n : 1 + (i - 1) = i
    OBVIOUS
  <2> QED
    BY <2>1, <2>3, <2>4
<1>2. Ahead[n] = At(m, p, n) /\ m \in Nat
  <2>1. n \in 1 .. n /\ 1 \in 1 .. Len(Ahead)
    BY AheadShape
  <2>2. Ahead[1] \in Unit
    BY <2>1, AheadShape DEF Sent
  <2> QED
    BY <1>1, <2>1, <2>2 DEF Unit, At
<1>3. NextUnit(Ahead[n]) = IF p < Len(script[m]) THEN At(m, p + 1, -1) ELSE At(m + 1, 1, -1)
  <2>1. ~ (n < Size(m, p))
    OBVIOUS
  <2>2. At(m, p, n).m = m /\ At(m, p, n).p = p /\ At(m, p, n).k = n
    BY DEF At
  <2> HIDE DEF At
  <2> QED
    BY <1>2, <2>1, <2>2 DEF NextUnit
<1> QED
  BY <1>1, <1>2, <1>3

LEMMA RecvDataWhole ==
    ASSUME TwoAtMost, WholeInv, server = "s7", isoRecvData, UNCHANGED server
    PROVE  /\ FromClient' => Payload'[0].m \in DOMAIN script'
           /\ PartialInv' /\ ReceivedInv' /\ FitsInv'
<1> DEFINE n == header.len
<1>0. /\ Line /\ IsoType /\ PartialInv /\ (Offset = 0 => pData = 0) /\ Reading
      /\ FromClient => Payload[0].m \in DOMAIN script
  BY DEF WholeInv, OrderInv, isoRecvData, Receiving
<1>1. /\ pc = "data" /\ pc' = "received" /\ n \in 1 .. IsoPayload_Size - Offset
      /\ Len(stream) >= n /\ stream' = SubSeq(stream, n + 1, Len(stream))
      /\ UNCHANGED <<header, Offset, pData, server, script, wire, closed>>
      /\ Payload' = [c \in Cells |-> IF c \in pData .. pData + n - 1
                                     THEN stream[c - pData + 1] ELSE Payload[c]]
  BY <1>0 DEF isoRecvData, RecvPacket, IsoType
<1>2. /\ n \in Nat \ {0} /\ Offset \in Nat /\ pData \in Nat /\ IsoPayload_Size \in Nat
      /\ Offset + n <= IsoPayload_Size
      /\ Len(stream) \in Nat /\ Len(Ahead) \in Nat /\ n <= Len(Ahead) /\ Ahead # <<>>
      /\ \A i \in 1 .. n : i \in 1 .. Len(stream) /\ stream[i] = Ahead[i]
  <2>1. Len(stream) \in Nat /\ Len(Ahead) \in Nat /\ Len(stream) <= Len(Ahead)
    BY <1>0, AheadShape
  <2>2. Offset \in Nat /\ pData \in Nat /\ IsoPayload_Size \in Nat
    BY <1>0, ScriptsAssumption DEF IsoType
  <2>3. n \in Nat \ {0} /\ Offset + n <= IsoPayload_Size /\ n <= Len(Ahead)
    BY <1>1, <2>1, <2>2
  <2>4. Ahead # <<>>
    BY <1>0, <2>1, <2>3, AheadShape
  <2>5. \A i \in 1 .. n : i \in 1 .. Len(stream)
    BY <1>1, <2>1, <2>3
  <2> QED
    BY <1>0, <2>1, <2>2, <2>3, <2>4, <2>5, AheadShape
<1>3. Moved(n)
  BY <1>0, <1>1, <1>2, ReadMoves
<1>10. /\ \A c \in 0 .. IsoPayload_Size - 1 :
             ~ (c \in pData .. pData + n - 1) => Payload'[c] = Payload[c]
       /\ pData <= Offset => \A i \in 1 .. n : Payload'[pData + i - 1] = Ahead[i]
  <2>1. ASSUME NEW c \in 0 .. IsoPayload_Size - 1, ~ (c \in pData .. pData + n - 1)
        PROVE  Payload'[c] = Payload[c]
    <3>1. c \in Cells
      BY <1>2 DEF Cells
    <3> QED
      BY <1>1, <2>1, <3>1
  <2>2. ASSUME pData <= Offset, NEW i \in 1 .. n
        PROVE  Payload'[pData + i - 1] = Ahead[i]
    <3>1. /\ pData + i - 1 \in Cells /\ pData + i - 1 \in pData .. pData + n - 1
          /\ (pData + i - 1) - pData + 1 = i
      BY <1>2, <2>2 DEF Cells
    <3>2. Payload'[pData + i - 1] = stream[i]
      BY <1>1, <3>1
    <3> QED
      BY <1>2, <3>2
  <2> QED
    BY <2>1, <2>2
<1> HIDE DEF n
<1>11. 0 \in 0 .. IsoPayload_Size - 1
  BY <1>2
<1>12. CASE Offset = 0
  <2>1. /\ pData = 0 /\ Payload'[0] = Ahead[1]
        /\ \A i \in 1 .. n : Payload'[i - 1] = Ahead[i]
    <3>1. pData = 0
      BY <1>0, <1>12
    <3>2. 1 \in 1 .. n /\ 1 - 1 = 0 /\ \A i \in 1 .. n : pData + i - 1 = i - 1
      BY <1>2, <3>1
    <3>3. \A i \in 1 .. n : Payload'[i - 1] = Ahead[i]
      BY <1>10, <1>12, <3>1, <3>2
    <3> QED
      BY <3>1, <3>2, <3>3
  <2>2. ASSUME NEW a \in DOMAIN script, Payload'[0] = At(a, 1, 1)
        PROVE  AllIn(a, n)' \/ Half(a, n, -1)'
    <3>0. Ahead[1] = At(a, 1, 1) /\ Size(a, 1) = n
      <4>1. Ahead[1] = At(a, 1, 1)
        BY <2>1, <2>2
      <4>2. header = script[a][1]
        BY <1>0, <1>2, <4>1 DEF Reading, At
      <4> QED
        BY <1>2, <4>1, <4>2 DEF Size, n
    <3>1. /\ \A i \in 1 .. n : Ahead[i] = At(a, 1, i)
          /\ a \in Nat
          /\ NextUnit(Ahead[n]) = IF 1 < Len(script[a]) THEN At(a, 2, -1) ELSE At(a + 1, 1, -1)
      <4>1. 1 + 1 = 2
        OBVIOUS
      <4>2. n \in Nat \ {0} /\ n <= Len(Ahead)
        BY <1>2
      <4> QED
        BY <1>0, <3>0, <4>1, <4>2, PacketRead
    <3>2. FirstIn(a)' /\ Size(a, 1)' = n
      <4>1. \A c \in 0 .. n - 1 : c + 1 \in 1 .. n /\ (c + 1) - 1 = c
        BY <1>2
      <4>2. \A c \in 0 .. n - 1 : Payload'[c] = At(a, 1, c + 1)
        BY <2>1, <3>1, <4>1
      <4>3. Size(a, 1)' = n
        BY <1>1, <3>0 DEF Size
      <4> QED
        BY <4>2, <4>3 DEF FirstIn, At
    <3>3. Len(script[a]) \in Nat \ {0} /\ Len(script[a]) <= 2
      <4>1. Len(script[a]) <= 2
        BY <1>0 DEF TwoAtMost, Line
      <4> QED
        BY <1>0, <4>1, DataShape
    <3>4. CASE Len(script[a]) = 1
      <4>1. Total(a) = Size(a, 1)
        BY <1>0, <3>4, DataShape
      <4>2. \A c \in 0 .. Total(a) - 1 : Payload'[c] = Data(a)[c + 1]
        <5>1. \A c \in 0 .. Size(a, 1) - 1 : Payload'[c] = At(a, 1, c + 1)
          BY <1>1, <3>0, <3>2 DEF FirstIn, At
        <5> QED
          BY <1>0, <3>3, <4>1, <5>1, FirstIsFull
      <4>3. Full(a)' /\ Total(a)' = n /\ n' = n
        <5>0. n' = n
          BY <1>1 DEF n
        <5>1. Total(a)' = Total(a) /\ Data(a)' = Data(a)
          BY <1>1 DEF Total, Data, Size
        <5> QED
          BY <3>0, <4>1, <4>2, <5>0, <5>1 DEF Full
      <4>4. NextUnit(Ahead[n]) = At(a + 1, 1, -1) /\ a \in Nat
        BY <3>1, <3>4
      <4>5. Past(a)'
        BY <1>0, <1>2, <1>3, <4>4, PastAfter
      <4> QED
        BY <1>1, <1>2, <4>3, <4>5 DEF AllIn
    <3>5. CASE Len(script[a]) # 1
      <4> DEFINE len == Len(script[a])
      <4>0. len \in Nat \ {0} /\ len <= 2 /\ len # 1
        BY <3>3, <3>5
      <4> HIDE DEF len
      <4>1. len = 2 /\ 1 < len
        BY <4>0
      <4>2. NextUnit(Ahead[n]) = At(a, 2, -1)
        BY <3>1, <4>1 DEF len
      <4>3. IF Ahead' # <<>> THEN Ahead'[1] = At(a, 2, -1) ELSE closed' \/ At(a, 2, -1) = End
        BY <1>0, <1>2, <1>3, <4>2, ComesAfter
      <4>4. Comes(At(a, 2, -1))'
        BY <1>1, <4>3, SameScript DEF Comes, At
      <4>5. Len(script'[a]) = 2 /\ n' = n
        BY <1>1, <4>1 DEF len, n
      <4> QED
        BY <3>2, <4>4, <4>5 DEF Half
    <3> QED
      BY <3>4, <3>5
  <2>3. ReceivedInv'
    <3>1. Offset' = 0 /\ pData' = 0 /\ Offset' + header'.len = n /\ n' = n
      BY <1>1, <1>2, <1>12, <2>1 DEF n
    <3>2. ASSUME NEW a \in DOMAIN script, Payload'[0] = At(a, 1, 1)
          PROVE  AllIn(a, Offset + header.len)' \/ Half(a, Offset + header.len, -1)'
      BY <2>2, <3>1, <3>2 DEF AllIn, Half
    <3> QED
      BY <1>1, <3>1, <3>2 DEF ReceivedInv, At
  <2>4. FromClient' => Payload'[0].m \in DOMAIN script'
    <3>1. 1 \in 1 .. Len(Ahead)
      BY <1>2
    <3>2. Ahead[1].m \in DOMAIN script
      BY <1>0, <3>1, AheadShape DEF Sent
    <3> QED
      BY <1>1, <2>1, <3>2
  <2> QED
    BY <1>1, <2>3, <2>4 DEF PartialInv, FitsInv, Receiving
<1>13. CASE Offset # 0
  <2>1. pData >= Offset /\ Offset > 0 /\ Payload'[0] = Payload[0]
    <3>1. pData >= Offset /\ Offset > 0
      BY <1>0, <1>1, <1>2, <1>13 DEF PartialInv, Receiving
    <3>2. ~ (0 \in pData .. pData + n - 1)
      BY <1>2, <3>1
    <3> QED
      BY <1>10, <1>11, <3>1, <3>2
  <2>2. ASSUME NEW a \in DOMAIN script, Payload[0] = At(a, 1, 1)
        PROVE  AllIn(a, Offset + n)'
    <3>0. /\ Total(a)' = Total(a) /\ Data(a)' = Data(a) /\ Offset' = Offset /\ n' = n
          /\ Total(a) \in Nat
      BY <1>0, <1>1, DataShape DEF Total, Data, Size, n
    <3>1. Partial(a)
      BY <1>0, <1>1, <2>1, <2>2 DEF PartialInv, Receiving
    <3>2. CASE AllIn(a, Offset)
      <4>1. ASSUME NEW c \in 0 .. Total(a) - 1 PROVE Payload'[c] = Data(a)[c + 1]
        <5>1. c \in 0 .. IsoPayload_Size - 1 /\ ~ (c \in pData .. pData + n - 1)
          BY <1>2, <2>1, <3>0, <3>2 DEF AllIn
        <5>2. Payload[c] = Data(a)[c + 1]
          BY <3>2 DEF AllIn, Full
        <5> QED
          BY <1>10, <5>1, <5>2
      <4>2. Full(a)'
        BY <3>0, <4>1 DEF Full
      <4>3. Past(a)'
        <5>1. ASSUME NEW i \in 1 .. Len(Ahead') PROVE a < Ahead'[i].m
          <6>1. Len(Ahead') \in Nat /\ i + n \in 1 .. Len(Ahead) /\ Ahead'[i] = Ahead[i + n]
            <7>1. Len(Ahead') \in Nat
              BY <1>0, <1>2, <1>3, MovedLine, AheadShape
            <7> QED
              BY <1>2, <1>3, <7>1 DEF Moved
          <6> QED
            BY <3>2, <6>1 DEF AllIn, Past
        <5> QED
          BY <5>1 DEF Past
      <4>4. Total(a) <= Offset + n
        BY <1>2, <3>0, <3>2 DEF AllIn
      <4> QED
        BY <3>0, <4>2, <4>3, <4>4 DEF AllIn
    <3>3. CASE pc \in {"wait", "data"} /\ Half(a, Offset, 1) /\ header = script[a][2] /\ pData = Offset
      <4>1. /\ Len(script[a]) = 2 /\ Size(a, 1) = Offset /\ Size(a, 2) = n
            /\ \A c \in 0 .. Size(a, 1) - 1 : Payload[c] = At(a, 1, c + 1)
        <5>1. Ahead[1] = At(a, 2, 1)
          BY <1>2, <3>3 DEF Half, Comes
        <5>2. Size(a, 2) = n
          BY <1>2, <3>3 DEF Size, n
        <5> QED
          BY <3>3, <5>2 DEF Half, FirstIn
      <4>a. /\ \A i \in 1 .. n : Ahead[i] = At(a, 2, i)
            /\ a \in Nat
            /\ NextUnit(Ahead[n]) = IF 2 < Len(script[a]) THEN At(a, 3, -1) ELSE At(a + 1, 1, -1)
        <5>0. 2 + 1 = 3
          OBVIOUS
        <5>1. Ahead[1] = At(a, 2, 1) /\ n \in Nat \ {0} /\ n <= Len(Ahead)
          BY <1>2, <3>3 DEF Half, Comes
        <5>2. Line /\ Size(a, 2) = n
          BY <1>0, <4>1
        <5> QED
          BY <5>0, <5>1, <5>2, PacketRead
      <4>2. /\ Total(a) = Offset + n
            /\ \A c \in 1 .. Offset : Data(a)[c] = At(a, 1, c)
            /\ \A c \in 1 .. n : Data(a)[Offset + c] = At(a, 2, c)
        BY <1>0, <4>1, DataShape
      <4>3. ASSUME NEW c \in 0 .. Total(a) - 1 PROVE Payload'[c] = Data(a)[c + 1]
        <5>1. CASE c < Offset
          <6>1. /\ c \in 0 .. IsoPayload_Size - 1 /\ ~ (c \in pData .. pData + n - 1)
                /\ c + 1 \in 1 .. Offset /\ c \in 0 .. Size(a, 1) - 1
            BY <1>2, <2>1, <4>1, <4>2, <5>1
          <6> QED
            BY <1>10, <4>1, <4>2, <6>1
        <5>2. CASE ~ (c < Offset)
          <6>1. PICK i \in 1 .. n : i = c - Offset + 1
            BY <1>2, <4>2, <5>2
          <6>2. pData + i - 1 = c /\ Offset + i = c + 1 /\ pData <= Offset
            BY <1>2, <3>3, <4>2, <6>1
          <6> QED
            BY <1>10, <4>1, <4>2, <4>a, <6>2
        <5> QED
          BY <5>1, <5>2
      <4>4. Full(a)'
        BY <3>0, <4>3 DEF Full
      <4>5. NextUnit(Ahead[n]) = At(a + 1, 1, -1) /\ a \in Nat
        <5> DEFINE len == Len(script[a])
        <5>1. len = 2
          BY <4>1
        <5> HIDE DEF len
        <5>2. ~ (2 < len)
          BY <5>1
        <5> QED
          BY <4>a, <5>2 DEF len
      <4>6. Past(a)'
        BY <1>0, <1>2, <1>3, <4>5, PastAfter
      <4> QED
        BY <1>2, <3>0, <4>2, <4>4, <4>6 DEF AllIn
    <3> QED
      BY <1>1, <3>1, <3>2, <3>3 DEF Partial
  <2>3. ReceivedInv'
    <3>1. ASSUME NEW a \in DOMAIN script, Payload'[0] = At(a, 1, 1)
          PROVE  AllIn(a, Offset + header.len)'
      BY <2>1, <2>2, <3>1 DEF n
    <3> QED
      BY <1>1, <3>1 DEF ReceivedInv, At
  <2>4. FromClient' => Payload'[0].m \in DOMAIN script'
    BY <1>0, <1>1, <2>1 DEF FromClient
  <2> QED
    BY <1>1, <2>3, <2>4 DEF PartialInv, FitsInv, Receiving
<1> QED
  BY <1>12, <1>13

\* Of a step that does not go on with receiving only the payload for IsoPeek counts.
LEMMA LeavesWhole ==
    ASSUME WholeInv, server = "s7", OrderInv', FitsInv',
           UNCHANGED <<server, script, Payload, performed>>,
           pc' \notin {"fragment", "header", "wait", "data", "received"}
    PROVE  WholeInv'
<1>1. Whole'
  BY WholeKept DEF WholeInv
<1>2. (FromClient => Payload[0].m \in DOMAIN script)'
  BY DEF WholeInv, FromClient
<1>3. ~Receiving' /\ PartialInv' /\ ReceivedInv'
  BY DEF Receiving, PartialInv, ReceivedInv
<1> QED
  BY <1>1, <1>2, <1>3 DEF WholeInv

\* While the client sends or leaves, the worker stands where it stood.
LEMMA StillWhole ==
    ASSUME WholeInv, server = "s7", OrderInv', Moved(0), UNCHANGED <<pc, iso>>
    PROVE  WholeInv'
<1>0. /\ Line /\ IsoType /\ PartialInv /\ ReceivedInv /\ FitsInv /\ Whole
      /\ pc \in {"wait", "data"} => Reading
      /\ script' = script /\ server' = server
      /\ UNCHANGED <<header, Payload, Offset, pData, after, performed>>
  BY DEF WholeInv, OrderInv, Moved, iso
<1>1. Whole'
  BY <1>0, WholeKept
<1>2. (FromClient => Payload[0].m \in DOMAIN script)'
  BY <1>0 DEF WholeInv, FromClient
<1>3. pc' \in {"wait", "data"} => Reading'
  BY <1>0, ReadingKept
<1>4. PartialInv'
  BY <1>0, PartialKept
<1>5. ReceivedInv'
  <2>1. ASSUME NEW a, NEW got, AllIn(a, got), got' = got PROVE AllIn(a, got)'
    BY <1>0, <2>1, PiecesKept DEF AllIn
  <2>2. ASSUME NEW a, NEW got, Half(a, got, -1), got' = got PROVE Half(a, got, -1)'
    BY <1>0, <2>2, PiecesKept DEF Half
  <2>3. (Offset + header.len)' = Offset + header.len
    BY <1>0
  <2>4. ASSUME pc = "received", Offset + header.len > 0, NEW a \in DOMAIN script, Payload[0] = At(a, 1, 1)
        PROVE  \/ AllIn(a, Offset + header.len)'
               \/ Half(a, Offset + header.len, -1)' /\ Offset = 0 /\ pData = 0
    <3>1. \/ AllIn(a, Offset + header.len)
          \/ Half(a, Offset + header.len, -1) /\ Offset = 0 /\ pData = 0
      BY <1>0, <2>4 DEF ReceivedInv
    <3> QED
      BY <2>1, <2>2, <2>3, <3>1
  <2> QED
    BY <1>0, <2>4 DEF ReceivedInv, At
<1>6. FitsInv'
  BY <1>0, FitsKept DEF FitsInv
<1>7. ((Receiving \/ pc = "received") /\ Offset = 0 => pData = 0)'
  BY <1>0 DEF WholeInv, Receiving
<1> QED
  BY <1>1, <1>2, <1>3, <1>4, <1>5, <1>6, <1>7 DEF WholeInv

\* The end of a fragment, of the telegram or not.
LEMMA ReceivedWhole ==
    ASSUME WholeInv, server = "s7", OrderInv', FragmentReceived, UNCHANGED server
    PROVE  WholeInv'
<1> DEFINE got == Offset + header.len
<1>0. /\ Line /\ IsoType /\ ReceivedInv /\ Whole /\ pc = "received" /\ (Offset = 0 => pData = 0)
      /\ UNCHANGED <<server, script, wire, stream, closed, Payload, pData, performed>>
  BY DEF WholeInv, OrderInv, FragmentReceived, Jump
<1>1. Offset \in Nat /\ header.len \in Nat /\ got \in Nat /\ header.ok
  BY <1>0 DEF IsoType, Headers7
<1>2. /\ header'.len = IF Complete THEN got ELSE header.len
      /\ header'.ok = header.ok /\ header'.type = header.type
      /\ pc' \in {"peek", "purge", "fragment"}
      /\ pc' = "fragment" => Offset' = got
  <2>1. CASE Complete
    <3>1. header' = [header EXCEPT !.len = Offset + @] /\ header \in Headers7 /\ pc' = "peek"
      BY <1>0, <2>1 DEF FragmentReceived, Jump, IsoType
    <3> QED
      BY <2>1, <3>1 DEF Headers7
  <2>2. CASE ~Complete
    BY <2>2 DEF FragmentReceived, Jump
  <2> QED
    BY <2>1, <2>2
<1> HIDE DEF got
<1>3. Moved(0)
  BY <1>0, StandsStill
<1>4. ASSUME NEW a \in DOMAIN script, Payload[0] = At(a, 1, 1), got > 0
      PROVE  AllIn(a, got) \/ (Half(a, got, -1) /\ Offset = 0 /\ pData = 0)
  BY <1>0, <1>4 DEF ReceivedInv, got
<1>5. Fits'
  <2> SUFFICES ASSUME header'.len > 0, NEW a \in DOMAIN script, Payload[0] = At(a, 1, 1), header'.len = Total(a)
               PROVE  Full(a)'
    BY <1>0, <1>3, PiecesKept DEF Fits, At
  <2>1. got > 0
    BY <1>1, <1>2 DEF got
  <2>2. CASE AllIn(a, got)
    BY <1>0, <1>3, <2>2, PiecesKept DEF AllIn
  <2>3. CASE Half(a, got, -1) /\ Offset = 0
    <3>1. got = header.len
      BY <1>1, <2>3 DEF got
    <3>2. Total(a) = Size(a, 1) /\ Len(script[a]) <= 2 /\ FirstIn(a)
      BY <1>2, <2>3, <3>1 DEF Half
    <3>3. \A c \in 0 .. Size(a, 1) - 1 : Payload[c] = At(a, 1, c + 1)
      BY <3>2 DEF FirstIn
    <3>4. Full(a)
      BY <1>0, <3>2, <3>3, FirstIsFull DEF Full
    <3> QED
      BY <1>0, <1>3, <3>4, PiecesKept
  <2> QED
    BY <1>4, <2>1, <2>2, <2>3
<1>6. FitsInv'
  BY <1>5 DEF FitsInv
<1>7. CASE pc' # "fragment"
  BY <1>0, <1>2, <1>6, <1>7, LeavesWhole
<1>8. CASE pc' = "fragment"
  <2>1. Offset' = got
    BY <1>2, <1>8
  <2>2. ASSUME NEW a \in DOMAIN script, Payload[0] = At(a, 1, 1), got > 0
        PROVE  Partial(a)'
    <3>1. CASE AllIn(a, got)
      <4>1. AllIn(a, Offset)'
        BY <1>0, <1>3, <2>1, <3>1, PiecesKept DEF AllIn
      <4> QED
        BY <4>1 DEF Partial
    <3>2. CASE Half(a, got, -1) /\ Offset = 0 /\ pData = 0
      <4>1. FirstIn(a)' /\ Size(a, 1)' = Size(a, 1) /\ Comes(At(a, 2, -1))'
        BY <1>0, <1>3, <3>2, PiecesKept DEF Half
      <4>2. Half(a, Offset, -1)'
        BY <1>0, <2>1, <3>2, <4>1 DEF Half
      <4> QED
        BY <1>0, <1>8, <3>2, <4>2 DEF Partial
    <3> QED
      BY <1>4, <2>2, <3>1, <3>2
  <2>3. PartialInv'
    BY <1>0, <1>8, <2>1, <2>2 DEF PartialInv, At
  <2>4. Offset' = 0 => pData' = 0
    BY <1>0, <1>1, <2>1 DEF got
  <2>5. Whole' /\ ReceivedInv' /\ (FromClient => Payload[0].m \in DOMAIN script)'
    BY <1>0, <1>8, WholeKept DEF ReceivedInv, FromClient, WholeInv
  <2> QED
    BY <1>6, <1>8, <2>3, <2>4, <2>5 DEF WholeInv
<1> QED
  BY <1>7, <1>8

\* What a function is handed fits its header.
LEMMA PerformWhole ==
    ASSUME WholeInv, server = "s7", OrderInv', IsoPerformCommand, UNCHANGED server
    PROVE  WholeInv'
<1> DEFINE e == [data |-> [c \in 1 .. header.len |-> Payload[c - 1]], ok |-> header.ok]
           own == Own(IF S7Header.kind = "userdata" THEN 2 ELSE 1)
           a == Payload[0].m
<1>0. /\ Line /\ IsoType /\ IsoOrder /\ Fits /\ Whole
      /\ FromClient => a \in DOMAIN script
  BY DEF WholeInv, OrderInv, IsoPerformCommand, FitsInv
<1>1. PICK n \in Nat : n = Len(performed)
  BY <1>0 DEF IsoOrder
<1>2. /\ performed' = Append(performed, e) /\ Payload' = [Payload EXCEPT ![0] = own]
      /\ UNCHANGED <<server, script>> /\ pc' = "idle"
      /\ FromClient /\ Consistent /\ PduKind = "data"
  BY DEF IsoPerformCommand, SendPacket
<1>3. Payload[0] = At(a, 1, 1) /\ header.len = Total(a) /\ a \in DOMAIN script
  <2>1. Payload[0] # Own(2)
    BY <1>2 DEF FromClient, Own
  <2>2. Payload[0].p = 1 /\ Payload[0].k = 1 /\ header.len = Total(a)
    BY <1>2, <2>1 DEF Consistent, S7Header
  <2>3. Payload[0] \in Unit
    BY <1>0, ScriptsAssumption DEF IsoType, Cells
  <2> QED
    BY <1>0, <1>2, <2>2, <2>3 DEF Unit, At
<1>4. header.type = "DT" /\ header.len \in Nat \ {0}
  <2>1. header.len \in Int /\ header.len # 0 /\ ~ (header.len < 0) /\ header.type = "DT"
    BY <1>0, <1>2 DEF PduKind, IsoType, Headers7
  <2> QED
    BY <2>1
<1>5. ASSUME header.ok PROVE e.data = Data(a)
  <2>1. Full(a)
    BY <1>0, <1>3, <1>4, <1>5 DEF Fits
  <2>2. Total(a) \in Nat /\ Data(a) = [c \in 1 .. Total(a) |-> Data(a)[c]]
    BY <1>0, <1>3, DataShape
  <2>3. ASSUME NEW c \in 1 .. Total(a) PROVE Payload[c - 1] = Data(a)[c]
    <3>1. c - 1 \in 0 .. Total(a) - 1 /\ (c - 1) + 1 = c
      BY <2>2
    <3> QED
      BY <2>1, <3>1 DEF Full
  <2>4. [c \in 1 .. Total(a) |-> Payload[c - 1]] = [c \in 1 .. Total(a) |-> Data(a)[c]]
    BY <2>3
  <2> QED
    BY <1>3, <2>2, <2>4
<1>6. e.data[1].m = a /\ e.ok = header.ok
  <2>1. 1 \in 1 .. header.len /\ 1 - 1 = 0
    BY <1>4
  <2> QED
    BY <2>1
<1> HIDE DEF e, own
<1>7. /\ Len(performed') = n + 1
      /\ performed' = [k \in 1 .. n + 1 |-> performed'[k]]
      /\ \A k \in 1 .. n : performed'[k] = performed[k]
      /\ performed'[n + 1] = e
  <2>1. performed = [k \in 1 .. n |-> performed[k]]
    BY <1>0, <1>1 DEF IsoOrder
  <2> QED
    BY <1>2, <2>1, AppendAny
<1>8. DOMAIN performed = 1 .. n /\ DOMAIN performed' = 1 .. n + 1
  BY <1>0, <1>1, <1>7 DEF IsoOrder
<1>9. ASSUME NEW k \in 1 .. n + 1, performed'[k].ok
      PROVE  performed'[k].data = Data(performed'[k].data[1].m)
  <2>1. CASE k \in 1 .. n
    <3>1. performed'[k] = performed[k] /\ k \in DOMAIN performed
      BY <1>7, <1>8, <2>1
    <3> QED
      BY <1>0, <1>9, <3>1 DEF Whole, Ids
  <2>2. CASE k \notin 1 .. n
    <3>1. k = n + 1
      BY <2>2
    <3>2. performed'[k] = e
      BY <1>7, <3>1
    <3> QED
      BY <1>5, <1>6, <1>9, <3>2
  <2> QED
    BY <2>1, <2>2
<1>10. \A b : Data(b)' = Data(b)
  BY <1>2 DEF Data, Size
<1>11. Whole'
  <2>1. \A k \in DOMAIN performed' : Ids'[k] = performed'[k].data[1].m
    BY DEF Ids
  <2> QED
    BY <1>8, <1>9, <1>10, <2>1 DEF Whole
<1>12. ~FromClient'
  <2>1. own.m = 0 /\ 0 \in Cells
    BY ScriptsAssumption DEF own, Own, Cells
  <2> QED
    BY <1>0, <1>2, <2>1 DEF FromClient, IsoType
<1> QED
  BY <1>2, <1>11, <1>12 DEF WholeInv, Receiving, PartialInv, ReceivedInv, FitsInv

LEMMA IsoStepWhole ==
    ASSUME TwoAtMost, WholeInv, server = "s7", IsoStep, UNCHANGED <<server, modbus>>
    PROVE  WholeInv'
<1>0. OrderInv' /\ Line /\ IsoType /\ server' = "s7"
  BY IsoStepOrder DEF WholeInv, OrderInv
<1>1. /\ PartialInv /\ ReceivedInv /\ FitsInv /\ Whole
      /\ pc \in {"wait", "data"} => Reading
      /\ (Receiving \/ pc = "received") /\ Offset = 0 => pData = 0
      /\ FromClient => Payload[0].m \in DOMAIN script
  BY DEF WholeInv
<1>2. ASSUME UNCHANGED <<server, script, Payload, performed>>
      PROVE  Whole' /\ (FromClient => Payload[0].m \in DOMAIN script)'
  BY <1>1, <1>2, WholeKept DEF FromClient
<1> USE DEF iso
<1>3. CASE ExecuteRecv
  <2>1. /\ UNCHANGED <<server, script, Payload, performed>> /\ pc' = "fragment"
        /\ Offset' = 0 /\ pData' = 0
    BY <1>0, <1>3 DEF ExecuteRecv, Jump
  <2> QED
    BY <1>0, <1>2, <2>1 DEF WholeInv, PartialInv, ReceivedInv, FitsInv
<1>4. CASE NextFragment
  <2>1. /\ UNCHANGED <<server, script, wire, stream, closed, header, Payload, Offset, performed>>
        /\ pc = "fragment" /\ pData' = pData + Offset
        /\ \/ pc' = "header"
           \/ pc' = "reset"
           \/ pc' = "purge" /\ ~ (Offset < IsoPayload_Size)
    BY <1>0, <1>4 DEF NextFragment, WaitForData, Jump
  <2>2. Moved(0)
    BY <1>0, <2>1, StandsStill
  <2>3. CASE pc' = "header"
    <3>1. PartialInv'
      BY <1>0, <1>1, <2>1, <2>2, <2>3, PartialKept
    <3>2. Offset' = 0 => pData' = 0
      BY <1>1, <2>1 DEF Receiving
    <3> QED
      BY <1>0, <1>2, <2>1, <2>3, <3>1, <3>2 DEF WholeInv, ReceivedInv, FitsInv
  <2>4. CASE pc' = "reset"
    <3>1. FitsInv'
      BY <2>4 DEF FitsInv
    <3> QED
      BY <1>0, <2>1, <2>4, <3>1, LeavesWhole
  <2>5. CASE pc' = "purge" /\ ~ (Offset < IsoPayload_Size)
    <3>1. Offset > 0
      BY <1>0, <2>5, ScriptsAssumption DEF IsoType
    <3>2. Fits'
      BY <1>1, <2>1, <3>1, FitsKept DEF FitsInv
    <3> QED
      BY <1>0, <2>1, <2>5, <3>2, LeavesWhole DEF FitsInv
  <2> QED
    BY <2>1, <2>3, <2>4, <2>5
<1>5. CASE isoRecvHeader
  <2>1. /\ UNCHANGED <<server, script, Payload, Offset, pData, performed>> /\ pc = "header"
    BY <1>0, <1>5 DEF isoRecvHeader, RecvPacket
  <2>2. /\ pc' \in {"wait", "data"} => Reading'
        /\ PartialInv' /\ ReceivedInv' /\ FitsInv'
    BY <1>0, <1>5, RecvHeaderWhole
  <2>3. Offset' = 0 => pData' = 0
    BY <1>1, <2>1 DEF Receiving
  <2> QED
    BY <1>0, <1>2, <2>1, <2>2, <2>3 DEF WholeInv
<1>6. CASE isoWaitData
  <2>1. /\ UNCHANGED <<server, script, wire, stream, closed>> /\ UNCHANGED iso
        /\ pc = "wait" /\ pc' \in {"data", "reset"}
    BY <1>0, <1>6 DEF isoWaitData, WaitForData
  <2>2. Moved(0)
    BY <1>0, <2>1, StandsStill
  <2>3. CASE pc' = "data"
    <3>1. PartialInv' /\ Reading'
      BY <1>0, <1>1, <2>1, <2>2, <2>3, PartialKept, ReadingKept
    <3>2. Offset' = 0 => pData' = 0
      BY <1>1, <2>1 DEF Receiving
    <3> QED
      BY <1>0, <1>2, <2>1, <2>3, <3>1, <3>2 DEF WholeInv, ReceivedInv, FitsInv
  <2>4. CASE pc' = "reset"
    <3>1. FitsInv'
      BY <2>4 DEF FitsInv
    <3> QED
      BY <1>0, <2>1, <2>4, <3>1, LeavesWhole
  <2> QED
    BY <2>1, <2>3, <2>4
<1>7. CASE isoRecvData
  <2>1. /\ UNCHANGED <<server, script, Offset, pData, performed>> /\ pc = "data" /\ pc' = "received"
    BY <1>0, <1>7 DEF isoRecvData, RecvPacket
  <2>2. /\ (FromClient => Payload[0].m \in DOMAIN script)'
        /\ PartialInv' /\ ReceivedInv' /\ FitsInv'
    BY <1>0, <1>7, RecvDataWhole
  <2>3. Offset' = 0 => pData' = 0
    BY <1>1, <2>1 DEF Receiving
  <2>4. Whole'
    BY <1>1, <2>1, WholeKept
  <2> QED
    BY <1>0, <2>1, <2>2, <2>3, <2>4 DEF WholeInv
<1>8. CASE isoTimeout
  <2>1. UNCHANGED <<server, script, Payload, performed>> /\ pc' = "purge" /\ after' = "again"
    BY <1>0, <1>8 DEF isoTimeout, RecvTimeout
  <2>2. FitsInv'
    BY <2>1 DEF FitsInv
  <2> QED
    BY <1>0, <2>1, <2>2, LeavesWhole
<1>9. CASE FragmentReceived
  BY <1>0, <1>9, ReceivedWhole
<1>10. CASE PurgeStep
  <2>1. UNCHANGED <<server, script, header, Payload, Offset, performed>> /\ pc \in {"purge", "drain"}
    BY <1>0, <1>10 DEF PurgeStep, Purge, Drain
  <2>2. /\ pc' \in {"drain", "purge", "peek", "idle"}
        /\ pc' = "peek" => after = "peek"
        /\ after' = "peek" => after = "peek"
    <3>1. pc' \in {"drain", AfterPurge}
      BY <1>10 DEF PurgeStep, Purge, Drain
    <3>2. AfterPurge \in {"purge", "peek", "idle"} /\ (AfterPurge = "peek" => after = "peek")
      BY <1>0 DEF AfterPurge, IsoType
    <3>3. after' = "peek" => after = "peek"
      BY <1>10 DEF PurgeStep
    <3> QED
      BY <3>1, <3>2, <3>3
  <2>3. FitsInv'
    BY <1>1, <2>1, <2>2, FitsKept DEF FitsInv
  <2> QED
    BY <1>0, <2>1, <2>2, <2>3, LeavesWhole
<1>11. CASE DestroySocket /\ UNCHANGED iso
  <2>1. UNCHANGED <<server, script, Payload, performed>> /\ pc' \in {"last drain", "ended"}
    BY <1>0, <1>11 DEF DestroySocket, Purge, Drain
  <2>2. FitsInv'
    BY <2>1 DEF FitsInv
  <2> QED
    BY <1>0, <2>1, <2>2, LeavesWhole
<1>12. CASE Control \/ Report
  <2>1. UNCHANGED <<server, script, Payload, performed>> /\ pc' \in {"idle", "reset"}
    BY <1>0, <1>12 DEF Control, IsoConfirmConnection, SendPacket, Report, Jump
  <2>2. FitsInv'
    BY <2>1 DEF FitsInv
  <2> QED
    BY <1>0, <2>1, <2>2, LeavesWhole
<1>13. CASE InvalidPDU
  <2>1. UNCHANGED <<server, script, Payload, performed>> /\ pc' = "purge" /\ after' = "idle"
    BY <1>0, <1>13 DEF InvalidPDU, Jump
  <2>2. FitsInv'
    BY <2>1 DEF FitsInv
  <2> QED
    BY <1>0, <2>1, <2>2, LeavesWhole
<1>14. CASE IsoPerformCommand
  BY <1>0, <1>14, PerformWhole
<1> QED
  BY <1>3, <1>4, <1>5, <1>6, <1>7, <1>8, <1>9, <1>10, <1>11, <1>12, <1>13, <1>14 DEF IsoStep

LEMMA WholeInit ==
    ASSUME Init
    PROVE  WholeInv
<1>1. OrderInv
  BY OrderInit
<1>2. pc = "idle" /\ performed = <<>> /\ ~FromClient
  <2>1. 0 \in Cells
    BY ScriptsAssumption DEF Cells
  <2> QED
    BY <2>1 DEF Init, IsoInit, FromClient, Own
<1> QED
  BY <1>1, <1>2 DEF WholeInv, Receiving, PartialInv, ReceivedInv, FitsInv, Whole

LEMMA WholeStep ==
    ASSUME TwoAtMost, WholeInv, [Next]_vars
    PROVE  WholeInv'
<1>0. OrderInv' /\ Line /\ server \in {"s7", "modbus"}
  BY OrderStep DEF WholeInv, OrderInv
<1>1. CASE server # "s7"
  <2>1. server' = server
    BY <1>1 DEF Next, Worker, vars
  <2> QED
    BY <1>0, <1>1, <2>1 DEF WholeInv
<1>2. CASE server = "s7" /\ IsoStep /\ UNCHANGED <<server, modbus>>
  BY <1>2, IsoStepWhole
<1>3. CASE server = "s7" /\ Environment /\ UNCHANGED <<server, iso, modbus>>
  <2>1. Moved(0) /\ UNCHANGED pc
    BY <1>0, <1>3, ArriveMoves, CloseMoves DEF Environment, Arrive, Close
  <2> QED
    BY <1>0, <1>3, <2>1, StillWhole
<1>4. CASE server = "s7" /\ UNCHANGED vars
  <2>1. Moved(0) /\ UNCHANGED <<pc, iso>>
    BY <1>0, <1>4, StandsStill DEF vars, socket
  <2> QED
    BY <1>0, <1>4, <2>1, StillWhole
<1> QED
  BY <1>1, <1>2, <1>3, <1>4 DEF Next, Worker

\* As long as no message is sent in more than two packets, what a function of the
\* S7 server is handed is all of one message and nothing else, whatever else was
\* received, cut short or purged before.
THEOREM RequestsAreWhole ==
    ASSUME TwoAtMost
    PROVE  FairSpec => []Whole
<1>1. Init => WholeInv
  BY WholeInit
<1>2. WholeInv /\ [Next]_vars => WholeInv'
  BY WholeStep
<1>3. WholeInv => Whole
  <2>1. CASE server = "s7"
    BY <2>1 DEF WholeInv
  <2>2. CASE server # "s7"
    <3>1. WholeInv => performed = <<>>
      BY <2>2 DEF WholeInv, OrderInv
    <3> QED
      BY <3>1 DEF Whole
  <2> QED
    BY <2>1, <2>2
<1> QED
  BY <1>1, <1>2, <1>3, PTL DEF FairSpec

-----------------------------------------------------------------------------
(* Nothing is lost without a cause *)

\* What NothingLost says of a message, and of all up to message n.
Proper(m) ==
    IF server = "s7" THEN Valid(m) ELSE Conforming(script[m][1]) /\ script[m][1].fun # "unknown"

Served(n) ==
    IF server = "s7"
    THEN Range(Ids) = {m \in 1 .. n : Kind(script[m]) \in {"job", "userdata"}}
    ELSE {r.m : r \in Range(replies)} = {m \in 1 .. n : script[m][1].value # "refused"}

Good == clean /\ ~closed /\ \A m \in 1 .. Handled : Proper(m)

\* Message a is next, and the others have been served.
Begins(a) == a \in 1 .. Len(script) + 1 /\ Comes(At(a, 1, -1)) /\ Served(a - 1)
Between == \E a \in 1 .. Len(script) + 1 : Begins(a)

\* The sizes of the first packets of message a.
Sums(a) ==
    {S \in [0 .. Len(script[a]) -> Nat] :
        /\ S[0] = 0
        /\ \A p \in 1 .. Len(script[a]) : S[p] = S[p - 1] + Size(a, p)
        /\ S[Len(script[a])] = Total(a)}

\* Where data of message a is, the first cell has a unit of a, and the first of
\* all if that is in the first packet.
Collected(a, got) ==
    got > 0 => Payload[0].m = a /\ (Size(a, 1) > 0 => Payload[0] = At(a, 1, 1))

\* The worker is at a packet of message a.
Within(a, S) ==
    /\ Served(a - 1) /\ S \in Sums(a)
    /\ NumParts \in 1 .. Len(script[a]) /\ Offset = S[NumParts - 1]
    /\ Collected(a, Offset)

\* The offsets at each place, whatever was received.
Offsets ==
    /\ NumParts \in Nat \ {0}
    /\ Receiving \/ pc = "received" =>
          /\ NumParts = 1 => Offset = 0
          /\ Offset = 0 => pData = 0
          /\ Offset > 0 /\ pc # "fragment" => pData > 0

\* Where the worker of the S7 server is when it waits for a header, for data,
\* has received a packet, or all of a message.
AtHeader ==
    \/ NumParts = 1 /\ Between
    \/ NumParts > 1 /\ \E a \in DOMAIN script : \E S \in Sums(a) :
          Within(a, S) /\ Comes(At(a, NumParts, -1))

AtData ==
    \E a \in DOMAIN script : \E S \in Sums(a) :
        Within(a, S) /\ header = script[a][NumParts] /\ Comes(At(a, NumParts, 1))

AtReceived ==
    \E a \in DOMAIN script : \E S \in Sums(a) :
        /\ Within(a, S) /\ header = script[a][NumParts]
        /\ Comes(NextUnit(At(a, NumParts, Size(a, NumParts))))
        /\ Collected(a, S[NumParts])

AtPeek ==
    \E a \in DOMAIN script :
        /\ Served(a - 1) /\ Comes(At(a + 1, 1, -1)) /\ header.ok
        /\ \/ header.type = "CR" /\ script[a][1].type = "CR"
           \/ header.type = "DT" /\ header.len = Total(a) /\ Collected(a, Total(a))

IsoPlaces ==
    /\ pc = "idle" => Between
    /\ pc \in {"fragment", "header"} => AtHeader
    /\ pc \in {"wait", "data"} => AtData
    /\ pc = "received" => AtReceived
    /\ pc = "peek" => AtPeek
    /\ pc \in {"purge", "drain"} => Between /\ after # "peek"

\* The header and the body of message a have been read.
HeaderIn(a) == mbap.m = a /\ mbap.packet = script[a][1] /\ Served(a - 1)

ModbusPlaces ==
    /\ pc \in {"idle", "mbap", "mbap purge", "mbap drain"} => Between
    /\ pc \in {"check", "body"} =>
          \E a \in DOMAIN script : HeaderIn(a) /\ Comes(At(a, 1, 1))
    /\ pc = "body" => mbap.packet.claimed = RequestSize
    /\ pc = "perform" =>
          \E a \in DOMAIN script :
              HeaderIn(a) /\ Comes(At(a + 1, 1, -1)) /\ body = script[a][1].value
    /\ pc \in {"idle", "mbap", "mbap purge", "mbap drain", "check", "body", "perform", "reset",
               "last drain", "ended"}

LostInv ==
    /\ OrderInv
    /\ server = "s7" => Offsets /\ (Good => IsoPlaces)
    /\ server = "modbus" /\ Good => ModbusPlaces

\* How many messages have been begun goes by the unit that comes next.
LEMMA HandledAt ==
    ASSUME Line, ~closed, NEW m \in Nat, NEW p, NEW k, Comes(At(m, p, k))
    PROVE  /\ p = 1 /\ k = -1 => AtStart /\ Handled = m - 1
           /\ p # 1 \/ k # -1 => Handled = m
<1>1. At(m, p, k).m = m /\ At(m, p, k).p = p /\ At(m, p, k).k = k
  BY DEF At
<1>2. CASE Ahead = <<>>
  <2>1. At(m, p, k) = End
    BY <1>2 DEF Comes
  <2>2. End.m = Len(script) + 1 /\ End.p = 1 /\ End.k = -1
    BY DEF End, At
  <2>3. m = Len(script) + 1 /\ p = 1 /\ k = -1
    BY <1>1, <2>1, <2>2
  <2>4. AtStart /\ Handled = Len(script)
    BY <1>2 DEF AtStart, Handled
  <2>5. Len(script) \in Nat
    BY ScriptShape DEF Line, ScriptOK
  <2> QED
    BY <2>3, <2>4, <2>5
<1>3. CASE Ahead # <<>>
  <2>1. Ahead[1].m = m /\ Ahead[1].p = p /\ Ahead[1].k = k
    BY <1>1, <1>3 DEF Comes
  <2>2. AtStart <=> k = -1 /\ p = 1
    BY <1>3, <2>1 DEF AtStart
  <2>3. Handled = IF AtStart THEN m - 1 ELSE m
    BY <1>3, <2>1 DEF Handled
  <2> QED
    BY <2>2, <2>3
<1> QED
  BY <1>2, <1>3

\* Behind the header of a packet it is the message of that packet.
LEMMA NextHandled ==
    ASSUME Line, server \in {"s7", "modbus"}, ~closed, NEW m \in DOMAIN script, NEW p \in DOMAIN script[m],
           NEW k \in 0 .. Size(m, p), Comes(NextUnit(At(m, p, k)))
    PROVE  Handled = m /\ m \in Nat \ {0}
<1>1. m \in 1 .. Len(script) /\ Len(script) \in Nat /\ p \in 1 .. Len(script[m]) /\ Size(m, p) \in Nat
  BY ScriptShape DEF Line, ScriptOK
<1>2. At(m, p, k).m = m /\ At(m, p, k).p = p /\ At(m, p, k).k = k
  BY DEF At
<1> DEFINE u == At(m, p, k)
           size == Size(m, p)
           last == Len(script[m])
<1>3. /\ k \in Nat /\ m \in Nat \ {0} /\ m + 1 \in Nat /\ last \in Nat /\ p \in Nat \ {0}
  BY <1>1, ScriptShape DEF Line, ScriptOK
<1>4. NextUnit(u) = IF k < size THEN At(m, p, k + 1) ELSE IF p < last THEN At(m, p + 1, -1) ELSE At(m + 1, 1, -1)
  <2> HIDE DEF u
  <2>1. u.m = m /\ u.p = p /\ u.k = k
    BY <1>2 DEF u
  <2> QED
    BY <2>1 DEF NextUnit
<1> HIDE DEF u, size, last
<1>5. CASE k < size
  <2>1. Comes(At(m, p, k + 1)) /\ k + 1 # -1
    BY <1>3, <1>4, <1>5 DEF u
  <2> QED
    BY <1>3, <2>1, HandledAt
<1>6. CASE ~ (k < size) /\ p < last
  <2>1. Comes(At(m, p + 1, -1)) /\ p + 1 # 1
    BY <1>3, <1>4, <1>6 DEF u
  <2> QED
    BY <1>3, <2>1, HandledAt
<1>7. CASE ~ (k < size) /\ ~ (p < last)
  <2>1. Comes(At(m + 1, 1, -1))
    BY <1>3, <1>4, <1>7 DEF u
  <2>2. Handled = (m + 1) - 1
    BY <1>3, <2>1, HandledAt
  <2> QED
    BY <1>3, <2>2
<1> QED
  BY <1>5, <1>6, <1>7

LEMMA HandledGrows ==
    ASSUME Line, server \in {"s7", "modbus"}, NEW n \in Nat, Moved(n), ~closed'
    PROVE  Handled \in Nat /\ Handled' \in Nat /\ Handled <= Handled'
<1>1. /\ Line' /\ script' = script /\ server' = server /\ ~closed
      /\ Len(Ahead) \in Nat /\ Len(Ahead') \in Nat /\ Len(Ahead') + n = Len(Ahead)
  <2>1. Line'
    BY MovedLine
  <2> QED
    BY <2>1, AheadShape DEF Moved
<1>2. Len(script) \in Nat /\ DOMAIN script = 1 .. Len(script)
  BY ScriptShape DEF Line, ScriptOK
<1>3. Ahead # <<>> => /\ 1 \in 1 .. Len(Ahead) /\ Ahead[1].m \in 1 .. Len(script)
                      /\ Ahead[1].p \in Nat \ {0} /\ Ahead[1].k \in Int /\ Ahead[1].k >= -1
                      /\ Handled = IF AtStart THEN Ahead[1].m - 1 ELSE Ahead[1].m
                      /\ AtStart <=> Ahead[1].k = -1 /\ Ahead[1].p = 1
  <2> SUFFICES ASSUME Ahead # <<>>
               PROVE  /\ 1 \in 1 .. Len(Ahead) /\ Ahead[1].m \in 1 .. Len(script)
                      /\ Ahead[1].p \in Nat \ {0} /\ Ahead[1].k \in Int /\ Ahead[1].k >= -1
    BY DEF Handled, AtStart
  <2>1. 1 \in 1 .. Len(Ahead)
    BY <1>1, AheadShape
  <2>2. Ahead[1] \in Sent
    BY <2>1, AheadShape
  <2>3. Ahead[1].m \in 1 .. Len(script)
    BY <1>2, <2>2 DEF Sent
  <2>4. Ahead[1].p \in 1 .. Len(script[Ahead[1].m])
    BY <2>2, <2>3, ScriptShape DEF Sent, Line, ScriptOK
  <2>5. Ahead[1].k \in -1 .. Size(Ahead[1].m, Ahead[1].p) /\ Size(Ahead[1].m, Ahead[1].p) \in Nat
    BY <2>2, <2>3, <2>4, ScriptShape DEF Sent, Line, ScriptOK
  <2>6. Ahead[1].p \in Nat \ {0}
    BY <2>2, <2>4 DEF Sent, Unit
  <2> QED
    BY <2>1, <2>3, <2>5, <2>6
<1>4. CASE Ahead' = <<>>
  <2>1. Handled' = Len(script)
    BY <1>1, <1>4 DEF Handled
  <2>2. Handled \in Nat /\ Handled <= Len(script)
    <3>1. CASE Ahead = <<>>
      BY <1>2, <3>1 DEF Handled
    <3>2. CASE Ahead # <<>>
      BY <1>2, <1>3, <3>2
    <3> QED
      BY <3>1, <3>2
  <2> QED
    BY <1>2, <2>1, <2>2
<1>5. CASE Ahead' # <<>>
  <2>0. 1 \in 1 .. Len(Ahead')
    BY <1>1, <1>5, AheadShape
  <2>1. Ahead # <<>> /\ Ahead'[1] = Ahead[1 + n] /\ 1 + n \in 1 .. Len(Ahead)
    <3>1. Len(Ahead) # 0 /\ 1 + n \in 1 .. Len(Ahead)
      BY <1>1, <2>0
    <3> QED
      BY <2>0, <3>1, AheadShape DEF Moved
  <2>2. CASE n = 0
    <3>1. Ahead'[1] = Ahead[1]
      BY <2>1, <2>2
    <3>2. Handled' = IF AtStart THEN Ahead[1].m - 1 ELSE Ahead[1].m
      BY <1>5, <2>1, <3>1 DEF Handled, AtStart
    <3> QED
      BY <1>3, <2>1, <3>2, <1>2
  <2>3. CASE n # 0
    <3> DEFINE v == Ahead[1 + n]
               start == v.k = -1 /\ v.p = 1
    <3>1. Before(Ahead[1], v)
      BY <1>3, <2>1, <2>3, Increasing
    <3>2. v.m \in Nat \ {0}
      <4>1. v \in Sent
        BY <2>1, AheadShape
      <4> QED
        BY <1>2, <4>1 DEF Sent
    <3>3. Handled' = IF start THEN v.m - 1 ELSE v.m
      BY <1>5, <2>1 DEF Handled, AtStart
    <3> HIDE DEF v, start
    <3>4. Ahead[1].m <= v.m /\ (start => Ahead[1].m < v.m)
      BY <1>2, <1>3, <2>1, <3>1, <3>2 DEF Before, start
    <3> QED
      BY <1>2, <1>3, <2>1, <3>2, <3>3, <3>4
  <2> QED
    BY <2>2, <2>3
<1> QED
  BY <1>4, <1>5

\* What is good after a step was so before it.
LEMMA GoodBefore ==
    ASSUME Line, server \in {"s7", "modbus"}, NEW n \in Nat, Moved(n), clean' => clean, Good'
    PROVE  Good
<1>1. ~closed' /\ ~closed /\ clean
  BY DEF Good, Moved
<1>2. Handled \in Nat /\ Handled' \in Nat /\ Handled <= Handled'
  BY <1>1, HandledGrows
<1>3. \A m : Proper(m)' <=> Proper(m)
  BY DEF Moved, Proper, Valid, Total, Data, Size
<1>4. ASSUME NEW m \in 1 .. Handled PROVE Proper(m)
  <2>1. m \in 1 .. Handled'
    BY <1>2
  <2>2. Proper(m)'
    BY <2>1 DEF Good
  <2> QED
    BY <1>3, <2>2
<1> QED
  BY <1>1, <1>4 DEF Good

LEMMA ServedKept ==
    ASSUME UNCHANGED <<server, script, performed, replies>>, NEW n
    PROVE  Served(n)' <=> Served(n)
  BY DEF Served, Ids

LEMMA ComesKept ==
    ASSUME Line, Moved(0), ~closed', NEW u, Comes(u)
    PROVE  Comes(u)'
<1>1. IF Ahead' # <<>> THEN Ahead'[1] = u ELSE closed' \/ u = End
  BY ComesStill
<1>2. End' = End
  BY SameScript DEF Moved
<1> QED
  BY <1>1, <1>2 DEF Comes

LEMMA BetweenKept ==
    ASSUME Line, Moved(0), ~closed', UNCHANGED <<performed, replies>>, Between
    PROVE  Between'
<1>1. PICK a \in 1 .. Len(script) + 1 : Begins(a)
  BY DEF Between
<1>2. script' = script /\ server' = server
  BY DEF Moved
<1>3. Served(a - 1)'
  BY <1>1, <1>2, ServedKept DEF Begins
<1>4. Comes(At(a, 1, -1))'
  <2> DEFINE u == At(a, 1, -1)
  <2>1. Comes(u) /\ u' = u
    BY <1>1 DEF Begins, At
  <2> HIDE DEF u
  <2>2. Comes(u)'
    BY <2>1, ComesKept
  <2> QED
    BY <2>2 DEF u
<1> QED
  BY <1>1, <1>2, <1>3, <1>4 DEF Between, Begins

LEMMA SumsExist ==
    ASSUME Line, server = "s7", NEW a \in DOMAIN script
    PROVE  \E S : S \in Sums(a)
<1> DEFINE n == Len(script[a])
           part(p) == [k \in 1 .. Size(a, p) |-> At(a, p, k)]
           seqs == [p \in DOMAIN script[a] |-> part(p)]
<1>0. /\ a \in Nat /\ n \in Nat \ {0} /\ DOMAIN script[a] = 1 .. n
      /\ \A p \in 1 .. n : Size(a, p) \in Nat
  <2>1. a \in 1 .. Len(script)
    BY ScriptShape DEF Line, ScriptOK
  <2> QED
    BY <2>1, ScriptShape DEF Line, ScriptOK
<1>1. ASSUME NEW p \in 1 .. n
      PROVE  part(p) \in Seq(Unit) /\ Len(part(p)) = Size(a, p)
  <2>1. part(p) \in [1 .. Size(a, p) -> Unit] /\ Size(a, p) \in Nat
    BY <1>0 DEF At, Unit
  <2>2. part(p) \in Seq(Unit) /\ DOMAIN part(p) = 1 .. Size(a, p)
    BY <2>1, SeqDef
  <2> QED
    BY <2>1, <2>2, LenProperties
<1> HIDE DEF part
<1>2. seqs \in Seq(Seq(Unit)) /\ Len(seqs) = n /\ \A p \in 1 .. n : seqs[p] = part(p)
  <2>1. seqs \in [1 .. n -> Seq(Unit)]
    BY <1>0, <1>1
  <2>2. seqs \in Seq(Seq(Unit)) /\ DOMAIN seqs = 1 .. n
    BY <1>0, <2>1, SeqDef
  <2> QED
    BY <1>0, <2>2, LenProperties
<1>3. Data(a) = FlattenSeq(seqs)
  BY DEF Data, part, At
<1> HIDE DEF seqs
<1>4. PICK F : /\ Flattening(F, seqs) /\ FlattenSeq(seqs) = F[Len(seqs)]
               /\ \A i \in 0 .. Len(seqs) : F[i] \in Seq(Unit)
               /\ \A i \in 1 .. Len(seqs) : Len(F[i]) = Len(F[i - 1]) + Len(seqs[i])
  BY <1>2, FlattenLengths
<1> DEFINE S == [i \in 0 .. n |-> Len(F[i])]
<1>5. S \in [0 .. n -> Nat]
  BY <1>2, <1>4, LenProperties
<1>6. S[0] = 0
  <2>1. F[0] = <<>> /\ 0 \in 0 .. n
    BY <1>0, <1>4 DEF Flattening
  <2> QED
    BY <2>1
<1>7. ASSUME NEW p \in 1 .. n PROVE S[p] = S[p - 1] + Size(a, p)
  <2>1. p \in 0 .. n /\ p - 1 \in 0 .. n
    BY <1>0
  <2> QED
    BY <1>1, <1>2, <1>4, <2>1
<1>8. S[n] = Total(a)
  BY <1>0, <1>2, <1>3, <1>4 DEF Total
<1> HIDE DEF S
<1>9. S \in Sums(a)
  BY <1>5, <1>6, <1>7, <1>8 DEF Sums
<1> QED
  BY <1>9

\* The sums grow up to the size of the message.
LEMMA SumsGrow ==
    ASSUME Line, server = "s7", NEW a \in DOMAIN script, NEW S \in Sums(a), NEW p \in 1 .. Len(script[a])
    PROVE  /\ S[p] \in Nat /\ S[p - 1] \in Nat /\ S[p] = S[p - 1] + Size(a, p) /\ S[p] <= Total(a)
           /\ S[0] = 0 /\ Size(a, 1) <= S[p] /\ Total(a) \in Nat /\ Size(a, p) \in Nat
           /\ p > 1 => Size(a, 1) <= S[p - 1]
           /\ S[Len(script[a])] = Total(a)
           /\ Size(a, Len(script[a])) > 0 => S[p - 1] < Total(a)
<1> DEFINE n == Len(script[a])
           P == {j \in 0 .. n : \A i \in 0 .. j : S[i] <= S[j]}
<1>0. /\ n \in Nat \ {0} /\ \A q \in 1 .. n : Size(a, q) \in Nat
  <2>1. a \in 1 .. Len(script)
    BY ScriptShape DEF Line, ScriptOK
  <2> QED
    BY <2>1, ScriptShape DEF Line, ScriptOK
<1>1. /\ S \in [0 .. n -> Nat] /\ S[0] = 0 /\ S[n] = Total(a)
      /\ \A q \in 1 .. n : S[q] = S[q - 1] + Size(a, q)
  BY DEF Sums
<1> HIDE DEF n
<1>2. P \in SUBSET (0 .. n) /\ 0 \in P
  <2>1. 0 \in 0 .. n /\ \A i \in 0 .. 0 : i = 0
    BY <1>0
  <2> QED
    BY <1>1, <2>1
<1>3. ASSUME NEW j \in 0 .. n - 1, j \in P PROVE j + 1 \in P
  <2>1. j + 1 \in 0 .. n /\ j \in 0 .. n /\ j + 1 \in 1 .. n /\ (j + 1) - 1 = j
    BY <1>0
  <2>2. S[j + 1] = S[j] + Size(a, j + 1) /\ Size(a, j + 1) \in Nat /\ S[j] \in Nat
    BY <1>0, <1>1, <2>1
  <2>3. ASSUME NEW i \in 0 .. j + 1 PROVE S[i] <= S[j + 1]
    <3>1. CASE i = j + 1
      BY <2>2, <3>1
    <3>2. CASE i # j + 1
      <4>1. i \in 0 .. j /\ i \in 0 .. n
        BY <1>0, <2>1, <3>2
      <4>2. S[i] <= S[j] /\ S[i] \in Nat
        BY <1>1, <1>3, <4>1
      <4> QED
        BY <2>2, <4>2
    <3> QED
      BY <3>1, <3>2
  <2> QED
    BY <2>1, <2>3
<1> HIDE DEF P
<1>4. P = 0 .. n
  BY <1>0, <1>2, <1>3, UpTo
<1>5. ASSUME NEW j \in 0 .. n, NEW i \in 0 .. j PROVE S[i] <= S[j]
  BY <1>4, <1>5 DEF P
<1>6. /\ p \in 1 .. n /\ p \in 0 .. n /\ p - 1 \in 0 .. n /\ n \in 0 .. n /\ n \in 1 .. n /\ n - 1 \in 0 .. n
      /\ 1 \in 1 .. n /\ 1 - 1 = 0 /\ 1 \in 0 .. p /\ p \in 0 .. n /\ p - 1 \in 0 .. n - 1 /\ p \in 0 .. n
      /\ p > 1 => 1 \in 0 .. p - 1
  BY <1>0 DEF n
<1>7. S[p] \in Nat /\ S[p - 1] \in Nat /\ S[p] = S[p - 1] + Size(a, p) /\ Size(a, p) \in Nat
  BY <1>0, <1>1, <1>6
<1>8. S[1] = Size(a, 1)
  <2>1. S[1] = 0 + Size(a, 1) /\ Size(a, 1) \in Nat
    BY <1>0, <1>1, <1>6
  <2> QED
    BY <2>1
<1>9. S[p] <= Total(a) /\ Total(a) \in Nat
  BY <1>1, <1>5, <1>6
<1>10. Size(a, 1) <= S[p] /\ (p > 1 => Size(a, 1) <= S[p - 1])
  BY <1>5, <1>6, <1>8
<1>11. ASSUME Size(a, n) > 0 PROVE S[p - 1] < Total(a)
  <2>1. S[n] = S[n - 1] + Size(a, n) /\ S[n - 1] \in Nat /\ Size(a, n) \in Nat
    BY <1>0, <1>1, <1>6
  <2>2. S[p - 1] <= S[n - 1]
    BY <1>5, <1>6
  <2> QED
    BY <1>1, <1>7, <1>11, <2>1, <2>2
<1> QED
  BY <1>1, <1>7, <1>9, <1>10, <1>11 DEF n

\* The places of a worker that waits, while only bytes arrive.
LEMMA WithinKept ==
    ASSUME UNCHANGED <<server, script, performed, replies, Payload, Offset, NumParts>>, NEW a, NEW S
    PROVE  /\ Within(a, S) => Within(a, S)'
           /\ Sums(a)' = Sums(a) /\ Total(a)' = Total(a) /\ Size(a, 1)' = Size(a, 1)
           /\ \A got : Collected(a, got) => (Payload'[0] = Payload[0] /\ Collected(a, got))
<1>1. Total(a)' = Total(a) /\ \A p : Size(a, p)' = Size(a, p)
  BY DEF Total, Data, Size
<1>2. Sums(a)' = Sums(a)
  BY <1>1 DEF Sums
<1>3. Served(a - 1)' <=> Served(a - 1)
  BY ServedKept
<1> QED
  BY <1>1, <1>2, <1>3 DEF Within, Collected, At

\* NextHandled as one formula, which holds after a step too.
BehindHeader ==
    \A m \in DOMAIN script : \A p \in DOMAIN script[m] : \A k \in 0 .. Size(m, p) :
        Line /\ server \in {"s7", "modbus"} /\ ~closed /\ Comes(NextUnit(At(m, p, k))) =>
            Handled = m /\ m \in Nat \ {0}

LEMMA BehindHeaderNow == BehindHeader
  BY NextHandled DEF BehindHeader

LEMMA BehindHeaderThen == BehindHeader'
  BY BehindHeaderNow, PTL

\* When a packet has been read up to a unit behind its header, the next one comes.
LEMMA ReadOn ==
    ASSUME Line, server \in {"s7", "modbus"}, NEW n \in Nat \ {0}, n <= Len(Ahead), Moved(n), ~closed',
           NEW m \in DOMAIN script, NEW p \in DOMAIN script[m], NEW k \in 0 .. Size(m, p),
           Ahead[n] = At(m, p, k)
    PROVE  /\ Comes(NextUnit(At(m, p, k)))' /\ Handled' = m /\ m \in Nat \ {0}
           /\ \A u : u = NextUnit(At(m, p, k)) => Comes(u)'
<1> DEFINE u == NextUnit(At(m, p, k))
<1>1. IF Ahead' # <<>> THEN Ahead'[1] = u ELSE closed' \/ u = End
  BY ComesAfter
<1>2. End' = End /\ u' = u /\ Size(m, p)' = Size(m, p) /\ script' = script /\ server' = server
  BY SameScript DEF Moved, Size, At, NextUnit
<1> HIDE DEF u
<1>3. Comes(u)'
  BY <1>1, <1>2 DEF Comes
<1>4. Line'
  BY MovedLine
<1>5. Comes(NextUnit(At(m, p, k)))'
  BY <1>3 DEF u
<1>6. Handled' = m /\ m \in Nat \ {0}
  BY <1>2, <1>4, <1>5, BehindHeaderThen DEF BehindHeader
<1> QED
  BY <1>1, <1>2, <1>5, <1>6 DEF Comes, u

\* What a message that NothingLost speaks of is made of.
LEMMA ValidShape ==
    ASSUME Line, server = "s7", NEW a \in DOMAIN script, Valid(a)
    PROVE  /\ Len(script[a]) \in Nat \ {0} /\ DOMAIN script[a] = 1 .. Len(script[a])
           /\ a \in Nat \ {0} /\ Total(a) \in Nat /\ IsoPayload_Size \in Nat \ {0}
           /\ \A p \in 1 .. Len(script[a]) :
                 /\ script[a][p].ok /\ script[a][p].len \in 0 .. IsoPayload_Size
                 /\ Size(a, p) = script[a][p].len
           /\ \/ Len(script[a]) = 1 /\ script[a][1].type = "CR"
              \/ /\ Len(script[a]) <= IsoMaxFragments /\ Total(a) <= IsoPayload_Size
                 /\ Len(script[a]) > 1 => Size(a, Len(script[a])) > 0
                 /\ \A p \in 1 .. Len(script[a]) :
                       script[a][p].type = "DT" /\ script[a][p].eot = (p = Len(script[a]))
<1> DEFINE last == Len(script[a])
<1>1. /\ a \in 1 .. Len(script) /\ Len(script) \in Nat /\ last \in Nat \ {0}
      /\ DOMAIN script[a] = 1 .. last
  BY ScriptShape DEF Line, ScriptOK
<1>2. Total(a) \in Nat /\ IsoPayload_Size \in Nat \ {0}
  BY DataShape, ScriptsAssumption
<1>3. ASSUME NEW p \in 1 .. last
      PROVE  /\ script[a][p].ok /\ script[a][p].len \in 0 .. IsoPayload_Size
             /\ Size(a, p) = script[a][p].len
  <2>1. script[a][p].ok /\ script \in IsoScripts
    BY <1>1 DEF Valid, Line
  <2>2. script[a][p].len \in 0 .. IsoPayload_Size
    BY <1>1, <2>1, ScriptsAssumption
  <2> QED
    BY <1>2, <2>1, <2>2 DEF Size
<1>4. last \in 1 .. last /\ 1 \in 1 .. last
  BY <1>1
<1>5. \/ last = 1 /\ script[a][1].type = "CR"
      \/ /\ last <= IsoMaxFragments /\ Total(a) <= IsoPayload_Size
         /\ last > 1 => Size(a, last) > 0
         /\ \A p \in 1 .. last : script[a][p].type = "DT" /\ script[a][p].eot = (p = last)
  <2> HIDE DEF last
  <2> QED
    BY <1>1, <1>3, <1>4 DEF Valid, last
<1>6. a \in Nat \ {0}
  BY <1>1
<1> QED
  BY ONLY <1>1, <1>2, <1>3, <1>5, <1>6

\* A message whose packets fill the place they have is at its end.
LEMMA RoomLeft ==
    ASSUME Line, server = "s7", NEW a \in DOMAIN script, Valid(a), NEW S, S \in Sums(a), Within(a, S)
    PROVE  /\ Offset \in Nat /\ S[NumParts] = Offset + Size(a, NumParts) /\ S[NumParts] \in Nat
           /\ Offset < IsoPayload_Size
           /\ Offset + Size(a, NumParts) <= IsoPayload_Size
<1>1. NumParts \in 1 .. Len(script[a]) /\ Offset = S[NumParts - 1]
  BY DEF Within
<1>2. /\ S[NumParts] \in Nat /\ S[NumParts - 1] \in Nat /\ Size(a, NumParts) \in Nat
      /\ S[NumParts] = S[NumParts - 1] + Size(a, NumParts) /\ S[NumParts] <= Total(a) /\ S[0] = 0
      /\ Size(a, Len(script[a])) > 0 => S[NumParts - 1] < Total(a)
  BY <1>1, SumsGrow
<1>3. /\ Total(a) \in Nat /\ IsoPayload_Size \in Nat \ {0} /\ Len(script[a]) \in Nat \ {0}
      /\ Size(a, NumParts) <= IsoPayload_Size
      /\ \/ Len(script[a]) = 1
         \/ Total(a) <= IsoPayload_Size /\ (Len(script[a]) > 1 => Size(a, Len(script[a])) > 0)
  BY <1>1, ValidShape
<1> DEFINE last == Len(script[a])
           tot == Total(a)
<1>a. last \in Nat \ {0} /\ (last = 1 \/ (tot <= IsoPayload_Size /\ (last > 1 => Size(a, last) > 0)))
  BY <1>3
<1> HIDE DEF last, tot
<1>4. CASE last = 1
  <2>1. NumParts - 1 = 0
    BY <1>1, <1>4 DEF last
  <2>2. Offset = 0
    BY <1>1, <1>2, <2>1
  <2> QED
    BY <1>1, <1>2, <1>3, <2>2
<1>5. CASE last # 1
  <2>1. tot <= IsoPayload_Size /\ Size(a, last) > 0
    <3>1. last > 1
      BY <1>a, <1>5
    <3> QED
      BY <1>a, <1>5, <3>1
  <2>2. S[NumParts - 1] < tot /\ S[NumParts] <= tot
    BY <1>2, <2>1 DEF last, tot
  <2>3. tot \in Nat
    BY <1>3 DEF tot
  <2> QED
    BY <1>1, <1>2, <1>3, <2>1, <2>2, <2>3
<1> QED
  BY <1>4, <1>5

\* While nothing is read the worker stays where it is.
LEMMA PlacesKept ==
    ASSUME Line, Moved(0), ~closed',
           UNCHANGED <<performed, replies, header, Payload, Offset, NumParts>>
    PROVE  /\ Between => Between'
           /\ AtHeader => AtHeader'
           /\ AtData => AtData'
           /\ AtReceived => AtReceived'
           /\ AtPeek => AtPeek'
<1>0. script' = script /\ server' = server
  BY DEF Moved
<1>1. \A u : Comes(u) /\ u' = u => Comes(u)'
  <2>1. \A u : Comes(u) => IF Ahead' # <<>> THEN Ahead'[1] = u ELSE closed' \/ u = End
    BY ComesStill
  <2>2. End' = End
    BY <1>0, SameScript
  <2> QED
    BY <2>1, <2>2 DEF Comes
<1>2. \A m, p, k : Comes(At(m, p, k)) => Comes(At(m, p, k))'
  <2> TAKE m, p, k
  <2> DEFINE u == At(m, p, k)
  <2>1. u' = u
    BY DEF At
  <2> HIDE DEF u
  <2>2. Comes(u) => Comes(u)'
    BY <1>1, <2>1
  <2> QED
    BY <2>2 DEF u
<1>3. ASSUME NEW a, NEW S
      PROVE  /\ Within(a, S) => Within(a, S)'
             /\ Sums(a)' = Sums(a) /\ Total(a)' = Total(a) /\ Size(a, 1)' = Size(a, 1)
             /\ \A got : Collected(a, got) => (Payload'[0] = Payload[0] /\ Collected(a, got))
  BY <1>0, WithinKept
<1>4. \A a : Served(a - 1) => Served(a - 1)'
  BY <1>0, ServedKept
<1>5. Between => Between'
  BY BetweenKept
<1>6. AtHeader => AtHeader'
  <2>1. ASSUME NumParts > 1, NEW a \in DOMAIN script, NEW S \in Sums(a),
               Within(a, S), Comes(At(a, NumParts, -1))
        PROVE  AtHeader'
    <3>1. a \in DOMAIN script' /\ S \in Sums(a)' /\ Within(a, S)' /\ NumParts' > 1
      BY <1>0, <1>3, <2>1
    <3>2. Comes(At(a, NumParts, -1))'
      BY <1>1, <2>1 DEF At
    <3> QED
      BY <3>1, <3>2 DEF AtHeader
  <2> QED
    BY <1>5, <2>1 DEF AtHeader
<1>7. AtData => AtData'
  <2> SUFFICES ASSUME AtData PROVE AtData'
    OBVIOUS
  <2>1. PICK a \in DOMAIN script : \E S \in Sums(a) :
            Within(a, S) /\ header = script[a][NumParts] /\ Comes(At(a, NumParts, 1))
    BY DEF AtData
  <2>2. PICK S \in Sums(a) :
            Within(a, S) /\ header = script[a][NumParts] /\ Comes(At(a, NumParts, 1))
    BY <2>1
  <2>3. a \in DOMAIN script' /\ S \in Sums(a)' /\ Within(a, S)' /\ header' = script'[a][NumParts']
    BY <1>0, <1>3, <2>2
  <2>4. Comes(At(a, NumParts, 1))'
    BY <1>1, <2>2 DEF At
  <2> QED
    BY <2>3, <2>4 DEF AtData
<1>8. AtReceived => AtReceived'
  <2> SUFFICES ASSUME AtReceived PROVE AtReceived'
    OBVIOUS
  <2>1. PICK a \in DOMAIN script : \E S \in Sums(a) :
            /\ Within(a, S) /\ header = script[a][NumParts]
            /\ Comes(NextUnit(At(a, NumParts, Size(a, NumParts))))
            /\ Collected(a, S[NumParts])
    BY DEF AtReceived
  <2>2. PICK S \in Sums(a) :
            /\ Within(a, S) /\ header = script[a][NumParts]
            /\ Comes(NextUnit(At(a, NumParts, Size(a, NumParts))))
            /\ Collected(a, S[NumParts])
    BY <2>1
  <2>3. a \in DOMAIN script' /\ S \in Sums(a)' /\ Within(a, S)' /\ header' = script'[a][NumParts']
    BY <1>0, <1>3, <2>2
  <2>4. Comes(NextUnit(At(a, NumParts, Size(a, NumParts))))'
    <3> DEFINE u == NextUnit(At(a, NumParts, Size(a, NumParts)))
    <3>1. u' = u
      BY <1>0 DEF At, Size, NextUnit
    <3> HIDE DEF u
    <3>2. Comes(u)
      BY <2>2 DEF u
    <3>3. Comes(u)'
      BY <1>1, <3>1, <3>2
    <3> QED
      BY <3>3 DEF u
  <2>5. Collected(a, S[NumParts])'
    BY <1>3, <2>2 DEF Collected, At
  <2> QED
    BY <2>3, <2>4, <2>5 DEF AtReceived
<1>9. AtPeek => AtPeek'
  <2> SUFFICES ASSUME AtPeek PROVE AtPeek'
    OBVIOUS
  <2>1. PICK a \in DOMAIN script :
            /\ Served(a - 1) /\ Comes(At(a + 1, 1, -1)) /\ header.ok
            /\ \/ header.type = "CR" /\ script[a][1].type = "CR"
               \/ header.type = "DT" /\ header.len = Total(a) /\ Collected(a, Total(a))
    BY DEF AtPeek
  <2>2. Served(a - 1)' /\ Comes(At(a + 1, 1, -1))' /\ a \in DOMAIN script' /\ header'.ok
    BY <1>0, <1>2, <1>4, <2>1
  <2>3. header.type = "DT" /\ header.len = Total(a) /\ Collected(a, Total(a)) =>
            (header.type = "DT" /\ header.len = Total(a) /\ Collected(a, Total(a)))'
    <3>1. Total(a)' = Total(a) /\ Size(a, 1)' = Size(a, 1)
      BY <1>3
    <3> QED
      BY <3>1 DEF Collected, At
  <2> QED
    BY <1>0, <2>1, <2>2, <2>3 DEF AtPeek
<1> QED
  BY <1>5, <1>6, <1>7, <1>8, <1>9

\* Where nothing is read, nothing but the place can change.
LEMMA StillLost ==
    ASSUME LostInv, server = "s7", OrderInv', Moved(0), clean' => clean, NumParts' \in Nat \ {0},
           UNCHANGED <<performed, replies, header, Payload, Offset, pData, NumParts, after, pc>>
    PROVE  LostInv'
<1>0. Line /\ Offsets /\ (Good => IsoPlaces) /\ server' = "s7"
  BY DEF LostInv, OrderInv, Moved
<1>1. Offsets'
  BY <1>0 DEF Offsets, Receiving
<1>2. ASSUME Good' PROVE IsoPlaces'
  <2>1. Good /\ ~closed'
    BY <1>0, <1>2, GoodBefore DEF Good
  <2>2. IsoPlaces
    BY <1>0, <2>1
  <2> QED
    BY <1>0, <2>1, <2>2, PlacesKept DEF IsoPlaces
<1> QED
  BY <1>0, <1>1, <1>2 DEF LostInv

LEMMA OffsetsStep ==
    ASSUME Offsets, IsoType, IsoStep
    PROVE  Offsets'
<1>0. Offset \in Nat /\ pData \in Nat /\ NumParts \in Nat \ {0}
  BY DEF IsoType, Offsets
<1> USE DEF iso
<1>1. CASE ExecuteRecv
  BY <1>1 DEF ExecuteRecv, Jump, Offsets
<1>2. CASE NextFragment
  <2>1. /\ pc = "fragment" /\ pData' = pData + Offset /\ UNCHANGED <<Offset, NumParts>>
        /\ pc' \in {"header", "reset", "purge"}
    BY <1>2 DEF NextFragment, WaitForData, Jump
  <2> QED
    BY <1>0, <2>1 DEF Offsets, Receiving
<1>3. CASE FragmentReceived
  <2>1. CASE Complete
    <3>1. UNCHANGED NumParts /\ pc' = "peek"
      BY <1>3, <2>1 DEF FragmentReceived, Jump
    <3> QED
      BY <1>0, <3>1 DEF Offsets, Receiving
  <2>2. CASE ~Complete
    <3>1. /\ pc = "received" /\ pc' \in {"purge", "fragment"} /\ UNCHANGED pData
          /\ NumParts' = NumParts + 1 /\ Offset' = Offset + header.len
      BY <1>3, <2>2 DEF FragmentReceived, Jump
    <3>2. header.len \in Nat
      BY <3>1 DEF IsoType, Headers7
    <3>3. NumParts' \in Nat \ {0} /\ NumParts' # 1 /\ (Offset' = 0 => Offset = 0)
      BY <1>0, <3>1, <3>2
    <3> QED
      BY <3>1, <3>3 DEF Offsets, Receiving
  <2> QED
    BY <2>1, <2>2
<1>4. CASE isoRecvHeader
  <2>1. /\ pc = "header" /\ UNCHANGED <<Offset, pData, NumParts>>
        /\ pc' \in {"wait", "purge", "received"}
    BY <1>4 DEF isoRecvHeader, RecvPacket, AfterHeader
  <2> QED
    BY <2>1 DEF Offsets, Receiving
<1>5. CASE isoWaitData \/ isoRecvData
  <2>1. /\ pc \in {"wait", "data"} /\ UNCHANGED <<Offset, pData, NumParts>>
        /\ pc' \in {"data", "reset", "received"}
    BY <1>5 DEF isoWaitData, WaitForData, isoRecvData, RecvPacket
  <2> QED
    BY <2>1 DEF Offsets, Receiving
<1>6. CASE isoTimeout \/ InvalidPDU \/ Control \/ Report \/ IsoPerformCommand
  <2>1. /\ UNCHANGED <<Offset, pData, NumParts>> /\ pc' \in {"purge", "idle", "reset"}
    BY <1>6 DEF isoTimeout, RecvTimeout, InvalidPDU, Control, IsoConfirmConnection, Report,
                IsoPerformCommand, SendPacket, Jump
  <2> QED
    BY <2>1 DEF Offsets, Receiving
<1>7. CASE PurgeStep \/ (DestroySocket /\ UNCHANGED iso)
  <2>1. /\ UNCHANGED <<Offset, pData, NumParts>>
        /\ pc' \in {"purge", "drain", "peek", "idle", "last drain", "ended"}
    <3>1. AfterPurge \in {"purge", "peek", "idle"}
      BY DEF AfterPurge, IsoType
    <3> QED
      BY <1>7, <3>1 DEF PurgeStep, DestroySocket, Purge, Drain
  <2> QED
    BY <2>1 DEF Offsets, Receiving
<1> QED
  BY <1>1, <1>2, <1>3, <1>4, <1>5, <1>6, <1>7 DEF IsoStep

\* The worker waits for data, or for the next packet.
LEMMA WaitingLost ==
    ASSUME LostInv, server = "s7", UNCHANGED <<server, modbus>>, Good',
           ExecuteRecv \/ NextFragment \/ isoWaitData
    PROVE  IsoPlaces'
<1>1. /\ Line /\ IsoType /\ Offsets /\ (Good => IsoPlaces)
      /\ UNCHANGED <<server, script, wire, stream, closed, clean, header, Payload, performed, replies>>
  BY DEF LostInv, OrderInv, ExecuteRecv, NextFragment, isoWaitData, WaitForData, Jump, iso, modbus
<1>2. Moved(0)
  BY <1>1, StandsStill
<1>3. ~closed' /\ Good /\ IsoPlaces
  <2>1. Good
    BY <1>1, <1>2, GoodBefore
  <2> QED
    BY <1>1, <2>1 DEF Good
<1>4. CASE ExecuteRecv
  <2>1. pc = "idle" /\ NumParts' = 1 /\ pc' = "fragment"
    BY <1>4 DEF ExecuteRecv, Jump
  <2>2. Between'
    BY <1>1, <1>2, <1>3, <2>1, BetweenKept DEF IsoPlaces
  <2> QED
    BY <2>1, <2>2 DEF IsoPlaces, AtHeader
<1>5. CASE NextFragment
  <2>1. pc = "fragment" /\ UNCHANGED <<Offset, NumParts>> /\ AtHeader
    BY <1>3, <1>5 DEF NextFragment, IsoPlaces
  <2>2. Offset < IsoPayload_Size
    <3>1. CASE NumParts = 1
      BY <1>1, <2>1, <3>1, ScriptsAssumption DEF Offsets, Receiving
    <3>2. CASE NumParts # 1
      <4>1. PICK a \in DOMAIN script : \E S \in Sums(a) : Within(a, S) /\ Comes(At(a, NumParts, -1))
        BY <2>1, <3>2 DEF AtHeader
      <4>2. PICK S \in Sums(a) : Within(a, S) /\ Comes(At(a, NumParts, -1))
        BY <4>1
      <4>3. a \in Nat \ {0}
        <5>1. a \in 1 .. Len(script) /\ Len(script) \in Nat
          BY <1>1, ScriptShape DEF Line, ScriptOK
        <5> QED
          BY <5>1
      <4>4. Handled = a
        BY <1>1, <1>3, <3>2, <4>2, <4>3, HandledAt DEF Good
      <4>5. Valid(a)
        <5>1. a \in 1 .. Handled
          BY <4>3, <4>4
        <5> QED
          BY <1>3, <5>1 DEF Good, Proper
      <4> QED
        BY <1>1, <4>2, <4>5, RoomLeft
    <3> QED
      BY <3>1, <3>2
  <2>3. pc' = "header"
    BY <1>3, <1>5, <1>1, <2>2 DEF NextFragment, WaitForData, Eof
  <2>4. AtHeader'
    BY <1>1, <1>2, <1>3, <2>1, PlacesKept
  <2> QED
    BY <2>3, <2>4 DEF IsoPlaces
<1>6. CASE isoWaitData
  <2>1. pc = "wait" /\ UNCHANGED <<Offset, NumParts>> /\ AtData
    BY <1>3, <1>6 DEF isoWaitData, IsoPlaces, iso
  <2>2. pc' = "data"
    BY <1>1, <1>3, <1>6 DEF isoWaitData, WaitForData, Eof
  <2>3. AtData'
    BY <1>1, <1>2, <1>3, <2>1, PlacesKept
  <2> QED
    BY <2>2, <2>3 DEF IsoPlaces
<1> QED
  BY <1>4, <1>5, <1>6

\* A header is read: the message whose packet it is has been begun, and is one
\* that isoRecvPDU has room for.
LEMMA HeaderLost ==
    ASSUME LostInv, server = "s7", UNCHANGED <<server, modbus>>, Good', isoRecvHeader
    PROVE  IsoPlaces'
<1> DEFINE q == NumParts
<1>a. PICK h \in HeadersOf(SubSeq(stream, 1, HeaderSize)) : HeaderGoes(h)
  BY HeaderIs
<1>1. /\ Line /\ IsoType /\ Offsets /\ (Good => IsoPlaces)
      /\ pc = "header" /\ Len(stream) >= 2 /\ stream' = SubSeq(stream, 2 + 1, Len(stream)) /\ header' = h
      /\ UNCHANGED <<server, script, wire, closed, clean, Payload, Offset, NumParts, performed, replies>>
      /\ pc' = IF AfterHeader(h) = "data" THEN "wait"
               ELSE IF AfterHeader(h) = "refuse" THEN "purge" ELSE AfterHeader(h)
  BY <1>a DEF LostInv, OrderInv, HeaderGoes, modbus
<1>2. /\ Moved(2) /\ 2 \in Nat \ {0} /\ 2 <= Len(Ahead) /\ Ahead # <<>>
      /\ Ahead[1] = stream[1] /\ Ahead[2] = stream[2]
  <2>1. Len(stream) \in Nat /\ Len(Ahead) \in Nat /\ Len(stream) <= Len(Ahead)
    BY <1>1, AheadShape
  <2>2. 1 \in 1 .. Len(stream) /\ 2 \in 1 .. Len(stream) /\ 2 <= Len(Ahead)
    BY <1>1, <2>1
  <2>3. Ahead # <<>>
    BY <1>1, <2>2, AheadShape
  <2> QED
    BY <1>1, <2>2, <2>3, AheadShape, ReadMoves
<1>3. ~closed' /\ AtHeader
  <2>1. Good
    BY <1>1, <1>2, GoodBefore
  <2> QED
    BY <1>1, <2>1 DEF Good, IsoPlaces
<1>4. PICK a \in DOMAIN script : \E S \in Sums(a) : Within(a, S) /\ Comes(At(a, NumParts, -1))
  <2>1. CASE NumParts > 1
    BY <1>3, <2>1 DEF AtHeader
  <2>2. CASE ~ (NumParts > 1)
    <3>1. NumParts = 1 /\ Between
      BY <1>3, <2>2 DEF AtHeader
    <3>2. PICK a \in 1 .. Len(script) + 1 : Begins(a)
      BY <3>1 DEF Between
    <3>3. Ahead[1] = At(a, 1, -1)
      BY <1>2, <3>2 DEF Begins, Comes
    <3>4. a \in DOMAIN script
      <4>1. Ahead[1] \in Sent
        <5>1. 1 \in 1 .. Len(Ahead)
          BY <1>1, <1>2, AheadShape
        <5> QED
          BY <1>1, <5>1, AheadShape
      <4> QED
        BY <3>3, <4>1 DEF Sent, At
    <3>5. PICK S : S \in Sums(a)
      BY <1>1, <3>4, SumsExist
    <3>6. S[0] = 0 /\ Len(script[a]) \in Nat \ {0}
      BY <1>1, <3>4, <3>5, DataShape DEF Sums
    <3>7. Within(a, S)
      <4>1. Offset = 0 /\ NumParts - 1 = 0 /\ NumParts \in 1 .. Len(script[a])
        BY <1>1, <3>1, <3>6 DEF Offsets, Receiving
      <4> QED
        BY <3>2, <3>5, <3>6, <4>1 DEF Within, Begins, Collected
    <3> QED
      BY <3>1, <3>2, <3>4, <3>5, <3>7 DEF Begins
  <2> QED
    BY <2>1, <2>2
<1>5. PICK S \in Sums(a) : Within(a, S) /\ Comes(At(a, q, -1))
  BY <1>4
<1>6. q \in 1 .. Len(script[a]) /\ q \in DOMAIN script[a] /\ stream[1] = At(a, q, -1)
  <2>1. q \in 1 .. Len(script[a]) /\ stream[1] = At(a, q, -1)
    BY <1>2, <1>5 DEF Within, Comes
  <2>2. a \in 1 .. Len(script)
    BY <1>1, ScriptShape DEF Line, ScriptOK
  <2> QED
    BY <1>1, <2>1, <2>2, ScriptShape DEF Line, ScriptOK
<1>7. h = script[a][q] /\ Ahead[2] = At(a, q, 0) /\ h \in Headers7
  <2>1. stream[1].m = a /\ stream[1].p = q /\ stream[1].k = -1
    BY <1>6 DEF At
  <2>2. /\ h \in Headers7
        /\ \/ stream[1].k # -1
           \/ /\ h = script[stream[1].m][stream[1].p]
              /\ stream[2] = At(stream[1].m, stream[1].p, 0)
    BY <1>1, <1>a, HeaderRead
  <2> QED
    BY <1>2, <2>1, <2>2
<1> HIDE DEF q
<1>8. 0 \in 0 .. Size(a, q) /\ Size(a, q) \in Nat
  <2>1. Size(a, q) \in Nat
    BY <1>1, <1>6, DataShape
  <2> QED
    BY <2>1
<1>9. /\ Handled' = a /\ a \in Nat \ {0}
      /\ \A u : u = NextUnit(At(a, q, 0)) => Comes(u)'
  BY <1>1, <1>2, <1>3, <1>6, <1>7, <1>8, ReadOn
<1>10. Valid(a)
  <2>1. a \in 1 .. Handled'
    BY <1>9
  <2>2. Proper(a)'
    BY <2>1 DEF Good
  <2>3. Valid(a)'
    BY <1>1, <2>2 DEF Proper
  <2> QED
    BY <1>1, <2>3 DEF Valid, Total, Data, Size
<1>11. /\ h.ok /\ h.len \in 0 .. IsoPayload_Size /\ Size(a, q) = h.len /\ h.type \in {"CR", "DT"}
       /\ IsoPayload_Size \in Nat
  <2>1. h.ok /\ h.len \in 0 .. IsoPayload_Size /\ Size(a, q) = h.len /\ IsoPayload_Size \in Nat
    BY <1>1, <1>6, <1>7, <1>10, ValidShape
  <2>2. h.type \in {"CR", "DT"}
    <3>1. CASE Len(script[a]) = 1 /\ script[a][1].type = "CR"
      <4>1. q = 1
        BY <1>6, <3>1
      <4> QED
        BY <1>7, <3>1, <4>1
    <3>2. CASE \A p \in 1 .. Len(script[a]) : script[a][p].type = "DT" /\ script[a][p].eot = (p = Len(script[a]))
      BY <1>6, <1>7, <3>2
    <3> QED
      BY <1>1, <1>10, <3>1, <3>2, ValidShape
  <2> QED
    BY <2>1, <2>2
<1>12. /\ Offset \in Nat /\ Offset + Size(a, q) <= IsoPayload_Size
       /\ S[q] = Offset + Size(a, q) /\ S[q] \in Nat
  BY <1>1, <1>5, <1>10, RoomLeft DEF q
<1>13. AfterHeader(h) = IF h.len = 0 THEN "received" ELSE "data"
  <2>1. ~ (h.len > IsoPayload_Size - Offset) /\ (h.len <= 0 <=> h.len = 0)
    BY <1>11, <1>12
  <2> QED
    BY <1>11, <2>1 DEF AfterHeader, CheckPDU
<1>14. /\ S \in Sums(a)' /\ Within(a, S)' /\ a \in DOMAIN script' /\ header' = script'[a][NumParts']
       /\ \A got : Collected(a, got) => (Payload'[0] = Payload[0] /\ Collected(a, got))
       /\ Size(a, 1)' = Size(a, 1) /\ Size(a, q)' = Size(a, q) /\ q' = q /\ NumParts' = q
  <2>1. UNCHANGED <<server, script, performed, replies, Payload, Offset, NumParts>>
    BY <1>1
  <2>2. /\ Within(a, S) => Within(a, S)'
        /\ Sums(a)' = Sums(a) /\ Total(a)' = Total(a) /\ Size(a, 1)' = Size(a, 1)
        /\ \A got : Collected(a, got) => (Payload'[0] = Payload[0] /\ Collected(a, got))
    BY <2>1, WithinKept
  <2> QED
    BY <1>1, <1>5, <1>7, <2>2 DEF Size, q
<1>15. CASE h.len = 0
  <2>1. pc' = "received"
    BY <1>1, <1>13, <1>15
  <2>2. Comes(NextUnit(At(a, q, Size(a, q))))'
    <3> DEFINE u == NextUnit(At(a, q, Size(a, q)))
    <3>1. u' = u /\ Size(a, q) = 0
      BY <1>1, <1>11, <1>14, <1>15 DEF NextUnit, At, Size
    <3>2. u = NextUnit(At(a, q, 0))
      BY <3>1
    <3> HIDE DEF u
    <3>3. Comes(u)'
      BY <1>9, <3>1, <3>2
    <3> QED
      BY <3>3 DEF u
  <2>3. Collected(a, S[q])'
    <3>1. Collected(a, Offset) /\ S[q] = Offset
      BY <1>5, <1>11, <1>12, <1>15 DEF Within
    <3> QED
      BY <1>14, <3>1 DEF Collected, At
  <2>4. AtReceived'
    BY <1>14, <2>2, <2>3 DEF AtReceived
  <2> QED
    BY <2>1, <2>4 DEF IsoPlaces
<1>16. CASE h.len # 0
  <2>1. pc' = "wait"
    BY <1>1, <1>13, <1>16
  <2>2. Comes(At(a, q, 1))'
    <3> DEFINE u == At(a, q, 1)
    <3>1. u' = u /\ u = NextUnit(At(a, q, 0))
      <4>1. 0 < Size(a, q) /\ 0 + 1 = 1
        BY <1>11, <1>16
      <4> QED
        BY <1>14, <4>1 DEF NextUnit, At
    <3> HIDE DEF u
    <3>2. Comes(u)'
      BY <1>9, <3>1
    <3> QED
      BY <3>2 DEF u
  <2>3. AtData'
    BY <1>14, <2>2 DEF AtData
  <2> QED
    BY <2>1, <2>3 DEF IsoPlaces
<1> QED
  BY <1>15, <1>16

\* The data of a packet is read: of the first that has any, into the first cell.
LEMMA DataLost ==
    ASSUME LostInv, server = "s7", UNCHANGED <<server, modbus>>, Good', isoRecvData
    PROVE  IsoPlaces'
<1> DEFINE n == header.len
           q == NumParts
<1>1. /\ Line /\ IsoType /\ Offsets /\ (Good => IsoPlaces)
      /\ pc = "data" /\ pc' = "received" /\ n \in 1 .. IsoPayload_Size - Offset
      /\ Len(stream) >= n /\ stream' = SubSeq(stream, n + 1, Len(stream))
      /\ UNCHANGED <<server, script, wire, closed, clean, header, Offset, pData, NumParts, performed, replies>>
      /\ Payload' = [c \in Cells |-> IF c \in pData .. pData + n - 1
                                     THEN stream[c - pData + 1] ELSE Payload[c]]
  BY DEF LostInv, OrderInv, IsoType, isoRecvData, RecvPacket, modbus
<1>2. /\ n \in Nat \ {0} /\ Offset \in Nat /\ pData \in Nat /\ 0 \in Cells
      /\ Len(stream) \in Nat /\ Len(Ahead) \in Nat /\ n <= Len(Ahead) /\ Ahead # <<>>
      /\ 1 \in 1 .. Len(stream) /\ stream[1] = Ahead[1]
  <2>1. Len(stream) \in Nat /\ Len(Ahead) \in Nat /\ Len(stream) <= Len(Ahead)
    BY <1>1, AheadShape
  <2>2. Offset \in Nat /\ pData \in Nat /\ IsoPayload_Size \in Nat /\ 0 \in Cells
    BY <1>1, ScriptsAssumption DEF IsoType, Cells
  <2>3. n \in Nat \ {0} /\ n <= Len(Ahead) /\ 1 \in 1 .. Len(stream)
    BY <1>1, <2>1, <2>2
  <2>4. Ahead # <<>>
    BY <1>1, <2>1, <2>3, AheadShape
  <2> QED
    BY <1>1, <2>1, <2>2, <2>3, <2>4, AheadShape
<1>3. Moved(n)
  BY <1>1, <1>2, ReadMoves
<1>4. ~closed' /\ AtData
  <2>1. Good
    BY <1>1, <1>2, <1>3, GoodBefore
  <2> QED
    BY <1>1, <2>1 DEF Good, IsoPlaces
<1>5. PICK a \in DOMAIN script : \E S \in Sums(a) :
          Within(a, S) /\ header = script[a][NumParts] /\ Comes(At(a, NumParts, 1))
  BY <1>4 DEF AtData
<1>6. PICK S \in Sums(a) :
          Within(a, S) /\ header = script[a][q] /\ Comes(At(a, q, 1))
  BY <1>5
<1>7. /\ q \in 1 .. Len(script[a]) /\ q \in DOMAIN script[a] /\ Ahead[1] = At(a, q, 1)
      /\ Size(a, q) = n /\ Offset = S[q - 1] /\ Collected(a, Offset) /\ q \in Nat \ {0}
  <2>1. q \in 1 .. Len(script[a]) /\ Ahead[1] = At(a, q, 1) /\ Offset = S[q - 1] /\ Collected(a, Offset)
    BY <1>2, <1>6 DEF Within, Comes
  <2>2. a \in 1 .. Len(script) /\ q \in Nat \ {0}
    BY <1>1, ScriptShape DEF Line, ScriptOK, Offsets
  <2>3. Size(a, q) = n
    BY <1>2, <1>6 DEF Size
  <2> QED
    BY <1>1, <2>1, <2>2, <2>3, ScriptShape DEF Line, ScriptOK
<1>8. Ahead[n] = At(a, q, n)
  <2>1. Ahead[1].m = a /\ Ahead[1].p = q /\ Ahead[1].k = 1
    BY <1>7 DEF At
  <2>2. Ahead[1].k + (n - 1) <= Size(Ahead[1].m, Ahead[1].p)
    BY <1>2, <1>7, <2>1
  <2>3. n \in Nat /\ n > 0
    BY <1>2
  <2> HIDE DEF n, q
  <2>4. \A i \in 1 .. n : Ahead[i] = At(Ahead[1].m, Ahead[1].p, Ahead[1].k + (i - 1))
    BY <1>1, <1>2, <2>2, <2>3, RunOf
  <2>5. n \in 1 .. n /\ 1 + (n - 1) = n
    BY <2>3
  <2> QED
    BY <2>1, <2>4, <2>5
<1> HIDE DEF n, q
<1>9. n \in 0 .. Size(a, q)
  BY <1>2, <1>7
<1>10. \A u : u = NextUnit(At(a, q, n)) => Comes(u)'
  BY <1>1, <1>2, <1>3, <1>4, <1>7, <1>8, <1>9, ReadOn
<1>11. /\ S[q] \in Nat /\ S[q - 1] \in Nat /\ S[q] = S[q - 1] + n
       /\ q > 1 => Size(a, 1) <= S[q - 1]
  BY <1>1, <1>7, SumsGrow
<1>12. Payload'[0].m = a /\ (Size(a, 1) > 0 => Payload'[0] = At(a, 1, 1))
  <2>1. CASE Offset = 0
    <3>1. pData = 0
      BY <1>1, <2>1 DEF Offsets, Receiving
    <3>2. Payload'[0] = At(a, q, 1)
      <4>1. 0 \in pData .. pData + n - 1 /\ 0 - pData + 1 = 1
        BY <1>2, <3>1
      <4> QED
        BY <1>1, <1>2, <1>7, <4>1
    <3>3. Size(a, 1) > 0 => q = 1
      <4> DEFINE size == Size(a, 1)
      <4>1. size \in Nat
        <5>1. 1 \in 1 .. Len(script[a])
          BY <1>1, DataShape
        <5> QED
          BY <1>1, <5>1, DataShape
      <4>2. q > 1 => size <= 0
        BY <1>7, <1>11, <2>1
      <4> HIDE DEF size
      <4>3. size > 0 => q = 1
        BY <1>7, <4>1, <4>2
      <4> QED
        BY <4>3 DEF size
    <3> QED
      BY <3>2, <3>3 DEF At
  <2>2. CASE Offset # 0
    <3>1. pData > 0 /\ Offset > 0
      BY <1>1, <1>2, <2>2 DEF Offsets, Receiving
    <3>2. Payload'[0] = Payload[0]
      <4>1. ~ (0 \in pData .. pData + n - 1)
        BY <1>2, <3>1
      <4> QED
        BY <1>1, <1>2, <4>1
    <3> QED
      BY <1>7, <3>1, <3>2 DEF Collected
  <2> QED
    BY <2>1, <2>2
<1>13. Size(a, 1)' = Size(a, 1) /\ Sums(a)' = Sums(a) /\ Served(a - 1)' /\ Size(a, q)' = Size(a, q)
  <2>1. \A p : Size(a, p)' = Size(a, p)
    BY <1>1 DEF Size
  <2>2. Total(a)' = Total(a)
    BY <1>1 DEF Total, Data, Size
  <2>3. Sums(a)' = Sums(a)
    BY <1>1, <2>1, <2>2 DEF Sums
  <2>4. Served(a - 1)'
    BY <1>1, <1>6, ServedKept DEF Within
  <2>5. q' = q
    BY <1>1 DEF q
  <2> QED
    BY <2>1, <2>3, <2>4, <2>5 DEF Size
<1>14. Within(a, S)' /\ Collected(a, S[q])'
  <2>1. Collected(a, S[q])' /\ Collected(a, Offset)'
    BY <1>12, <1>13 DEF Collected, At
  <2> QED
    BY <1>1, <1>6, <1>7, <1>13, <2>1 DEF Within, q
<1>16. Comes(NextUnit(At(a, q, Size(a, q))))'
  <2> DEFINE u == NextUnit(At(a, q, Size(a, q)))
  <2>1. u' = u
    BY <1>1 DEF NextUnit, At, Size, q
  <2>2. u = NextUnit(At(a, q, n))
    BY <1>7
  <2> HIDE DEF u
  <2>3. Comes(u)'
    BY <1>10, <2>1, <2>2
  <2> QED
    BY <2>3 DEF u
<1>17. AtReceived'
  BY <1>1, <1>6, <1>13, <1>14, <1>16 DEF AtReceived, q
<1> QED
  BY <1>1, <1>17 DEF IsoPlaces

\* A packet is in: the next one of its message is to come, or it was the last.
LEMMA ReceivedLost ==
    ASSUME LostInv, server = "s7", UNCHANGED <<server, modbus>>, Good', FragmentReceived
    PROVE  IsoPlaces'
<1> DEFINE q == NumParts
<1>1. /\ Line /\ IsoType /\ Offsets /\ (Good => IsoPlaces) /\ pc = "received"
      /\ UNCHANGED <<server, script, wire, stream, closed, clean, Payload, pData, performed, replies>>
  BY DEF LostInv, OrderInv, FragmentReceived, Jump, modbus
<1>2. Moved(0)
  BY <1>1, StandsStill
<1>3. Good /\ ~closed' /\ ~closed /\ AtReceived
  <2>1. Good
    BY <1>1, <1>2, GoodBefore
  <2> QED
    BY <1>1, <2>1 DEF Good, IsoPlaces
<1>4. PICK a \in DOMAIN script : \E S \in Sums(a) :
          /\ Within(a, S) /\ header = script[a][NumParts]
          /\ Comes(NextUnit(At(a, NumParts, Size(a, NumParts))))
          /\ Collected(a, S[NumParts])
  BY <1>3 DEF AtReceived
<1>5. PICK S \in Sums(a) :
          /\ Within(a, S) /\ header = script[a][q]
          /\ Comes(NextUnit(At(a, q, Size(a, q))))
          /\ Collected(a, S[q])
  BY <1>4
<1>6. q \in 1 .. Len(script[a]) /\ q \in DOMAIN script[a] /\ q \in Nat \ {0} /\ Served(a - 1)
  <2>1. q \in 1 .. Len(script[a]) /\ Served(a - 1)
    BY <1>5 DEF Within
  <2>2. a \in 1 .. Len(script) /\ q \in Nat \ {0}
    BY <1>1, ScriptShape DEF Line, ScriptOK, Offsets
  <2> QED
    BY <1>1, <2>1, <2>2, ScriptShape DEF Line, ScriptOK
<1> HIDE DEF q
<1>7. Size(a, q) \in 0 .. Size(a, q)
  <2>1. Size(a, q) \in Nat
    BY <1>1, <1>6, DataShape
  <2> QED
    BY <2>1
<1>8. Handled = a /\ a \in Nat \ {0}
  BY <1>1, <1>3, <1>5, <1>6, <1>7, NextHandled
<1>9. Valid(a)
  <2>1. a \in 1 .. Handled
    BY <1>8
  <2> QED
    BY <1>1, <1>3, <2>1 DEF Good, Proper
<1> DEFINE last == Len(script[a])
<1>10. /\ last \in Nat \ {0} /\ q \in 1 .. last /\ 1 \in 1 .. last
       /\ header.ok /\ header.len \in Nat /\ Size(a, q) = header.len
       /\ \/ last = 1 /\ script[a][1].type = "CR"
          \/ last <= IsoMaxFragments /\ header.type = "DT" /\ header.eot = (q = last)
  <2>1. /\ last \in Nat \ {0} /\ IsoPayload_Size \in Nat
        /\ \A p \in 1 .. last : /\ script[a][p].ok /\ script[a][p].len \in 0 .. IsoPayload_Size
                                /\ Size(a, p) = script[a][p].len
        /\ \/ last = 1 /\ script[a][1].type = "CR"
           \/ /\ last <= IsoMaxFragments
              /\ \A p \in 1 .. last : script[a][p].type = "DT" /\ script[a][p].eot = (p = last)
    BY <1>1, <1>9, ValidShape
  <2> HIDE DEF last
  <2>2. q \in 1 .. last
    BY <1>6 DEF last
  <2>3. header.ok /\ header.len \in Nat /\ Size(a, q) = header.len /\ 1 \in 1 .. last
    BY <1>5, <2>1, <2>2
  <2> QED
    BY <1>5, <2>1, <2>2, <2>3
<1>11. /\ Offset \in Nat /\ S[q] = Offset + header.len /\ S[q] \in Nat
       /\ S[last] = Total(a)
  <2>1. Offset \in Nat /\ S[q] = Offset + Size(a, q) /\ S[q] \in Nat
    BY <1>1, <1>5, <1>9, RoomLeft DEF q
  <2>2. S[last] = Total(a)
    BY DEF Sums
  <2> QED
    BY <1>10, <2>1, <2>2
<1>12. NextUnit(At(a, q, Size(a, q))) = IF q < last THEN At(a, q + 1, -1) ELSE At(a + 1, 1, -1)
  <2> DEFINE u == At(a, q, Size(a, q))
  <2>1. u.m = a /\ u.p = q /\ u.k = Size(a, q) /\ ~ (Size(a, q) < Size(a, q))
    BY <1>7 DEF At
  <2> HIDE DEF u
  <2> QED
    BY <2>1 DEF NextUnit, u
<1> HIDE DEF last
<1>13. /\ Served(a - 1)' /\ Sums(a)' = Sums(a) /\ Total(a)' = Total(a)
       /\ \A got : Collected(a, got) => (Payload'[0] = Payload[0] /\ Collected(a, got))
       /\ Size(a, 1)' = Size(a, 1)
  <2>1. \A p : Size(a, p)' = Size(a, p)
    BY <1>1 DEF Size
  <2>2. Total(a)' = Total(a)
    BY <1>1 DEF Total, Data, Size
  <2>3. Sums(a)' = Sums(a)
    BY <1>1, <2>1, <2>2 DEF Sums
  <2>4. Served(a - 1)'
    BY <1>1, <1>6, ServedKept
  <2> QED
    BY <1>1, <2>1, <2>2, <2>3, <2>4
<1>14. \A m, p : Comes(At(m, p, -1)) => Comes(At(m, p, -1))'
  <2> TAKE m, p
  <2> DEFINE u == At(m, p, -1)
  <2>1. u' = u
    BY DEF At
  <2> HIDE DEF u
  <2>2. Comes(u) => Comes(u)'
    BY <1>1, <1>2, <1>3, <2>1, ComesKept
  <2> QED
    BY <2>2 DEF u
<1>15. CASE Complete
  <2>1. q = last
    <3>1. CASE last = 1
      BY <1>10, <3>1
    <3>2. CASE header.type = "DT" /\ header.eot = (q = last)
      BY <1>15, <3>2 DEF Complete
    <3> QED
      BY <1>10, <3>1, <3>2
  <2>2. /\ header' = [header EXCEPT !.len = Offset + @] /\ pc' = "peek"
    BY <1>15 DEF FragmentReceived, Jump
  <2>3. header'.ok /\ header'.type = header.type /\ header'.len = Total(a)
    <3>1. header \in Headers7
      BY <1>1 DEF IsoType
    <3>2. header'.ok = header.ok /\ header'.type = header.type /\ header'.len = Offset + header.len
      BY <2>2, <3>1 DEF Headers7
    <3> QED
      BY <1>10, <1>11, <2>1, <3>2
  <2>4. Comes(At(a + 1, 1, -1))'
    <3>1. Comes(At(a + 1, 1, -1))
      <4>1. ~ (q < last)
        BY <1>10, <2>1
      <4> QED
        BY <1>5, <1>12, <4>1
    <3> QED
      BY <1>14, <3>1
  <2>5. Collected(a, Total(a))'
    <3>1. Collected(a, Total(a))
      BY <1>5, <1>11, <2>1
    <3> QED
      BY <1>13, <3>1 DEF Collected, At
  <2>6. \/ header'.type = "CR" /\ script'[a][1].type = "CR"
        \/ header'.type = "DT"
    <3>1. CASE last = 1 /\ script[a][1].type = "CR"
      BY <1>1, <1>5, <2>1, <2>3, <3>1
    <3>2. CASE header.type = "DT"
      BY <2>3, <3>2
    <3> QED
      BY <1>10, <3>1, <3>2
  <2>7. AtPeek'
    BY <1>1, <1>13, <2>3, <2>4, <2>5, <2>6 DEF AtPeek
  <2> QED
    BY <2>2, <2>7 DEF IsoPlaces
<1>16. CASE ~Complete
  <2>1. q < last /\ last <= IsoMaxFragments
    <3>1. header.type = "DT" /\ last <= IsoMaxFragments /\ header.eot = (q = last)
      <4>1. ~ (last = 1 /\ script[a][1].type = "CR")
        <5>1. ASSUME last = 1, script[a][1].type = "CR" PROVE FALSE
          <6>1. q = 1
            BY <1>10, <5>1
          <6> QED
            BY <1>5, <1>16, <5>1, <6>1 DEF Complete
        <5> QED
          BY <5>1
      <4> QED
        BY <1>10, <4>1
    <3>2. q # last
      BY <1>16, <3>1 DEF Complete
    <3> QED
      BY <1>10, <3>1, <3>2
  <2>2. NumParts' = q + 1 /\ Offset' = Offset + header.len /\ pc' = "fragment"
    <3>1. ~ (q + 1 > IsoMaxFragments)
      BY <1>10, <2>1, ScriptsAssumption
    <3> QED
      BY <1>16, <3>1 DEF FragmentReceived, Jump, q
  <2>3. Within(a, S)'
    <3>1. q + 1 \in 1 .. last /\ (q + 1) - 1 = q
      BY <1>10, <2>1
    <3>2. Offset' = S[NumParts' - 1]
      BY <1>11, <2>2, <3>1
    <3>3. Collected(a, Offset)'
      <4>1. Offset' = S[q]
        BY <1>11, <2>2
      <4>2. S[q] > 0 => Payload'[0].m = a /\ (Size(a, 1)' > 0 => Payload'[0] = At(a, 1, 1))
        BY <1>5, <1>13 DEF Collected
      <4> QED
        BY <4>1, <4>2 DEF Collected, At
    <3>4. NumParts' \in 1 .. Len(script'[a])
      BY <1>1, <2>2, <3>1 DEF last
    <3> QED
      BY <1>13, <3>2, <3>3, <3>4 DEF Within
  <2>4. Comes(At(a, NumParts, -1))'
    <3>1. Comes(At(a, q + 1, -1))
      BY <1>5, <1>12, <2>1
    <3> DEFINE r == q + 1
    <3>2. NumParts' = r /\ Comes(At(a, r, -1))
      BY <2>2, <3>1
    <3>3. PICK p : p = r
      OBVIOUS
    <3>4. Comes(At(a, p, -1))' /\ NumParts' = p
      BY <1>14, <3>2, <3>3
    <3> QED
      BY <3>4 DEF At
  <2>5. NumParts' > 1
    BY <1>6, <2>2
  <2>6. AtHeader'
    BY <1>1, <1>13, <2>3, <2>4, <2>5 DEF AtHeader
  <2> QED
    BY <2>2, <2>6 DEF IsoPlaces
<1> QED
  BY <1>15, <1>16

\* A timeout or Purge that takes nothing of a message stands between messages.
LEMMA PurgeLost ==
    ASSUME LostInv, server = "s7", UNCHANGED <<server, modbus>>, Good', isoTimeout \/ PurgeStep
    PROVE  IsoPlaces'
<1>1. /\ Line /\ IsoType /\ Offsets /\ (Good => IsoPlaces)
      /\ UNCHANGED <<server, script, wire, closed, header, Payload, Offset, NumParts, performed, replies>>
  BY DEF LostInv, OrderInv, isoTimeout, RecvTimeout, PurgeStep, Purge, Drain, modbus
<1>2. clean' /\ ~closed'
  BY DEF Good
<1>3. CASE isoTimeout
  <2>1. /\ UNCHANGED stream /\ clean /\ pc = "header" /\ ~ (NumParts > 1)
        /\ pc' = "purge" /\ after' = "again"
    BY <1>2, <1>3 DEF isoTimeout, RecvTimeout
  <2>2. Moved(0)
    BY <1>1, <2>1, StandsStill
  <2>3. Good
    BY <1>1, <2>1, <2>2, GoodBefore
  <2>4. Between
    BY <1>1, <2>1, <2>3 DEF IsoPlaces, AtHeader
  <2>5. Between'
    BY <1>1, <1>2, <2>2, <2>4, BetweenKept
  <2> QED
    BY <2>1, <2>5 DEF IsoPlaces
<1>4. CASE PurgeStep
  <2>1. Moved(0) /\ clean
    <3>1. CASE pc = "purge" /\ Purge("drain", AfterPurge)
      BY <1>1, <1>2, <3>1, StandsStill DEF Purge
    <3>2. CASE pc = "drain" /\ Drain("drain", AfterPurge)
      <4>1. PICK n \in Nat : Moved(n) /\ clean' = (clean /\ n = 0)
        BY <1>1, <3>2, DrainMoves
      <4>2. n = 0 /\ clean
        BY <1>2, <4>1
      <4> QED
        BY <4>1, <4>2
    <3> QED
      BY <1>4, <3>1, <3>2 DEF PurgeStep
  <2>2. Good
    BY <1>1, <2>1, GoodBefore
  <2>3. pc \in {"purge", "drain"} /\ Between /\ after # "peek"
    BY <1>1, <1>4, <2>2 DEF IsoPlaces, PurgeStep
  <2>4. pc' \in {"drain", "purge", "idle"} /\ after' # "peek"
    <3>1. AfterPurge \in {"purge", "idle"}
      BY <1>1, <2>3 DEF AfterPurge, IsoType
    <3>2. after' \in {after, "idle"}
      BY <1>4 DEF PurgeStep
    <3> QED
      BY <1>4, <2>3, <3>1, <3>2 DEF PurgeStep, Purge, Drain
  <2>5. Between'
    BY <1>1, <1>2, <2>1, <2>3, BetweenKept
  <2> QED
    BY <2>4, <2>5 DEF IsoPlaces
<1> QED
  BY <1>3, <1>4

\* The message that was received has been served, or there was nothing to serve.
LEMMA ServedNext ==
    ASSUME server = "s7", NEW a \in Nat \ {0}, Served(a - 1),
           Kind(script[a]) \notin {"job", "userdata"}
    PROVE  Served(a)
<1>1. {m \in 1 .. a : Kind(script[m]) \in {"job", "userdata"}} =
      {m \in 1 .. a - 1 : Kind(script[m]) \in {"job", "userdata"}}
  <2>1. \A m : m \in 1 .. a <=> m \in 1 .. a - 1 \/ m = a
    OBVIOUS
  <2> QED
    BY <2>1
<1> QED
  BY <1>1 DEF Served

\* IsoPeek of a telegram: it goes on to the next message, and what is to be
\* performed of this one is.
LEMMA PeekLost ==
    ASSUME LostInv, server = "s7", UNCHANGED <<server, modbus>>, Good',
           Control \/ InvalidPDU \/ Report \/ IsoPerformCommand
    PROVE  IsoPlaces'
<1>1. /\ Line /\ IsoType /\ IsoOrder /\ Offsets /\ (Good => IsoPlaces) /\ pc = "peek"
      /\ UNCHANGED <<server, script, wire, stream, closed, clean, replies>>
  BY DEF LostInv, OrderInv, Control, IsoConfirmConnection, SendPacket, Jump, InvalidPDU, Report,
         IsoPerformCommand, modbus
<1>2. Moved(0)
  BY <1>1, StandsStill
<1>3. ~closed' /\ AtPeek
  <2>1. Good
    BY <1>1, <1>2, GoodBefore
  <2> QED
    BY <1>1, <2>1 DEF Good, IsoPlaces
<1>4. PICK a \in DOMAIN script :
          /\ Served(a - 1) /\ Comes(At(a + 1, 1, -1)) /\ header.ok
          /\ \/ header.type = "CR" /\ script[a][1].type = "CR"
             \/ header.type = "DT" /\ header.len = Total(a) /\ Collected(a, Total(a))
  BY <1>3 DEF AtPeek
<1>5. a \in Nat \ {0} /\ a + 1 \in 1 .. Len(script) + 1 /\ (a + 1) - 1 = a
  <2>1. a \in 1 .. Len(script) /\ Len(script) \in Nat
    BY <1>1, ScriptShape DEF Line, ScriptOK
  <2> QED
    BY <2>1
<1>6. header.len \in Nat /\ Total(a) \in Nat
  BY <1>1, <1>4, DataShape DEF IsoType, Headers7
<1>7. Comes(At(a + 1, 1, -1))'
  <2> DEFINE u == At(a + 1, 1, -1)
  <2>1. Comes(u) /\ u' = u
    BY <1>4 DEF At
  <2> HIDE DEF u
  <2>2. Comes(u)'
    BY <1>1, <1>2, <1>3, <2>1, ComesKept
  <2> QED
    BY <2>2 DEF u
<1>8. ASSUME Served(a)' PROVE Between'
  <2>1. Served((a + 1) - 1)'
    BY <1>5, <1>8
  <2>2. Begins(a + 1)'
    BY <1>1, <1>5, <1>7, <2>1 DEF Begins
  <2> QED
    BY <1>1, <1>5, <2>2 DEF Between
<1>9. ASSUME Kind(script[a]) \notin {"job", "userdata"}, UNCHANGED performed PROVE Between'
  <2>1. Served(a)
    BY <1>1, <1>4, <1>5, <1>9, ServedNext
  <2>2. Served(a)'
    BY <1>1, <1>9, <2>1, ServedKept
  <2> QED
    BY <1>8, <2>2
<1>10. CASE Control
  <2>1. UNCHANGED performed /\ pc' \in {"idle", "reset"} /\ PduKind # "data"
    BY <1>10 DEF Control, IsoConfirmConnection, SendPacket, Jump, iso
  <2>2. Kind(script[a]) \notin {"job", "userdata"}
    <3> SUFFICES ASSUME Kind(script[a]) \in {"job", "userdata"} PROVE FALSE
      OBVIOUS
    <3>1. script[a][1].type = "DT" /\ script[a][1].len > 0
      BY <1>1, ScriptsAssumption DEF Line
    <3>2. header.type = "DT" /\ header.len = Total(a)
      BY <1>4, <3>1
    <3>3. Total(a) > 0
      <4>1. PICK S : S \in Sums(a)
        BY <1>1, SumsExist
      <4>2. 1 \in 1 .. Len(script[a]) /\ Size(a, 1) \in Nat
        BY <1>1, DataShape
      <4>3. S[1] \in Nat /\ S[0] = 0 /\ S[1] = S[1 - 1] + Size(a, 1) /\ S[1] <= Total(a)
        BY <1>1, <4>1, <4>2, SumsGrow
      <4>4. Size(a, 1) > 0
        BY <3>1, <4>2 DEF Size
      <4> QED
        BY <1>6, <4>2, <4>3, <4>4
    <3>4. PduKind = "data"
      BY <1>6, <3>2, <3>3 DEF PduKind
    <3> QED
      BY <2>1, <3>4
  <2> QED
    BY <1>9, <2>1, <2>2 DEF IsoPlaces
<1>11. CASE InvalidPDU
  <2>1. header.len < 0
    BY <1>11 DEF InvalidPDU, PduKind
  <2> QED
    BY <1>6, <2>1
<1>12. ASSUME PduKind = "data", Consistent
       PROVE  Payload[0] = At(a, 1, 1) /\ FromClient /\ header.len \in Nat \ {0} /\ S7Header.kind = Kind(script[a])
  <2>1. header.len # 0 /\ header.type = "DT"
    BY <1>6, <1>12 DEF PduKind
  <2>2. header.len = Total(a) /\ Collected(a, Total(a)) /\ header.len > 0
    BY <1>4, <1>6, <2>1
  <2>3. Payload[0].m = a /\ FromClient
    BY <1>5, <2>2 DEF Collected, FromClient
  <2>4. Payload[0] # Own(2)
    BY <1>5, <2>3 DEF Own
  <2>5. Payload[0].p = 1 /\ Payload[0].k = 1
    BY <1>12, <2>3, <2>4 DEF Consistent, S7Header
  <2>6. Payload[0] \in Unit
    BY <1>1, ScriptsAssumption DEF IsoType, Cells
  <2> QED
    BY <1>6, <2>2, <2>3, <2>4, <2>5, <2>6 DEF S7Header, Unit, At
<1>13. CASE Report
  <2>1. CASE ~Consistent
    <3>1. pc' = "reset"
      BY <1>13, <2>1 DEF Report, Jump
    <3> QED
      BY <3>1 DEF IsoPlaces
  <2>2. CASE Consistent
    <3>1. pc' = "idle" /\ PduKind = "data" /\ UNCHANGED performed
      BY <1>13, <2>2 DEF Report, Jump
    <3>2. FromClient /\ S7Header.kind = Kind(script[a])
      BY <1>12, <2>2, <3>1
    <3>3. Kind(script[a]) = "silent"
      BY <1>13, <2>2, <3>2 DEF Report
    <3> QED
      BY <1>9, <3>1, <3>3 DEF IsoPlaces
  <2> QED
    BY <2>1, <2>2
<1>14. CASE IsoPerformCommand
  <2> DEFINE e == [data |-> [c \in 1 .. header.len |-> Payload[c - 1]], ok |-> header.ok]
             own == Own(IF S7Header.kind = "userdata" THEN 2 ELSE 1)
  <2>1. /\ performed' = Append(performed, e) /\ pc' = "idle"
        /\ PduKind = "data" /\ Consistent /\ S7Header.kind # "silent"
    BY <1>14 DEF IsoPerformCommand, SendPacket
  <2>2. Payload[0] = At(a, 1, 1) /\ header.len \in Nat \ {0} /\ S7Header.kind = Kind(script[a])
    BY <1>12, <2>1
  <2>3. Kind(script[a]) \in {"job", "userdata"}
    BY <2>1, <2>2 DEF Consistent
  <2>4. e.data[1].m = a
    <3>1. 1 \in 1 .. header.len /\ 1 - 1 = 0
      BY <2>2
    <3> QED
      BY <2>2, <3>1 DEF At
  <2> HIDE DEF e
  <2>5. PICK n \in Nat : n = Len(performed)
    BY <1>1 DEF IsoOrder
  <2>6. /\ performed' = [k \in 1 .. n + 1 |-> performed'[k]]
        /\ \A k \in 1 .. n : performed'[k] = performed[k]
        /\ performed'[n + 1] = e
    <3>1. performed = [k \in 1 .. n |-> performed[k]]
      BY <1>1, <2>5 DEF IsoOrder
    <3> QED
      BY <2>1, <3>1, AppendAny
  <2>7. DOMAIN performed = 1 .. n /\ DOMAIN performed' = 1 .. n + 1
    BY <1>1, <2>5, <2>6 DEF IsoOrder
  <2>8. Range(Ids) = {performed[k].data[1].m : k \in 1 .. n}
    BY <2>7 DEF Range, Ids
  <2>9. Range(Ids)' = {performed'[k].data[1].m : k \in 1 .. n + 1}
    BY <2>7 DEF Range, Ids
  <2>10. Range(Ids)' = Range(Ids) \cup {a}
    <3>1. \A k : k \in 1 .. n + 1 <=> k \in 1 .. n \/ k = n + 1
      OBVIOUS
    <3> QED
      BY <2>4, <2>6, <2>8, <2>9, <3>1
  <2>11. {m \in 1 .. a : Kind(script[m]) \in {"job", "userdata"}} =
         {m \in 1 .. a - 1 : Kind(script[m]) \in {"job", "userdata"}} \cup {a}
    <3>1. \A m : m \in 1 .. a <=> m \in 1 .. a - 1 \/ m = a
      BY <1>5
    <3> QED
      BY <2>3, <3>1
  <2>12. Range(Ids) = {m \in 1 .. a - 1 : Kind(script[m]) \in {"job", "userdata"}}
    BY <1>4 DEF Served
  <2>13. Served(a)'
    <3>1. Range(Ids)' = {m \in 1 .. a : Kind(script'[m]) \in {"job", "userdata"}}
      BY <1>1, <2>10, <2>11, <2>12
    <3> QED
      BY <1>1, <3>1 DEF Served
  <2> QED
    BY <1>8, <2>1, <2>13 DEF IsoPlaces
<1> QED
  BY <1>10, <1>11, <1>13, <1>14

LEMMA IsoStepLost ==
    ASSUME LostInv, server = "s7", IsoStep, UNCHANGED <<server, modbus>>
    PROVE  LostInv'
<1>1. OrderInv /\ Offsets /\ IsoType
  BY DEF LostInv, OrderInv
<1>2. OrderInv'
  BY <1>1, IsoStepOrder
<1>3. Offsets'
  BY <1>1, OffsetsStep
<1>4. ASSUME Good' PROVE IsoPlaces'
  <2>1. CASE DestroySocket /\ UNCHANGED iso
    <3>1. pc' \in {"last drain", "ended"}
      BY <2>1 DEF DestroySocket, Purge, Drain
    <3> QED
      BY <3>1 DEF IsoPlaces
  <2> QED
    BY <1>4, <2>1, WaitingLost, HeaderLost, DataLost, ReceivedLost, PurgeLost, PeekLost DEF IsoStep
<1> QED
  BY <1>2, <1>3, <1>4 DEF LostInv

\* A request of Modbus that NothingLost speaks of is one packet with its data.
LEMMA ConformingShape ==
    ASSUME Line, server = "modbus", NEW a \in DOMAIN script, Conforming(script[a][1])
    PROVE  /\ Len(script[a]) = 1 /\ 1 \in DOMAIN script[a] /\ a \in Nat \ {0} /\ a \in 1 .. Len(script)
           /\ Len(script) \in Nat
           /\ Size(a, 1) = script[a][1].claimed /\ Size(a, 1) \in Nat \ {0}
           /\ Size(a, 1) = 1 => ~Multiple(script[a][1].fun)
<1>1. a \in 1 .. Len(script) /\ Len(script) \in Nat /\ Len(script[a]) = 1
  BY ScriptShape, ScriptsAssumption DEF Line, ScriptOK
<1>2. 1 \in DOMAIN script[a] /\ a \in Nat \ {0}
  <2> DEFINE n == Len(script)
  <2>1. n \in Nat /\ a \in 1 .. n
    BY <1>1
  <2> HIDE DEF n
  <2>2. a \in Nat \ {0}
    BY <2>1
  <2>3. DOMAIN script[a] = 1 .. 1
    BY <1>1, ScriptShape DEF Line, ScriptOK
  <2> QED
    BY <2>2, <2>3
<1>3. script[a][1].claimed = script[a][1].len /\ script[a][1].len = Body(script[a][1])
  BY DEF Conforming
<1>4. Body(script[a][1]) \in {1, 2} /\ (Body(script[a][1]) = 1 => ~Multiple(script[a][1].fun))
  BY DEF Body, RequestSize
<1>5. Size(a, 1) = script[a][1].len
  BY <1>3, <1>4 DEF Size
<1> QED
  BY <1>1, <1>2, <1>3, <1>4, <1>5

\* A step that reads nothing and leaves the request and the replies alone.
LEMMA ModbusKept ==
    ASSUME Line, Moved(0), ~closed', UNCHANGED <<performed, replies, mbap, body>>
    PROVE  /\ Between => Between'
           /\ \A a, p, k : HeaderIn(a) /\ Comes(At(a, p, k)) => (HeaderIn(a) /\ Comes(At(a, p, k)))'
           /\ \A a : HeaderIn(a) /\ Comes(At(a + 1, 1, -1)) => (HeaderIn(a) /\ Comes(At(a + 1, 1, -1)))'
<1>1. Between => Between'
  BY BetweenKept
<1>2. \A m, p, k : Comes(At(m, p, k)) => Comes(At(m, p, k))'
  <2> TAKE m, p, k
  <2> DEFINE u == At(m, p, k)
  <2>1. u' = u
    BY DEF At
  <2> HIDE DEF u
  <2>2. Comes(u) => Comes(u)'
    BY <2>1, ComesKept
  <2> QED
    BY <2>2 DEF u
<1>3. \A a : HeaderIn(a) => HeaderIn(a)'
  <2>1. script' = script /\ server' = server
    BY DEF Moved
  <2>2. \A a : Served(a - 1) => Served(a - 1)'
    BY <2>1, ServedKept
  <2> QED
    BY <2>1, <2>2 DEF HeaderIn
<1> QED
  BY <1>1, <1>2, <1>3

LEMMA ModbusStillLost ==
    ASSUME LostInv, server = "modbus", OrderInv', Moved(0), clean' => clean,
           UNCHANGED <<performed, replies, mbap, body, pc>>
    PROVE  LostInv'
<1>1. Line /\ (Good => ModbusPlaces) /\ server' = "modbus"
  BY DEF LostInv, OrderInv, Moved
<1>2. ASSUME Good' PROVE ModbusPlaces'
  <2>1. ModbusPlaces /\ ~closed'
    BY <1>1, <1>2, GoodBefore DEF Good
  <2>2. script' = script
    BY DEF Moved
  <2>3. /\ Between => Between'
        /\ \A a, p, k : HeaderIn(a) /\ Comes(At(a, p, k)) => (HeaderIn(a) /\ Comes(At(a, p, k)))'
        /\ \A a : HeaderIn(a) /\ Comes(At(a + 1, 1, -1)) => (HeaderIn(a) /\ Comes(At(a + 1, 1, -1)))'
    BY <1>1, <2>1, ModbusKept
  <2> QED
    BY <2>1, <2>2, <2>3 DEF ModbusPlaces
<1> QED
  BY <1>1, <1>2 DEF LostInv

\* The header of a request is read, and its data come next.
LEMMA ModbusHeaderLost ==
    ASSUME LostInv, server = "modbus", UNCHANGED <<server, iso>>, Good', RecvHeader
    PROVE  ModbusPlaces'
<1>1. /\ Line /\ (Good => ModbusPlaces)
      /\ pc = "mbap" /\ pc' = "check" /\ Len(stream) >= 2 /\ stream' = SubSeq(stream, 2 + 1, Len(stream))
      /\ UNCHANGED <<server, script, wire, closed, clean, performed, replies, body>>
  BY DEF LostInv, OrderInv, RecvHeader, RecvPacket, HeaderSize, iso
<1>2. /\ Moved(2) /\ 2 \in Nat \ {0} /\ 2 <= Len(Ahead) /\ Ahead # <<>> /\ Len(stream) \in Nat
      /\ Ahead[1] = stream[1] /\ Ahead[2] = stream[2] /\ stream \in Seq(Sent)
  <2>1. Len(stream) \in Nat /\ Len(Ahead) \in Nat /\ Len(stream) <= Len(Ahead) /\ stream \in Seq(Sent)
    BY <1>1, AheadShape DEF Line
  <2>2. 1 \in 1 .. Len(stream) /\ 2 \in 1 .. Len(stream) /\ 2 <= Len(Ahead)
    BY <1>1, <2>1
  <2>3. Ahead # <<>>
    BY <1>1, <2>2, AheadShape
  <2> QED
    BY <1>1, <2>1, <2>2, <2>3, AheadShape, ReadMoves
<1>3. ~closed' /\ Between
  <2>1. Good
    BY <1>1, <1>2, GoodBefore
  <2> QED
    BY <1>1, <2>1 DEF Good, ModbusPlaces
<1>4. PICK a \in 1 .. Len(script) + 1 : Begins(a)
  BY <1>3 DEF Between
<1>5. Ahead[1] = At(a, 1, -1) /\ a \in DOMAIN script /\ 1 \in DOMAIN script[a] /\ Size(a, 1) \in Nat
  <2>1. Ahead[1] = At(a, 1, -1)
    BY <1>2, <1>4 DEF Begins, Comes
  <2>2. Ahead[1] \in Sent
    <3>1. 1 \in 1 .. Len(Ahead)
      BY <1>1, <1>2, AheadShape
    <3> QED
      BY <1>1, <3>1, AheadShape
  <2>3. a \in DOMAIN script /\ 1 \in DOMAIN script[a]
    BY <2>1, <2>2 DEF Sent, At
  <2>4. Size(a, 1) \in Nat
    BY <1>1, <2>3, ScriptShape DEF Line, ScriptOK
  <2> QED
    BY <2>1, <2>3, <2>4
<1>6. Ahead[2] = At(a, 1, 0)
  <2>1. Ahead[1].m = a /\ Ahead[1].p = 1 /\ Ahead[1].k = -1
    BY <1>5 DEF At
  <2>2. Ahead[1].k + (2 - 1) <= Size(Ahead[1].m, Ahead[1].p) /\ 2 \in Nat /\ 2 > 0
    BY <1>5, <2>1
  <2>3. \A i \in 1 .. 2 : Ahead[i] = At(Ahead[1].m, Ahead[1].p, Ahead[1].k + (i - 1))
    BY <1>1, <1>2, <2>2, RunOf
  <2>4. 2 \in 1 .. 2 /\ -1 + (2 - 1) = 0
    OBVIOUS
  <2> QED
    BY <2>1, <2>3, <2>4
<1>7. mbap'.m = a /\ mbap'.packet = script[a][1]
  <2>1. SubSeq(stream, 1, 2)[1] = stream[1] /\ SubSeq(stream, 1, 2)[2] = stream[2]
    <3>1. \A i \in 1 .. 2 : stream[i] \in Sent
      BY <1>1, <1>2, ElementOfSeq
    <3>2. \A i \in 1 .. 2 - 1 + 1 : SubSeq(stream, 1, 2)[i] = stream[1 + i - 1]
      BY <3>1, SubSeqProperties
    <3>3. SubSeq(stream, 1, 2)[1] = stream[1 + 1 - 1] /\ SubSeq(stream, 1, 2)[2] = stream[1 + 2 - 1]
      BY <3>2
    <3> QED
      BY <3>3
  <2>2. IsHeader(SubSeq(stream, 1, HeaderSize))
    BY <1>2, <1>5, <1>6, <2>1 DEF IsHeader, HeaderSize, At
  <2>3. stream[1].m = a
    BY <1>2, <1>5 DEF At
  <2> QED
    BY <2>2, <2>3 DEF RecvHeader
<1>8. /\ Handled' = a /\ a \in Nat \ {0}
      /\ \A u : u = NextUnit(At(a, 1, 0)) => Comes(u)'
  <2>1. 0 \in 0 .. Size(a, 1)
    BY <1>5
  <2> QED
    BY <1>1, <1>2, <1>3, <1>5, <1>6, <2>1, ReadOn
<1>9. Conforming(script[a][1])
  <2>1. a \in 1 .. Handled'
    BY <1>8
  <2>2. Proper(a)'
    BY <2>1 DEF Good
  <2> QED
    BY <1>1, <2>2 DEF Proper, Conforming, Body
<1>10. Comes(At(a, 1, 1))'
  <2> DEFINE u == At(a, 1, 1)
  <2>1. u = NextUnit(At(a, 1, 0)) /\ u' = u
    <3>1. 0 < Size(a, 1) /\ 0 + 1 = 1
      BY <1>1, <1>5, <1>9, ConformingShape
    <3> QED
      BY <3>1 DEF NextUnit, At
  <2> HIDE DEF u
  <2>2. Comes(u)'
    BY <1>8, <2>1
  <2> QED
    BY <2>2 DEF u
<1>11. HeaderIn(a)'
  <2>1. Served(a - 1)'
    BY <1>1, <1>4, ServedKept DEF Begins
  <2> QED
    BY <1>1, <1>7, <2>1 DEF HeaderIn
<1> QED
  BY <1>1, <1>5, <1>10, <1>11 DEF ModbusPlaces

\* A request that has been read as far as its header is one that conforms.
LEMMA RequestRead ==
    ASSUME Line, server = "modbus", Good, NEW a \in DOMAIN script, HeaderIn(a), Comes(At(a, 1, 1))
    PROVE  /\ Conforming(mbap.packet) /\ mbap.packet.fun # "unknown" /\ Conforming(script[a][1])
           /\ mbap.packet.claimed >= 0
<1>1. a \in 1 .. Len(script) /\ Len(script) \in Nat
  BY ScriptShape DEF Line, ScriptOK
<1>2. Handled = a
  BY <1>1, HandledAt DEF Good
<1>3. Proper(a)
  BY <1>1, <1>2 DEF Good
<1>4. Conforming(script[a][1]) /\ script[a][1].fun # "unknown" /\ mbap.packet = script[a][1]
  BY <1>3 DEF Proper, HeaderIn
<1>5. mbap.packet.claimed >= 0
  BY <1>4, ConformingShape
<1> QED
  BY <1>4, <1>5

\* Its data is read, and the next request comes.
LEMMA BodyLost ==
    ASSUME LostInv, server = "modbus", UNCHANGED <<server, iso>>, Good', RecvBody
    PROVE  ModbusPlaces'
<1>1. /\ Line /\ (Good => ModbusPlaces)
      /\ pc = "body" /\ pc' = AfterBody /\ Len(stream) >= 1
      /\ stream' = SubSeq(stream, 1 + 1, Len(stream))
      /\ UNCHANGED <<server, script, wire, closed, clean, performed, replies, mbap>>
  BY DEF LostInv, OrderInv, RecvBody, RecvPacket, RequestSize, iso
<1>2. /\ Moved(1) /\ 1 \in Nat \ {0} /\ 1 <= Len(Ahead) /\ Ahead # <<>> /\ Ahead[1] = stream[1]
  <2>1. Len(stream) \in Nat /\ Len(Ahead) \in Nat /\ Len(stream) <= Len(Ahead)
    BY <1>1, AheadShape
  <2>2. 1 \in 1 .. Len(stream) /\ 1 <= Len(Ahead)
    BY <1>1, <2>1
  <2> QED
    BY <1>1, <2>1, <2>2, AheadShape, ReadMoves
<1>3. Good /\ ModbusPlaces /\ ~closed'
  <2>1. Good
    BY <1>1, <1>2, GoodBefore
  <2> QED
    BY <1>1, <2>1 DEF Good
<1>4. PICK a \in DOMAIN script : HeaderIn(a) /\ Comes(At(a, 1, 1))
  BY <1>1, <1>3 DEF ModbusPlaces
<1>5. mbap.packet.claimed = RequestSize /\ mbap.packet = script[a][1] /\ Conforming(script[a][1])
  BY <1>1, <1>3, <1>4, RequestRead DEF ModbusPlaces, HeaderIn
<1>6. /\ Size(a, 1) = 1 /\ Len(script[a]) = 1 /\ 1 \in DOMAIN script[a] /\ a \in Nat \ {0}
      /\ ~Multiple(mbap.packet.fun)
  BY <1>1, <1>4, <1>5, ConformingShape DEF RequestSize
<1>7. pc' = "perform"
  BY <1>1, <1>6 DEF AfterBody
<1>8. Ahead[1] = At(a, 1, 1)
  BY <1>2, <1>4 DEF Comes
<1>9. body' = script[a][1].value
  <2>1. stream[1].k > 0 /\ stream[1].m = a
    BY <1>2, <1>8 DEF At
  <2> QED
    BY <2>1 DEF RecvBody
<1>10. Comes(At(a + 1, 1, -1))'
  <2> DEFINE u == At(a + 1, 1, -1)
  <2>1. u = NextUnit(At(a, 1, 1)) /\ u' = u
    <3>1. NextUnit(At(a, 1, 1)) = At(a + 1, 1, -1)
      <4> DEFINE v == At(a, 1, 1)
      <4>1. v.m = a /\ v.p = 1 /\ v.k = 1
        BY DEF At
      <4>2. ~ (v.k < Size(v.m, v.p)) /\ ~ (v.p < Len(script[v.m]))
        <5> HIDE DEF v
        <5>1. Size(v.m, v.p) = 1 /\ Len(script[v.m]) = 1
          BY <1>6, <4>1
        <5> QED
          BY <4>1, <5>1
      <4> HIDE DEF v
      <4>3. NextUnit(v) = At(v.m + 1, 1, -1)
        BY <4>2 DEF NextUnit
      <4>4. NextUnit(v) = At(a + 1, 1, -1)
        BY <4>1, <4>3
      <4> QED
        BY <4>4 DEF v
    <3>2. u' = u
      BY DEF At
    <3> QED
      BY <3>1, <3>2
  <2>2. \A v : v = NextUnit(At(a, 1, 1)) => Comes(v)'
    <3>1. 1 \in 0 .. Size(a, 1)
      BY <1>6
    <3> QED
      BY <1>1, <1>2, <1>3, <1>6, <1>8, <3>1, ReadOn
  <2> HIDE DEF u
  <2>3. Comes(u)'
    BY <2>1, <2>2
  <2> QED
    BY <2>3 DEF u
<1>11. HeaderIn(a)'
  <2>1. Served(a - 1)'
    BY <1>1, <1>4, ServedKept DEF HeaderIn
  <2> QED
    BY <1>1, <1>4, <2>1 DEF HeaderIn
<1> QED
  BY <1>1, <1>7, <1>9, <1>10, <1>11 DEF ModbusPlaces

\* It is answered, unless the values are refused, and the next request comes.
LEMMA AnswerLost ==
    ASSUME LostInv, server = "modbus", UNCHANGED <<server, iso>>, Good', Perform
    PROVE  ModbusPlaces'
<1>1. /\ Line /\ ModbusType /\ (Good => ModbusPlaces)
      /\ pc = "perform" /\ pc' = "idle"
      /\ UNCHANGED <<server, script, wire, stream, closed, clean, performed>>
  BY DEF LostInv, OrderInv, Perform, Reply, SendPacket, Jump, iso, modbus
<1>2. Moved(0)
  BY <1>1, StandsStill
<1>3. Good /\ ModbusPlaces /\ ~closed'
  <2>1. Good
    BY <1>1, <1>2, GoodBefore
  <2> QED
    BY <1>1, <2>1 DEF Good
<1>4. PICK a \in DOMAIN script :
          HeaderIn(a) /\ Comes(At(a + 1, 1, -1)) /\ body = script[a][1].value
  BY <1>1, <1>3 DEF ModbusPlaces
<1>5. a \in Nat \ {0} /\ a + 1 \in 1 .. Len(script) + 1 /\ (a + 1) - 1 = a
  <2>1. a \in 1 .. Len(script) /\ Len(script) \in Nat
    BY <1>1, ScriptShape DEF Line, ScriptOK
  <2> QED
    BY <2>1
<1>6. Comes(At(a + 1, 1, -1))'
  <2> DEFINE u == At(a + 1, 1, -1)
  <2>1. Comes(u) /\ u' = u
    BY <1>4 DEF At
  <2> HIDE DEF u
  <2>2. Comes(u)'
    BY <1>1, <1>2, <1>3, <2>1, ComesKept
  <2> QED
    BY <2>2 DEF u
<1>7. {r.m : r \in Range(replies)} = {m \in 1 .. a - 1 : script[m][1].value # "refused"}
  BY <1>1, <1>4 DEF HeaderIn, Served
<1>8. \A m : m \in 1 .. a <=> m \in 1 .. a - 1 \/ m = a
  BY <1>5
<1>9. {r.m : r \in Range(replies')} = {m \in 1 .. a : script[m][1].value # "refused"}
  <2>1. CASE body = "refused"
    <3>1. replies' = replies
      BY <2>1 DEF Perform, modbus
    <3> QED
      BY <1>4, <1>7, <1>8, <2>1, <3>1
  <2>2. CASE body # "refused"
    <3> DEFINE e == [m |-> mbap.m, reply |-> body]
               R == [m : Nat, reply : Values]
               n == Len(replies)
    <3>1. replies' = Append(replies, e) /\ e.m = a
      BY <1>4, <2>2 DEF Perform, Reply, HeaderIn
    <3>2. replies \in Seq(R) /\ e \in R
      BY <1>1 DEF ModbusType
    <3> HIDE DEF e, R
    <3>3. /\ replies' \in Seq(R) /\ Len(replies') = n + 1 /\ n \in Nat
          /\ \A k \in 1 .. n : replies'[k] = replies[k]
          /\ replies'[n + 1] = e
      BY <3>1, <3>2, AppendProperties
    <3>4. DOMAIN replies = 1 .. n /\ DOMAIN replies' = 1 .. n + 1
      BY <3>2, <3>3, LenProperties
    <3>5. \A k : k \in 1 .. n + 1 <=> k \in 1 .. n \/ k = n + 1
      BY <3>3
    <3> HIDE DEF n
    <3>6. Range(replies') = Range(replies) \cup {e}
      BY <3>3, <3>4, <3>5 DEF Range
    <3>7. {r.m : r \in Range(replies')} = {r.m : r \in Range(replies)} \cup {a}
      BY <3>1, <3>6
    <3> QED
      BY <1>4, <1>7, <1>8, <2>2, <3>7
  <2> QED
    BY <2>1, <2>2
<1>10. Served(a)'
  BY <1>1, <1>9 DEF Served
<1>11. Begins(a + 1)'
  BY <1>1, <1>5, <1>6, <1>10 DEF Begins
<1> QED
  BY <1>1, <1>5, <1>11 DEF ModbusPlaces, Between

LEMMA ModbusStepLost ==
    ASSUME LostInv, server = "modbus", ModbusStep, UNCHANGED <<server, iso>>
    PROVE  LostInv'
<1>1. /\ OrderInv /\ Line /\ (Good => ModbusPlaces) /\ server' = "modbus"
      /\ UNCHANGED performed
  BY DEF LostInv, OrderInv, iso
<1>2. OrderInv'
  BY <1>1, ModbusStepOrder
<1>3. ASSUME Good' PROVE ModbusPlaces'
  <2>0. ~closed' /\ clean'
    BY <1>3 DEF Good
  <2>1. ASSUME Moved(0), clean' => clean
        PROVE  Good /\ ModbusPlaces
    BY <1>1, <1>3, <2>1, GoodBefore
  <2>2. ASSUME UNCHANGED <<script, wire, stream, closed, clean>>
        PROVE  Moved(0) /\ Good /\ ModbusPlaces
    <3>1. Moved(0)
      BY <1>1, <2>2, StandsStill
    <3> QED
      BY <2>1, <2>2, <3>1
  <2>3. CASE ModbusExecuteRecv
    <3>1. /\ UNCHANGED <<script, wire, stream, closed, clean>> /\ UNCHANGED <<mbap, body, replies>>
          /\ pc = "idle" /\ pc' \in {"mbap", "reset"}
      BY <2>3 DEF ModbusExecuteRecv, WaitForData, modbus
    <3>2. Moved(0) /\ Between
      BY <2>2, <3>1 DEF ModbusPlaces
    <3>3. Between'
      BY <1>1, <2>0, <3>1, <3>2, BetweenKept
    <3> QED
      BY <3>1, <3>3 DEF ModbusPlaces
  <2>4. CASE RefuseHeader \/ WrongSize
    <3>1. pc' = "reset"
      BY <2>4 DEF RefuseHeader, WrongSize, Reply, SendPacket, Jump
    <3> QED
      BY <3>1 DEF ModbusPlaces
  <2>5. CASE UnknownFunction
    <3>1. UNCHANGED <<script, wire, stream, closed, clean>> /\ pc = "check"
      BY <2>5 DEF UnknownFunction, Accepted, Reply, SendPacket
    <3>2. Good /\ ModbusPlaces
      BY <2>2, <3>1
    <3>3. PICK a \in DOMAIN script : HeaderIn(a) /\ Comes(At(a, 1, 1))
      BY <3>1, <3>2 DEF ModbusPlaces
    <3>4. mbap.packet.fun # "unknown"
      BY <1>1, <3>2, <3>3, RequestRead
    <3> QED
      BY <2>5, <3>4 DEF UnknownFunction
  <2>6. CASE BeginBody
    <3>1. /\ UNCHANGED <<script, wire, stream, closed, clean>> /\ UNCHANGED <<mbap, body, replies>>
          /\ pc = "check" /\ pc' = IF Eof THEN "unread" ELSE "body"
          /\ mbap.packet.claimed = RequestSize
      BY <2>6 DEF BeginBody, Accepted, WaitForData, modbus
    <3>2. pc' = "body"
      BY <2>0, <3>1 DEF Eof
    <3>3. Moved(0) /\ ModbusPlaces
      BY <2>2, <3>1
    <3>4. PICK a \in DOMAIN script : HeaderIn(a) /\ Comes(At(a, 1, 1))
      BY <3>1, <3>3 DEF ModbusPlaces
    <3>5. (HeaderIn(a) /\ Comes(At(a, 1, 1)))'
      BY <1>1, <2>0, <3>1, <3>3, <3>4, ModbusKept
    <3>6. a \in DOMAIN script' /\ mbap'.packet.claimed = RequestSize
      BY <3>1
    <3> QED
      BY <3>2, <3>5, <3>6 DEF ModbusPlaces
  <2>7. CASE Unread \/ BeginMultiple \/ RecvMultiple
    <3>1. pc \in {"unread", "multiple", "data"}
      BY <2>7 DEF Unread, BeginMultiple, RecvMultiple
    <3>2. PICK n \in Nat : Moved(n) /\ clean' = clean
      <4>1. CASE Unread \/ BeginMultiple
        <5>1. UNCHANGED <<script, wire, stream, closed, clean>>
          BY <4>1 DEF Unread, BeginMultiple, Jump, WaitForData
        <5> QED
          BY <2>2, <5>1
      <4>2. CASE RecvMultiple
        <5>1. /\ 1 <= Len(stream) /\ stream' = SubSeq(stream, 1 + 1, Len(stream))
              /\ UNCHANGED <<script, wire, closed, clean>>
          <6>1. Len(stream) \in Nat
            BY <1>1, AheadShape
          <6> QED
            BY <4>2, <6>1 DEF RecvMultiple, RecvPacket
        <5> QED
          BY <1>1, <5>1, ReadMoves
      <4> QED
        BY <2>7, <4>1, <4>2
    <3>3. ModbusPlaces
      BY <1>1, <1>3, <3>2, GoodBefore
    <3> QED
      BY <3>1, <3>3 DEF ModbusPlaces
  <2>8. CASE ModbusTimeout
    <3>1. /\ UNCHANGED <<script, wire, stream, closed>> /\ UNCHANGED <<mbap, body, replies>>
          /\ clean' = (clean /\ ~ (pc # "mbap")) /\ pc' = PurgeOf(pc)
      BY <2>8 DEF ModbusTimeout, RecvTimeout, modbus
    <3>2. pc = "mbap" /\ clean /\ UNCHANGED clean
      BY <2>0, <3>1
    <3>3. pc' = "mbap purge"
      BY <3>1, <3>2 DEF PurgeOf
    <3>4. Moved(0) /\ Between
      BY <2>2, <3>1, <3>2 DEF ModbusPlaces
    <3>5. Between'
      BY <1>1, <2>0, <3>1, <3>4, BetweenKept
    <3> QED
      BY <3>3, <3>5 DEF ModbusPlaces
  <2>9. CASE ModbusPurge
    <3>0. PICK at \in {"mbap", "body", "data"} :
             LET done == CASE at = "mbap" -> "idle" [] at = "body" -> "unread" [] at = "data" -> "perform"
             IN  \/ pc = PurgeOf(at) /\ Purge(DrainOf(at), done)
                 \/ pc = DrainOf(at) /\ Drain(DrainOf(at), done)
      BY <2>9 DEF ModbusPurge
    <3> DEFINE done == CASE at = "mbap" -> "idle" [] at = "body" -> "unread" [] at = "data" -> "perform"
    <3>1. \/ pc = PurgeOf(at) /\ Purge(DrainOf(at), done)
          \/ pc = DrainOf(at) /\ Drain(DrainOf(at), done)
      BY <3>0
    <3>2. UNCHANGED <<mbap, body, replies>> /\ UNCHANGED <<script, closed>> /\ pc' \in {DrainOf(at), done}
      BY <2>9, <3>1 DEF ModbusPurge, Purge, Drain, modbus
    <3>3. Moved(0) /\ clean
      <4> HIDE DEF done
      <4>1. CASE pc = PurgeOf(at) /\ Purge(DrainOf(at), done)
        BY <1>1, <2>0, <4>1, StandsStill DEF Purge
      <4>2. CASE pc = DrainOf(at) /\ Drain(DrainOf(at), done)
        <5>1. PICK n \in Nat : Moved(n) /\ clean' = (clean /\ n = 0)
          BY <1>1, <4>2, DrainMoves
        <5>2. n = 0 /\ clean
          BY <2>0, <5>1
        <5> QED
          BY <5>1, <5>2
      <4> QED
        BY <3>1, <4>1, <4>2
    <3>4. ModbusPlaces
      BY <2>1, <3>3
    <3>5. at = "mbap"
      BY <3>1, <3>4 DEF ModbusPlaces, PurgeOf, DrainOf
    <3>6. Between /\ pc' \in {"mbap drain", "idle"}
      BY <3>1, <3>2, <3>4, <3>5 DEF ModbusPlaces, PurgeOf, DrainOf
    <3>7. Between'
      BY <1>1, <2>0, <3>2, <3>3, <3>6, BetweenKept
    <3> QED
      BY <3>6, <3>7 DEF ModbusPlaces
  <2>10. CASE DestroySocket
    <3>1. pc' \in {"last drain", "ended"}
      BY <2>10 DEF DestroySocket, Purge, Drain
    <3> QED
      BY <3>1 DEF ModbusPlaces
  <2> QED
    BY <1>3, <2>3, <2>4, <2>5, <2>6, <2>7, <2>8, <2>9, <2>10, ModbusHeaderLost, BodyLost, AnswerLost
       DEF ModbusStep
<1> QED
  BY <1>1, <1>2, <1>3 DEF LostInv

LEMMA LostInit ==
    ASSUME Init
    PROVE  LostInv
<1>1. OrderInv /\ Line /\ server \in {"s7", "modbus"} /\ Comes(At(1, 1, -1))
  BY OrderInit, LineInit DEF OrderInv
<1>2. pc = "idle" /\ performed = <<>> /\ replies = <<>> /\ Offset = 0 /\ pData = 0 /\ NumParts = 1
  BY DEF Init, IsoInit, ModbusInit
<1>3. Between
  <2>1. 1 \in 1 .. Len(script) + 1
    BY <1>1, ScriptShape DEF Line, ScriptOK
  <2>2. Served(0)
    <3>1. 1 .. 0 = {} /\ DOMAIN performed = {} /\ DOMAIN replies = {}
      BY <1>2
    <3>2. Range(Ids) = {} /\ Range(replies) = {}
      BY <3>1 DEF Range, Ids
    <3> QED
      BY <3>1, <3>2 DEF Served
  <2>3. Served(1 - 1)
    BY <2>2
  <2> QED
    BY <1>1, <2>1, <2>3 DEF Between, Begins
<1> QED
  BY <1>1, <1>2, <1>3 DEF LostInv, Offsets, Receiving, IsoPlaces, ModbusPlaces

LEMMA LostStep ==
    ASSUME LostInv, [Next]_vars
    PROVE  LostInv'
<1>0. OrderInv /\ OrderInv' /\ Line /\ server \in {"s7", "modbus"}
  BY OrderStep DEF LostInv, OrderInv
<1>1. CASE server = "s7" /\ IsoStep /\ UNCHANGED <<server, modbus>>
  BY <1>1, IsoStepLost
<1>2. CASE server = "modbus" /\ ModbusStep /\ UNCHANGED <<server, iso>>
  BY <1>2, ModbusStepLost
<1>3. ASSUME Moved(0), UNCHANGED <<pc, clean, iso, modbus>> PROVE LostInv'
  <2>1. UNCHANGED <<performed, replies, header, Payload, Offset, pData, NumParts, after, mbap, body>>
    BY <1>3 DEF iso, modbus
  <2>2. CASE server = "s7"
    <3>1. NumParts' \in Nat \ {0}
      BY <2>1, <2>2 DEF LostInv, Offsets
    <3> QED
      BY <1>0, <1>3, <2>1, <2>2, <3>1, StillLost
  <2>3. CASE server = "modbus"
    BY <1>0, <1>3, <2>1, <2>3, ModbusStillLost
  <2> QED
    BY <1>0, <2>2, <2>3
<1>4. CASE Environment /\ UNCHANGED <<server, iso, modbus>>
  <2>1. Moved(0) /\ UNCHANGED <<pc, clean>>
    BY <1>0, <1>4, ArriveMoves, CloseMoves DEF Environment, Arrive, Close
  <2> QED
    BY <1>3, <1>4, <2>1
<1>5. CASE UNCHANGED vars
  <2>1. Moved(0) /\ UNCHANGED <<pc, clean, iso, modbus>>
    BY <1>0, <1>5, StandsStill DEF vars, socket
  <2> QED
    BY <1>3, <2>1
<1> QED
  BY <1>1, <1>2, <1>4, <1>5 DEF Next, Worker

\* Between two messages, what has been begun has been served.
LEMMA LostStates ==
    ASSUME LostInv
    PROVE  NothingLost
<1>0. Line /\ server \in {"s7", "modbus"}
  BY DEF LostInv, OrderInv
<1>1. SUFFICES ASSUME pc = "idle", clean, ~closed, \A m \in 1 .. Handled : Proper(m)
               PROVE  AtStart /\ Served(Handled)
  <2>1. CASE server = "s7"
    <3>1. (\A m \in 1 .. Handled : Valid(m)) => \A m \in 1 .. Handled : Proper(m)
      BY <2>1 DEF Proper
    <3> QED
      BY <1>1, <2>1, <3>1 DEF NothingLost, Served
  <2>2. CASE server = "modbus"
    <3>1. (\A m \in 1 .. Handled : Conforming(script[m][1]) /\ script[m][1].fun # "unknown") =>
              \A m \in 1 .. Handled : Proper(m)
      BY <2>2 DEF Proper
    <3> QED
      BY <1>1, <2>2, <3>1 DEF NothingLost, Served
  <2> QED
    BY <1>0, <2>1, <2>2
<1>2. Between
  BY <1>0, <1>1 DEF LostInv, Good, IsoPlaces, ModbusPlaces
<1>3. PICK a \in 1 .. Len(script) + 1 : Begins(a)
  BY <1>2 DEF Between
<1>4. a \in Nat
  BY <1>0, ScriptShape DEF Line, ScriptOK
<1>5. AtStart /\ Handled = a - 1
  BY <1>0, <1>1, <1>3, <1>4, HandledAt DEF Begins
<1> QED
  BY <1>3, <1>5 DEF Begins

\* However the bytes of well-formed requests are cut into pieces or joined, a
\* worker that is back at the start of its loop stands at the start of a message
\* and has performed or answered all the requests before it, as long as it has
\* thrown nothing away.
THEOREM NothingIsLost == FairSpec => []NothingLost
<1>1. Init => LostInv
  BY LostInit
<1>2. LostInv /\ [Next]_vars => LostInv'
  BY LostStep
<1>3. LostInv => NothingLost
  BY LostStates
<1> QED
  BY <1>1, <1>2, <1>3, PTL DEF FairSpec
==============================================================================
