-------------------------- MODULE AreaAccessProofs --------------------------
(***************************************************************************)
(* Proofs about AreaAccess, for any workers, areas and requests: copies    *)
(* under a critical section are whole, and items are reported as answered. *)
(***************************************************************************)
EXTENDS AreaAccess, SequenceTheorems, TLAPS

-----------------------------------------------------------------------------
(* The inductive invariant *)

AtItem == {"item", "enter", "copy", "leave", "load", "store"}

Shape ==
    /\ DOMAIN mem = Areas /\ \A a \in Areas : DOMAIN mem[a] = 0 .. AreaSize[a] - 1
    /\ DOMAIN cs = Areas /\ DOMAIN touched = Workers
    /\ DOMAIN pc = Workers /\ DOMAIN request = Workers
    /\ DOMAIN c = Workers /\ DOMAIN i = Workers /\ DOMAIN data = Workers
    /\ DOMAIN answer = Workers /\ DOMAIN events = Workers

\* A worker works on an item of its request; an idle one starts anew.
Located(w) ==
    /\ i[w] \in Nat
    /\ pc[w] # "idle" => request[w] \in S7Requests
    /\ pc[w] \in AtItem => c[w] \in 1 .. Len(Items(w))
    /\ pc[w] = "idle" => c[w] = 1
    /\ pc[w] \in {"idle", "item", "enter"} => i[w] = 0 /\ data[w] = <<>>

\* What is checked before the copy holds during it.
Fits(item) ==
    /\ item.area \in Areas
    /\ Start(item) \in Nat /\ Size(item) \in Nat
    /\ Start(item) + Size(item) <= AreaSize[item.area]

Checked(w) == pc[w] \in {"enter", "copy", "leave"} => Fits(Item(w))

\* Only one worker copies in an area: the one that is in its critical section.
Locked(w) == pc[w] \in {"copy", "leave"} => cs[Item(w).area] = w

Progress(w) ==
    /\ pc[w] = "copy" => i[w] < Size(Item(w))
    /\ pc[w] = "leave" => i[w] = Size(Item(w))

\* The bytes copied so far are those of the area, the touched ones excepted.
Copied(w, k) ==
    \/ Start(Item(w)) + k \in touched[w]
    \/ mem[Item(w).area][Start(Item(w)) + k] = IF Reading(w) THEN data[w][k + 1] ELSE Item(w).data

CopiedSoFar(w) ==
    pc[w] \in {"copy", "leave"} =>
        /\ Reading(w) => IsSequence(data[w]) /\ Len(data[w]) = i[w]
        /\ \A k \in 0 .. i[w] - 1 : Copied(w, k)

Copying(w) == Located(w) /\ Checked(w) /\ Locked(w) /\ Progress(w) /\ CopiedSoFar(w)

CInv == Shape /\ \A w \in S7Workers : Copying(w)

\* An item is answered when it is left behind, and reported at once if it is one
\* of several.
Reported(w) ==
    /\ IsSequence(answer[w])
    /\ pc[w] = "idle" => answer[w] = <<>> /\ events[w] = <<>>
    /\ pc[w] \in AtItem => Len(answer[w]) = c[w] - 1
    /\ pc[w] \in AtItem \cup {"send", "event"} => events[w] = IF Several(w) THEN answer[w] ELSE <<>>
    /\ pc[w] \in {"send", "event", "answered"} => Len(answer[w]) = Len(Items(w))
    /\ pc[w] = "event" => ~Several(w)
    /\ pc[w] = "answered" => events[w] = answer[w]

RInv == \A w \in S7Workers : Reported(w)

-----------------------------------------------------------------------------
(* Sequences *)

\* A sequence stays one, whatever is appended.
LEMMA AppendAny ==
    ASSUME NEW s, IsSequence(s), NEW e
    PROVE  /\ IsSequence(Append(s, e))
           /\ Len(Append(s, e)) = Len(s) + 1
           /\ \A k \in 1 .. Len(s) : Append(s, e)[k] = s[k]
           /\ Append(s, e)[Len(s) + 1] = e
<1> DEFINE S == {s[k] : k \in DOMAIN s} \cup {e}
           t == Append(s, e)
<1>1. s \in Seq(S) /\ e \in S
  BY DEF IsSequence
<1>2. /\ t \in Seq(S)
      /\ Len(t) = Len(s) + 1
      /\ \A k \in 1 .. Len(s) : t[k] = s[k]
      /\ t[Len(s) + 1] = e
  <2> HIDE DEF S
  <2> QED
    BY <1>1, AppendProperties
<1>3. t \in Seq({t[k] : k \in DOMAIN t})
  <2> HIDE DEF t, S
  <2> QED
    BY <1>2
<1> QED
  BY <1>2, <1>3 DEF IsSequence

\* The empty sequence is the only one of length zero.
LEMMA EmptySequence ==
    /\ IsSequence(<<>>) /\ Len(<<>>) = 0
    /\ \A s : IsSequence(s) => Len(s) \in Nat /\ (Len(s) = 0 <=> s = <<>>)
  BY EmptySeq DEF IsSequence

-----------------------------------------------------------------------------
(* Items *)

\* Size and address of an item are natural numbers, whatever was sent.
LEMMA ItemSize ==
    ASSUME NEW w \in S7Workers, request[w] \in S7Requests, c[w] \in 1 .. Len(Items(w))
    PROVE  /\ Size(Item(w)) \in Nat /\ Start(Item(w)) \in Nat
           /\ Len(Items(w)) \in Nat
<1>1. /\ Len(Items(w)) \in Nat
      /\ Item(w).wl \in DOMAIN Multiplier /\ Item(w).Start \in Nat /\ Item(w).Length \in Nat
  BY S7RequestsAssumption, EmptySequence DEF Items, Item
<1>2. Multiplier[Item(w).wl] \in {0, 1, 2}
  <2>1. \A wl \in {"bit", "byte", "word", "timer", "counter", "other"} : Multiplier[wl] \in {0, 1, 2}
    BY DEF Multiplier
  <2> QED
    BY <1>1, <2>1 DEF Multiplier
<1>3. Size(Item(w)) \in Nat
  <2>1. \A n \in Nat : 0 * n \in Nat /\ 1 * n \in Nat /\ 2 * n \in Nat
    OBVIOUS
  <2> QED
    BY <1>1, <1>2, <2>1 DEF Size
<1>4. Start(Item(w)) \in Nat
  <2>1. Item(w).Start \div 2 \in Nat /\ Item(w).Start \div 8 \in Nat
    BY <1>1
  <2> QED
    BY <2>1 DEF Start
<1> QED
  BY <1>1, <1>3, <1>4

\* What ReadArea or WriteArea accepts lies inside its area.
LEMMA AcceptedFits ==
    ASSUME NEW w \in S7Workers, request[w] \in S7Requests, c[w] \in 1 .. Len(Items(w)), Code(w) = "ok"
    PROVE  Fits(Item(w))
<1>1. Item(w).area \in Areas /\ Placed(Item(w))
  <2>1. CASE Reading(w)
    BY <2>1 DEF Code, ReadCode
  <2>2. CASE ~Reading(w)
    BY <2>2 DEF Code, WriteCode
  <2> QED
    BY <2>1, <2>2
<1> QED
  BY <1>1, ItemSize DEF Fits, Placed

-----------------------------------------------------------------------------
(* What a step leaves to the other workers *)

\* The worker itself stands still.
Same(v) ==
    /\ pc'[v] = pc[v] /\ request'[v] = request[v] /\ c'[v] = c[v] /\ i'[v] = i[v] /\ data'[v] = data[v]

\* Its critical section stays its own, and a byte that changes is touched.
Keeps(v) ==
    pc[v] \in {"copy", "leave"} =>
        /\ cs'[Item(v).area] = cs[Item(v).area]
        /\ \A k \in touched[v] : k \in touched'[v]
        /\ \A k \in DOMAIN mem[Item(v).area] :
              mem'[Item(v).area][k] = mem[Item(v).area][k] \/ k \in touched'[v]

LEMMA Undisturbed ==
    ASSUME NEW v \in S7Workers, Shape, Copying(v), Same(v), Keeps(v)
    PROVE  Copying(v)'
<1>1. Item(v)' = Item(v) /\ Items(v)' = Items(v) /\ Reading(v)' = Reading(v)
  BY DEF Same, Item, Items, Reading
<1>2. Located(v)' /\ Checked(v)' /\ Locked(v)' /\ Progress(v)'
  BY <1>1 DEF Copying, Located, Checked, Locked, Progress, Same, Keeps, AtItem
<1>3. CopiedSoFar(v)'
  <2> SUFFICES ASSUME pc[v] \in {"copy", "leave"}, NEW k \in 0 .. i[v] - 1
               PROVE  Copied(v, k)'
    BY <1>1 DEF Copying, CopiedSoFar, Same
  <2>1. Copied(v, k)
    BY DEF Copying, CopiedSoFar
  <2>2. /\ Item(v).area \in Areas
        /\ Start(Item(v)) + k \in 0 .. AreaSize[Item(v).area] - 1
    BY AreaSizeAssumption DEF Copying, Located, Checked, Fits, Progress, Areas
  <2>3. \/ mem'[Item(v).area][Start(Item(v)) + k] = mem[Item(v).area][Start(Item(v)) + k]
        \/ Start(Item(v)) + k \in touched'[v]
    BY <2>2 DEF Keeps, Shape
  <2>4. Start(Item(v)) + k \in touched[v] => Start(Item(v)) + k \in touched'[v]
    BY DEF Keeps
  <2> QED
    BY <1>1, <2>1, <2>3, <2>4 DEF Copied, Same
<1> QED
  BY <1>2, <1>3 DEF Copying

\* A store past the lock touches what it changes.
LEMMA StoreKeeps ==
    ASSUME Shape, NEW u, NEW a, NEW at, NEW byte, Store(u, a, at, byte)
    PROVE  /\ DOMAIN mem' = Areas /\ \A b \in Areas : DOMAIN mem'[b] = 0 .. AreaSize[b] - 1
           /\ DOMAIN touched' = Workers
           /\ cs' = cs
           /\ \A v \in S7Workers : Copying(v) => Keeps(v)
<1>1. mem' = [mem EXCEPT ![a][at] = byte] /\ cs' = cs
      /\ touched' = [v \in Workers |-> IF cs[a] = v THEN touched[v] \cup {at} ELSE touched[v]]
  BY DEF Store
<1>2. DOMAIN mem' = Areas
  BY <1>1 DEF Shape
<1>3. \A b \in Areas : /\ DOMAIN mem'[b] = DOMAIN mem[b]
                       /\ \A k \in DOMAIN mem[b] : mem'[b][k] = mem[b][k] \/ (b = a /\ k = at)
  BY <1>1 DEF Shape
<1>4. ASSUME NEW v \in S7Workers, Copying(v) PROVE Keeps(v)
  <2> SUFFICES ASSUME pc[v] \in {"copy", "leave"}
               PROVE  Keeps(v)
    BY DEF Keeps
  <2>1. Item(v).area \in Areas /\ cs[Item(v).area] = v /\ v \in Workers
    BY <1>4 DEF Copying, Checked, Fits, Locked, Workers
  <2>2. \A k \in touched[v] : k \in touched'[v]
    BY <1>1, <2>1
  <2>3. Item(v).area = a => at \in touched'[v]
    BY <1>1, <2>1
  <2> QED
    BY <1>1, <1>3, <2>1, <2>2, <2>3 DEF Keeps
<1> QED
  BY <1>1, <1>2, <1>3, <1>4 DEF Shape

-----------------------------------------------------------------------------
(* Every step keeps the invariant: one lemma for each action or group *)

\* The rest of the workers, for a step of w that leaves all areas alone.
LEMMA AreasAlone ==
    ASSUME CInv, areas' = areas, NEW w,
           \A v \in S7Workers \ {w} : Same(v), w \in S7Workers => Copying(w)'
    PROVE  \A v \in S7Workers : Copying(v)'
<1> SUFFICES ASSUME NEW v \in S7Workers, v # w
             PROVE  Copying(v)'
  OBVIOUS
<1>1. Keeps(v)
  BY DEF areas, Keeps
<1> QED
  BY <1>1, Undisturbed DEF CInv

\* Both kinds of workers are workers.
LEMMA MembersAreWorkers == \A v : v \in S7Workers \/ v \in ModbusWorkers => v \in Workers
  BY DEF Workers

\* The worker that begins an item, or has answered the last one.
LEMMA FinishKeeps ==
    ASSUME CInv, NEW w \in S7Workers, pc[w] \in AtItem, NEW code, Finish(w, code)
    PROVE  Located(w)' /\ Copying(w)' /\ \A v \in S7Workers \ {w} : Same(v)
<1>1. Located(w) /\ w \in Workers /\ request[w] \in S7Requests /\ c[w] \in 1 .. Len(Items(w))
  BY MembersAreWorkers DEF CInv, Copying, Located, AtItem
<1>2. /\ pc'[w] = IF c[w] < Len(Items(w)) THEN "item" ELSE "send"
      /\ c'[w] = c[w] + 1 /\ i'[w] = 0 /\ data'[w] = <<>> /\ request' = request
  BY <1>1 DEF Finish, Goto, CInv, Shape
<1>3. Items(w)' = Items(w) /\ Len(Items(w)) \in Nat
  BY <1>1, <1>2, ItemSize DEF Items
<1>4. Located(w)'
  BY <1>1, <1>2, <1>3 DEF Located, AtItem
<1>5. Copying(w)'
  BY <1>2, <1>4 DEF Copying, Checked, Locked, Progress, CopiedSoFar
<1>6. \A v \in S7Workers \ {w} : Same(v)
  BY MembersAreWorkers DEF Finish, Goto, CInv, Shape, Same
<1> QED
  BY <1>4, <1>5, <1>6

\* An item that is refused touches no area.
LEMMA RefuseItemKeeps ==
    ASSUME CInv, NEW w \in S7Workers, RefuseItem(w)
    PROVE  CInv'
<1>1. pc[w] \in AtItem /\ Finish(w, Code(w)) /\ areas' = areas
  BY DEF RefuseItem, AtItem, areas
<1>2. \A v \in S7Workers : Copying(v)'
  BY <1>1, FinishKeeps, AreasAlone
<1>3. Shape'
  BY <1>1 DEF CInv, Shape, Finish, Goto, areas
<1> QED
  BY <1>2, <1>3 DEF CInv

\* An item that is accepted fits into its area.
LEMMA AcceptItemKeeps ==
    ASSUME CInv, NEW w \in S7Workers, AcceptItem(w)
    PROVE  CInv'
<1>1. /\ w \in Workers /\ Located(w) /\ pc[w] = "item" /\ Code(w) = "ok"
      /\ areas' = areas /\ local' = local
      /\ pc'[w] = (IF Item(w).wl = "bit" /\ ~Reading(w) THEN "load" ELSE "enter")
  BY MembersAreWorkers DEF AcceptItem, Goto, CInv, Shape, Copying
<1>2. Fits(Item(w))
  BY <1>1, AcceptedFits DEF Located, AtItem
<1>3. Located(w)'
  BY <1>1 DEF Located, AtItem, Items, local
<1>4. Checked(w)'
  BY <1>1, <1>2 DEF Checked, Item, Items, local, Fits, Start, Size, ByWord
<1>5. Copying(w)'
  BY <1>1, <1>3, <1>4 DEF Copying, Locked, Progress, CopiedSoFar
<1>6. \A v \in S7Workers \ {w} : Same(v)
  BY MembersAreWorkers DEF AcceptItem, Goto, local, CInv, Shape, Same
<1>7. Shape'
  BY DEF AcceptItem, Goto, local, areas, reply, CInv, Shape
<1> QED
  BY <1>1, <1>5, <1>6, <1>7, AreasAlone DEF CInv

\* Who enters finds the critical section empty: nobody else copies in the area.
LEMMA EnterKeeps ==
    ASSUME CInv, NEW w \in S7Workers, Enter(w)
    PROVE  CInv'
<1>1. /\ w \in Workers /\ Located(w) /\ Fits(Item(w)) /\ pc[w] = "enter"
      /\ mem' = mem /\ local' = local /\ cs[Item(w).area] = None
      /\ pc'[w] = IF Size(Item(w)) = 0 THEN "leave" ELSE "copy"
      /\ cs' = [cs EXCEPT ![Item(w).area] = w]
      /\ touched' = [touched EXCEPT ![w] = {}]
  BY MembersAreWorkers DEF Enter, Goto, CInv, Shape, Copying, Checked
<1>2. Item(w)' = Item(w) /\ Items(w)' = Items(w) /\ Reading(w)' = Reading(w)
  BY <1>1 DEF Item, Items, Reading, local
<1>3. Located(w)' /\ Checked(w)' /\ Locked(w)' /\ Progress(w)'
  <2>1. Located(w)'
    BY <1>1, <1>2 DEF Located, AtItem, local
  <2>2. Checked(w)'
    BY <1>1, <1>2 DEF Checked
  <2>3. Locked(w)'
    BY <1>1, <1>2 DEF Locked, Fits, CInv, Shape
  <2>4. Progress(w)'
    BY <1>1, <1>2 DEF Progress, Located, Fits, local
  <2> QED
    BY <2>1, <2>2, <2>3, <2>4
<1>4. CopiedSoFar(w)'
  <2>1. i'[w] = 0 /\ data'[w] = <<>>
    BY <1>1 DEF Located, local
  <2> QED
    BY <2>1, EmptySequence DEF CopiedSoFar
<1>5. ASSUME NEW v \in S7Workers, v # w PROVE Copying(v)'
  <2>1. Same(v)
    BY <1>1, <1>5, MembersAreWorkers DEF Enter, Goto, local, CInv, Shape, Same
  <2>2. Keeps(v)
    BY <1>1, <1>5, MembersAreWorkers, WorkersAssumption
    DEF Keeps, CInv, Shape, Copying, Locked, Checked, Fits
  <2> QED
    BY <2>1, <2>2, Undisturbed DEF CInv
<1>6. Shape'
  BY <1>1 DEF Enter, Goto, local, reply, CInv, Shape
<1> QED
  BY <1>3, <1>4, <1>5, <1>6 DEF CInv, Copying

\* One more byte is copied; the copies of others are in other areas.
LEMMA CopyByteKeeps ==
    ASSUME CInv, NEW w \in S7Workers, CopyByte(w)
    PROVE  CInv'
<1> DEFINE at == Start(Item(w)) + i[w]
           a == Item(w).area
<1>1. /\ w \in Workers /\ Located(w) /\ pc[w] = "copy" /\ Fits(Item(w)) /\ cs[a] = w
      /\ i[w] \in Nat /\ i[w] < Size(Item(w))
      /\ cs' = cs /\ touched' = touched /\ request' = request /\ c' = c
      /\ pc'[w] = (IF i[w] + 1 < Size(Item(w)) THEN "copy" ELSE "leave")
      /\ i'[w] = i[w] + 1
  BY MembersAreWorkers DEF CopyByte, Goto, CInv, Shape, Copying, Checked, Locked, Progress, Located
<1>2. Item(w)' = Item(w) /\ Items(w)' = Items(w) /\ Reading(w)' = Reading(w)
  BY <1>1 DEF Item, Items, Reading
<1>3. a \in Areas /\ at \in 0 .. AreaSize[a] - 1 /\ DOMAIN mem = Areas /\ at \in DOMAIN mem[a]
  BY <1>1, AreaSizeAssumption DEF Fits, CInv, Shape, Areas
<1>4. /\ Reading(w) => mem' = mem /\ data'[w] = Append(data[w], mem[a][at])
      /\ ~Reading(w) => mem' = [mem EXCEPT ![a][at] = Item(w).data]
  BY <1>1 DEF CopyByte, CInv, Shape
<1>5. Located(w)' /\ Checked(w)' /\ Locked(w)' /\ Progress(w)'
  <2>1. Located(w)'
    BY <1>1, <1>2 DEF Located, AtItem
  <2>2. Checked(w)' /\ Locked(w)'
    BY <1>1, <1>2 DEF Checked, Locked
  <2>3. Progress(w)'
    BY <1>1, <1>2 DEF Progress, Fits
  <2> QED
    BY <2>1, <2>2, <2>3
<1>6. CopiedSoFar(w)'
  <2>1. CASE Reading(w)
    <3>1. IsSequence(data[w]) /\ Len(data[w]) = i[w]
      BY <1>1, <2>1 DEF CInv, Copying, CopiedSoFar
    <3>2. IsSequence(data'[w]) /\ Len(data'[w]) = i[w] + 1
          /\ (\A k \in 0 .. i[w] - 1 : data'[w][k + 1] = data[w][k + 1])
          /\ data'[w][i[w] + 1] = mem[a][at]
      <4>1. \A k \in 0 .. i[w] - 1 : k + 1 \in 1 .. Len(data[w])
        BY <1>1, <3>1
      <4> DEFINE longer == Append(data[w], mem[a][at])
      <4>2. /\ IsSequence(longer) /\ Len(longer) = Len(data[w]) + 1
            /\ \A k \in 1 .. Len(data[w]) : longer[k] = data[w][k]
            /\ longer[Len(data[w]) + 1] = mem[a][at]
        BY <3>1, AppendAny
      <4>3. data'[w] = longer
        BY <1>4, <2>1
      <4> HIDE DEF longer
      <4> QED
        BY <3>1, <4>1, <4>2, <4>3
    <3>3. ASSUME NEW k \in 0 .. i[w] PROVE Copied(w, k)'
      <4>1. CASE k = i[w]
        BY <1>1, <1>2, <1>4, <2>1, <3>2, <4>1 DEF Copied
      <4>2. CASE k # i[w]
        <5>1. k \in 0 .. i[w] - 1
          BY <1>1, <4>2
        <5>2. Copied(w, k)
          BY <1>1, <5>1 DEF CInv, Copying, CopiedSoFar
        <5> QED
          BY <1>1, <1>2, <1>4, <2>1, <3>2, <5>1, <5>2 DEF Copied
      <4> QED
        BY <4>1, <4>2
    <3> QED
      BY <1>1, <3>2, <3>3 DEF CopiedSoFar
  <2>2. CASE ~Reading(w)
    <3>1. mem'[a][at] = Item(w).data /\ \A k \in DOMAIN mem[a] : k # at => mem'[a][k] = mem[a][k]
      BY <1>3, <1>4, <2>2
    <3>2. ASSUME NEW k \in 0 .. i[w] PROVE Copied(w, k)'
      <4>1. CASE k = i[w]
        BY <1>2, <2>2, <3>1, <4>1 DEF Copied
      <4>2. CASE k # i[w]
        <5>1. k \in 0 .. i[w] - 1
          BY <1>1, <4>2
        <5>2. Copied(w, k)
          BY <1>1, <5>1 DEF CInv, Copying, CopiedSoFar
        <5>3. Start(Item(w)) + k \in DOMAIN mem[a] /\ Start(Item(w)) + k # at
          BY <1>1, <1>3, <5>1, AreaSizeAssumption DEF Fits, CInv, Shape, Areas
        <5> QED
          BY <1>1, <1>2, <2>2, <3>1, <5>2, <5>3 DEF Copied
      <4> QED
        BY <4>1, <4>2
    <3> QED
      BY <1>1, <1>2, <2>2, <3>2 DEF CopiedSoFar
  <2> QED
    BY <2>1, <2>2
<1>7. ASSUME NEW v \in S7Workers, v # w PROVE Copying(v)'
  <2>1. Same(v)
    BY <1>1, <1>7, MembersAreWorkers DEF CopyByte, Goto, CInv, Shape, Same
  <2>2. Keeps(v)
    <3> SUFFICES ASSUME pc[v] \in {"copy", "leave"}
                 PROVE  Keeps(v)
      BY DEF Keeps
    <3>1. cs[Item(v).area] = v /\ Item(v).area \in Areas
      BY DEF CInv, Copying, Locked, Checked, Fits
    <3>2. Item(v).area # a
      BY <1>1, <1>7, <3>1
    <3>3. mem'[Item(v).area] = mem[Item(v).area]
      BY <1>3, <1>4, <3>1, <3>2
    <3> QED
      BY <1>1, <3>3 DEF Keeps
  <2> QED
    BY <2>1, <2>2, Undisturbed DEF CInv
<1>8. Shape'
  <2>1. DOMAIN mem' = Areas /\ \A b \in Areas : DOMAIN mem'[b] = DOMAIN mem[b]
    BY <1>3, <1>4
  <2> QED
    BY <1>1, <2>1 DEF CopyByte, Goto, reply, CInv, Shape
<1> QED
  BY <1>5, <1>6, <1>7, <1>8 DEF CInv, Copying

\* Who leaves takes nobody else's critical section away.
LEMMA LeaveKeeps ==
    ASSUME CInv, NEW w \in S7Workers, Leave(w)
    PROVE  CInv'
<1>1. /\ w \in Workers /\ Fits(Item(w)) /\ pc[w] \in AtItem /\ pc[w] = "leave"
      /\ cs[Item(w).area] = w /\ mem' = mem /\ Finish(w, "ok")
      /\ cs' = [cs EXCEPT ![Item(w).area] = None]
      /\ touched' = [touched EXCEPT ![w] = {}]
  BY MembersAreWorkers DEF Leave, CInv, Copying, Checked, Locked, AtItem
<1>2. Copying(w)' /\ \A v \in S7Workers \ {w} : Same(v)
  BY <1>1, FinishKeeps
<1>3. ASSUME NEW v \in S7Workers, v # w PROVE Copying(v)'
  <2>1. Keeps(v)
    BY <1>1, <1>3, MembersAreWorkers DEF Keeps, CInv, Shape, Copying, Locked, Checked, Fits
  <2> QED
    BY <1>2, <1>3, <2>1, Undisturbed DEF CInv
<1>4. Shape'
  BY <1>1 DEF Finish, Goto, CInv, Shape
<1> QED
  BY <1>2, <1>3, <1>4 DEF CInv

\* A worker on its way past the lock keeps its place in the request.
LEMMA LoadBitKeeps ==
    ASSUME CInv, NEW w \in S7Workers, LoadBit(w)
    PROVE  CInv'
<1>1. /\ w \in Workers /\ Located(w) /\ pc[w] = "load" /\ pc'[w] = "store" /\ areas' = areas
      /\ request' = request /\ c' = c /\ i' = i
  BY MembersAreWorkers DEF LoadBit, Goto, CInv, Shape, Copying
<1>2. Copying(w)'
  BY <1>1 DEF Copying, Located, Checked, Locked, Progress, CopiedSoFar, AtItem, Items
<1>3. \A v \in S7Workers \ {w} : Same(v)
  BY MembersAreWorkers DEF LoadBit, Goto, CInv, Shape, Same
<1>4. Shape'
  BY DEF LoadBit, Goto, areas, reply, CInv, Shape
<1> QED
  BY <1>1, <1>2, <1>3, <1>4, AreasAlone DEF CInv

\* The rest of the workers, for a step of w that stores past the lock.
LEMMA StoredPast ==
    ASSUME CInv, NEW w, NEW a, NEW at, NEW byte, Store(w, a, at, byte),
           \A v \in S7Workers \ {w} : Same(v), w \in S7Workers => Copying(w)'
    PROVE  \A v \in S7Workers : Copying(v)'
<1> SUFFICES ASSUME NEW v \in S7Workers, v # w
             PROVE  Copying(v)'
  OBVIOUS
<1>1. Keeps(v)
  BY StoreKeeps DEF CInv
<1> QED
  BY <1>1, Undisturbed DEF CInv

\* A bit that is stored past the lock becomes touched.
LEMMA StoreBitKeeps ==
    ASSUME CInv, NEW w \in S7Workers, StoreBit(w)
    PROVE  CInv'
<1> DEFINE byte == IF 0 \in Item(w).data THEN data[w][1] \cup {BitIndex(Item(w))}
                                         ELSE data[w][1] \ {BitIndex(Item(w))}
<1>1. pc[w] \in AtItem /\ Finish(w, "ok") /\ Store(w, Item(w).area, Start(Item(w)), byte)
  BY DEF StoreBit, AtItem
<1> HIDE DEF byte
<1>2. \A v \in S7Workers : Copying(v)'
  BY <1>1, FinishKeeps, StoredPast
<1>3. Shape'
  <2>1. /\ DOMAIN mem' = Areas /\ \A b \in Areas : DOMAIN mem'[b] = 0 .. AreaSize[b] - 1
        /\ DOMAIN touched' = Workers /\ cs' = cs
    BY <1>1, StoreKeeps DEF CInv
  <2> QED
    BY <1>1, <2>1 DEF Finish, Goto, CInv, Shape
<1> QED
  BY <1>2, <1>3 DEF CInv

\* What an S7 worker does outside of its items.
LEMMA OutsideKeeps ==
    ASSUME CInv, NEW w \in S7Workers,
           \/ \E length \in PduRequests : PerformFunctionNegotiate(w, length)
           \/ \E r \in S7Requests : Receive(w, r)
           \/ Send(w)
           \/ DoEvent(w)
    PROVE  CInv'
<1>1. /\ areas' = areas /\ c' = c /\ i' = i /\ data' = data
      /\ DOMAIN answer' = DOMAIN answer /\ DOMAIN events' = DOMAIN events
      /\ DOMAIN pc' = DOMAIN pc /\ DOMAIN request' = DOMAIN request
      /\ \A v \in Workers \ {w} : pc'[v] = pc[v] /\ request'[v] = request[v]
  BY DEF PerformFunctionNegotiate, Receive, Send, DoEvent, Goto, local, reply, CInv, Shape
<1>2. w \in Workers /\ Located(w) /\ Copying(w)
  BY MembersAreWorkers DEF CInv, Copying
<1>3. Copying(w)'
  <2>1. CASE \E length \in PduRequests : PerformFunctionNegotiate(w, length)
    BY <1>1, <1>2, <2>1
    DEF PerformFunctionNegotiate, local, Copying, Located, Checked, Locked, Progress, CopiedSoFar, AtItem
  <2>2. ASSUME NEW r \in S7Requests, Receive(w, r) PROVE Copying(w)'
    <3>1. /\ pc[w] = "idle" /\ request'[w] = r
          /\ pc'[w] = IF r.items = <<>> THEN "send" ELSE "item"
      BY <1>2, <2>2 DEF Receive, Goto, CInv, Shape
    <3>2. r.items # <<>> => 1 \in 1 .. Len(r.items)
      BY S7RequestsAssumption, EmptySequence
    <3> QED
      BY <1>1, <1>2, <3>1, <3>2
      DEF Copying, Located, Checked, Locked, Progress, CopiedSoFar, AtItem, Items
  <2>3. CASE Send(w) \/ DoEvent(w)
    <3>1. request' = request /\ pc[w] # "idle" /\ pc'[w] \in {"event", "answered"}
      BY <1>2, <2>3 DEF Send, DoEvent, Goto, local, CInv, Shape
    <3> QED
      BY <1>1, <1>2, <3>1 DEF Copying, Located, Checked, Locked, Progress, CopiedSoFar, AtItem
  <2> QED
    BY <2>1, <2>2, <2>3
<1>4. \A v \in S7Workers \ {w} : Same(v)
  BY <1>1, MembersAreWorkers DEF Same
<1>5. Shape'
  BY <1>1 DEF areas, CInv, Shape
<1> QED
  BY <1>1, <1>3, <1>4, <1>5, AreasAlone DEF CInv

\* A Modbus worker disturbs no copy: it stores, but the bytes become touched.
LEMMA ModbusKeeps ==
    ASSUME CInv, NEW w \in ModbusWorkers,
           (\E r \in ModbusRequests : PerformFunction(w, r)) \/ ModbusStep(w)
    PROVE  CInv'
<1>1. w \in Workers /\ w \notin S7Workers
  BY MembersAreWorkers, WorkersAssumption
<1>2. CASE CopyBitStore(w) \/ Memcpy(w)
  <2>1. PICK a, at, byte : Store(w, a, at, byte)
    BY <1>2 DEF CopyBitStore, Memcpy
  <2>2. \A v \in S7Workers \ {w} : Same(v)
    BY <1>2, MembersAreWorkers DEF CopyBitStore, Memcpy, NextUnit, Goto, CInv, Shape, Same
  <2>3. /\ DOMAIN mem' = Areas /\ \A b \in Areas : DOMAIN mem'[b] = 0 .. AreaSize[b] - 1
        /\ DOMAIN touched' = Workers /\ cs' = cs
    BY <2>1, StoreKeeps DEF CInv
  <2>4. Shape'
    BY <1>2, <2>3 DEF CopyBitStore, Memcpy, NextUnit, Goto, reply, CInv, Shape
  <2> QED
    BY <1>1, <2>1, <2>2, <2>4, StoredPast DEF CInv
<1>3. CASE (\E r \in ModbusRequests : PerformFunction(w, r)) \/ CopyBitLoad(w) \/ SendBuffer(w)
  <2>1. areas' = areas /\ \A v \in S7Workers \ {w} : Same(v)
    BY <1>3, MembersAreWorkers
    DEF PerformFunction, CopyBitLoad, SendBuffer, Goto, local, CInv, Shape, Same
  <2>2. Shape'
    BY <1>3 DEF PerformFunction, CopyBitLoad, SendBuffer, Goto, local, areas, reply, CInv, Shape
  <2> QED
    BY <1>1, <2>1, <2>2, AreasAlone DEF CInv
<1> QED
  BY <1>2, <1>3 DEF ModbusStep

\* The handler returns, and its worker starts anew.
LEMMA ReturnKeeps ==
    ASSUME CInv, NEW w \in Workers, Return(w)
    PROVE  CInv'
<1>1. areas' = areas /\ \A v \in S7Workers \ {w} : Same(v)
  BY MembersAreWorkers DEF Return, Goto, CInv, Shape, Same
<1>2. pc'[w] = "idle" /\ c'[w] = 1 /\ i'[w] = 0 /\ data'[w] = <<>>
  BY DEF Return, Goto, CInv, Shape
<1>3. Copying(w)'
  BY <1>2 DEF Copying, Located, Checked, Locked, Progress, CopiedSoFar, AtItem
<1>4. Shape'
  BY <1>1 DEF Return, Goto, areas, CInv, Shape
<1> QED
  BY <1>1, <1>3, <1>4, AreasAlone DEF CInv

\* The invariant of the copies holds in every state: what is checked stays checked,
\* and a worker that copies is alone in its critical section (s7_server.cpp:431).
THEOREM CopyingInductive == Spec => []CInv
<1>1. Init => CInv
  <2> SUFFICES ASSUME Init PROVE CInv
    OBVIOUS
  <2>1. Shape
    BY DEF Init, Shape
  <2>2. ASSUME NEW w \in S7Workers PROVE Copying(w)
    BY MembersAreWorkers
    DEF Init, Copying, Located, Checked, Locked, Progress, CopiedSoFar, AtItem
  <2> QED
    BY <2>1, <2>2 DEF CInv
<1>2. CInv /\ [Next]_vars => CInv'
  <2> SUFFICES ASSUME CInv, [Next]_vars PROVE CInv'
    OBVIOUS
  <2>1. ASSUME NEW w \in S7Workers, S7Step(w) \/ Enter(w) PROVE CInv'
    BY <2>1, RefuseItemKeeps, AcceptItemKeeps, EnterKeeps, CopyByteKeeps, LeaveKeeps,
       LoadBitKeeps, StoreBitKeeps, OutsideKeeps DEF S7Step
  <2>2. CASE UNCHANGED vars
    <3>1. \A v \in S7Workers : Same(v) /\ Keeps(v)
      BY <2>2 DEF vars, Same, Keeps
    <3>2. Shape'
      BY <2>2 DEF vars, CInv, Shape
    <3> QED
      BY <3>1, <3>2, Undisturbed DEF CInv
  <2> QED
    BY <2>1, <2>2, OutsideKeeps, ModbusKeeps, ReturnKeeps DEF Next
<1> QED
  BY <1>1, <1>2, PTL DEF Spec

-----------------------------------------------------------------------------
(* Copies are whole *)

\* When it leaves the critical section, an S7 worker has read what the area
\* holds, or the area holds what it has written, but for the bytes that were
\* stored past the lock: ReadArea and WriteArea keep copies apart for any
\* number of workers, any areas and any requests (s7_server.cpp:431 and :675).
THEOREM WholeCopies == Spec => []CopyIsWhole
<1>1. CInv => CopyIsWhole
  BY DEF CInv, Copying, CopyIsWhole, Progress, CopiedSoFar, Copied
<1> QED
  BY <1>1, CopyingInductive, PTL

-----------------------------------------------------------------------------
(* Items are reported as they are answered *)

\* A worker that is left alone has reported what it had.
LEMMA ReportKept ==
    ASSUME NEW v \in S7Workers, Reported(v), pc'[v] = pc[v], request'[v] = request[v], c'[v] = c[v],
           answer'[v] = answer[v], events'[v] = events[v]
    PROVE  Reported(v)'
  BY DEF Reported, Several, Items, AtItem

\* The code that goes into the answer goes into the event of one item of several.
LEMMA FinishReports ==
    ASSUME CInv, NEW w \in S7Workers, Reported(w), pc[w] \in AtItem, NEW code, Finish(w, code)
    PROVE  Reported(w)'
<1>1. w \in Workers /\ request[w] \in S7Requests /\ c[w] \in 1 .. Len(Items(w))
  BY MembersAreWorkers DEF CInv, Copying, Located, AtItem
<1>2. /\ pc'[w] = IF c[w] < Len(Items(w)) THEN "item" ELSE "send"
      /\ c'[w] = c[w] + 1 /\ request' = request
      /\ answer'[w] = Append(answer[w], code)
      /\ events'[w] = IF Several(w) THEN Append(events[w], code) ELSE events[w]
  BY <1>1 DEF Finish, Goto, CInv, Shape
<1>3. Items(w)' = Items(w) /\ Several(w)' = Several(w) /\ Len(Items(w)) \in Nat
  BY <1>1, <1>2, ItemSize DEF Items, Several
<1>4. IsSequence(answer[w]) /\ Len(answer[w]) = c[w] - 1
      /\ events[w] = IF Several(w) THEN answer[w] ELSE <<>>
  BY DEF Reported
<1>5. IsSequence(answer'[w]) /\ Len(answer'[w]) = c[w]
  <2> DEFINE longer == Append(answer[w], code)
  <2>1. IsSequence(longer) /\ Len(longer) = Len(answer[w]) + 1
    BY <1>4, AppendAny
  <2> HIDE DEF longer
  <2>2. answer'[w] = longer
    BY <1>2 DEF longer
  <2> QED
    BY <1>1, <1>3, <1>4, <2>1, <2>2
<1>6. events'[w] = IF Several(w) THEN answer'[w] ELSE <<>>
  BY <1>2, <1>4
<1> QED
  BY <1>1, <1>2, <1>3, <1>5, <1>6 DEF Reported, AtItem

\* The answer has been sent: what of it has been reported at once is not
\* reported again.
LEMMA SendReports ==
    ASSUME CInv, NEW w \in S7Workers, Reported(w), Send(w)
    PROVE  Reported(w)'
<1>1. /\ w \in Workers /\ request[w] \in S7Requests /\ pc[w] = "send"
      /\ request' = request /\ answer' = answer /\ events' = events
      /\ pc'[w] = IF Len(Items(w)) = 1 THEN "event" ELSE "answered"
  BY MembersAreWorkers DEF Send, Goto, local, reply, CInv, Shape, Copying, Located
<1>2. Items(w)' = Items(w) /\ Several(w)' = Several(w) /\ Len(Items(w)) \in Nat
  BY <1>1, S7RequestsAssumption, EmptySequence DEF Items, Several
<1>3. Len(answer[w]) = Len(Items(w)) /\ IsSequence(answer[w])
      /\ events[w] = IF Several(w) THEN answer[w] ELSE <<>>
  BY <1>1 DEF Reported
<1>4. Len(Items(w)) = 0 => answer[w] = <<>>
  BY <1>3, EmptySequence
<1>5. Len(Items(w)) = 1 => ~Several(w)
  BY DEF Several
<1>6. Len(Items(w)) # 1 => events[w] = answer[w]
  <2>1. Len(Items(w)) # 1 => Several(w) \/ Len(Items(w)) = 0
    <3>1. Len(Items(w)) \in Nat
      BY <1>2
    <3>2. \A n \in Nat : n > 1 \/ n = 1 \/ n = 0
      OBVIOUS
    <3> QED
      BY <3>1, <3>2 DEF Several
  <2>2. Several(w) => events[w] = answer[w]
    BY <1>3
  <2>3. Len(Items(w)) = 0 => ~Several(w) /\ answer[w] = <<>>
    BY <1>4 DEF Several
  <2> QED
    BY <1>3, <2>1, <2>2, <2>3
<1> QED
  BY <1>1, <1>2, <1>3, <1>5, <1>6 DEF Reported, AtItem

\* The only item of a request is reported after the answer.
LEMMA DoEventReports ==
    ASSUME CInv, NEW w \in S7Workers, Reported(w), DoEvent(w)
    PROVE  Reported(w)'
<1>1. /\ w \in Workers /\ pc[w] = "event" /\ pc'[w] = "answered"
      /\ request' = request /\ answer' = answer
      /\ events'[w] = events[w] \o answer[w]
  BY MembersAreWorkers DEF DoEvent, Goto, local, CInv, Shape
<1>2. IsSequence(answer[w]) /\ events[w] = <<>> /\ Len(answer[w]) = Len(Items(w))
  BY <1>1 DEF Reported
<1>3. events'[w] = answer[w]
  <2>1. <<>> \o answer[w] = answer[w]
    BY <1>2, ConcatEmptySeq DEF IsSequence
  <2> QED
    BY <1>1, <1>2, <2>1
<1> QED
  BY <1>1, <1>2, <1>3 DEF Reported, AtItem, Items

\* The steps of an S7 worker that answer and report nothing.
LEMMA SilentStep ==
    ASSUME CInv, NEW w \in S7Workers, Reported(w),
           AcceptItem(w) \/ Enter(w) \/ CopyByte(w) \/ LoadBit(w)
    PROVE  Reported(w)'
<1>1. /\ pc[w] \in AtItem /\ pc'[w] \in AtItem
      /\ request' = request /\ c' = c /\ answer' = answer /\ events' = events
  BY MembersAreWorkers
  DEF AcceptItem, Enter, CopyByte, LoadBit, Goto, local, reply, CInv, Shape, AtItem
<1> QED
  BY <1>1 DEF Reported, Several, Items, AtItem

\* No step reports for another worker.
LEMMA OthersReport ==
    ASSUME CInv, RInv, NEW w \in Workers,
           \/ w \in S7Workers /\ (S7Step(w) \/ Enter(w))
           \/ w \in S7Workers /\ \E length \in PduRequests : PerformFunctionNegotiate(w, length)
           \/ w \in S7Workers /\ \E r \in S7Requests : Receive(w, r)
           \/ w \in ModbusWorkers /\ \E r \in ModbusRequests : PerformFunction(w, r)
           \/ w \in ModbusWorkers /\ ModbusStep(w)
           \/ Return(w)
    PROVE  \A v \in S7Workers \ {w} : Reported(v)'
<1> SUFFICES ASSUME NEW v \in S7Workers \ {w}
             PROVE  Reported(v)'
  OBVIOUS
<1>1. v \in Workers /\ Reported(v)
  BY MembersAreWorkers DEF RInv
<1> DEFINE Left == /\ pc'[v] = pc[v] /\ request'[v] = request[v] /\ c'[v] = c[v]
                   /\ answer'[v] = answer[v] /\ events'[v] = events[v]
<1>2. CASE w \in S7Workers /\ (S7Step(w) \/ Enter(w))
  <2>1. CASE RefuseItem(w) \/ Leave(w) \/ StoreBit(w)
    <3>1. PICK code : Finish(w, code)
      BY <2>1 DEF RefuseItem, Leave, StoreBit
    <3>2. Left
      BY <1>1, <3>1 DEF Finish, Goto, CInv, Shape
    <3> QED
      BY <1>1, <3>2, ReportKept
  <2>2. CASE AcceptItem(w) \/ Enter(w) \/ CopyByte(w) \/ LoadBit(w) \/ Send(w) \/ DoEvent(w)
    <3>1. Left
      BY <1>1, <2>2
      DEF AcceptItem, Enter, CopyByte, LoadBit, Send, DoEvent, Goto, local, reply, CInv, Shape
    <3> QED
      BY <1>1, <3>1, ReportKept
  <2> QED
    BY <1>2, <2>1, <2>2 DEF S7Step
<1>3. CASE \/ \E length \in PduRequests : PerformFunctionNegotiate(w, length)
           \/ \E r \in S7Requests : Receive(w, r)
           \/ \E r \in ModbusRequests : PerformFunction(w, r)
           \/ Return(w)
  <2>1. Left
    BY <1>1, <1>3
    DEF PerformFunctionNegotiate, Receive, PerformFunction, Return, Goto, local, reply, CInv, Shape
  <2> QED
    BY <1>1, <2>1, ReportKept
<1>4. CASE ModbusStep(w)
  <2>1. Left
    BY <1>1, <1>4
    DEF ModbusStep, CopyBitLoad, CopyBitStore, Memcpy, SendBuffer, NextUnit, Goto, local, reply,
        CInv, Shape
  <2> QED
    BY <1>1, <2>1, ReportKept
<1> QED
  BY <1>2, <1>3, <1>4

\* Every step keeps what has been reported equal to what was answered.
LEMMA RInvStep == CInv /\ RInv /\ [Next]_vars => RInv'
<1> SUFFICES ASSUME CInv, RInv, [Next]_vars PROVE RInv'
  OBVIOUS
<1>1. ASSUME NEW w \in S7Workers, S7Step(w) \/ Enter(w) PROVE RInv'
  <2>1. w \in Workers /\ Reported(w)
    BY MembersAreWorkers DEF RInv
  <2>2. CASE RefuseItem(w) \/ Leave(w) \/ StoreBit(w)
    <3>1. pc[w] \in AtItem /\ \E code : Finish(w, code)
      BY <2>2 DEF RefuseItem, Leave, StoreBit, AtItem
    <3> QED
      BY <1>1, <2>1, <3>1, FinishReports, OthersReport DEF RInv
  <2>3. CASE AcceptItem(w) \/ Enter(w) \/ CopyByte(w) \/ LoadBit(w) \/ Send(w) \/ DoEvent(w)
    BY <1>1, <2>1, <2>3, SilentStep, SendReports, DoEventReports, OthersReport DEF RInv
  <2> QED
    BY <1>1, <2>2, <2>3 DEF S7Step
<1>2. ASSUME NEW w \in S7Workers, NEW length \in PduRequests, PerformFunctionNegotiate(w, length)
      PROVE  RInv'
  <2>1. Reported(w)'
    BY <1>2, ReportKept DEF RInv, PerformFunctionNegotiate, local, reply
  <2> QED
    BY <1>2, <2>1, OthersReport, MembersAreWorkers DEF RInv
<1>3. ASSUME NEW w \in S7Workers, NEW r \in S7Requests, Receive(w, r) PROVE RInv'
  <2>1. /\ w \in Workers /\ Located(w) /\ Reported(w) /\ pc[w] = "idle"
        /\ request'[w] = r /\ c' = c /\ answer' = answer /\ events' = events
        /\ pc'[w] = IF r.items = <<>> THEN "send" ELSE "item"
    BY <1>3, MembersAreWorkers DEF Receive, Goto, reply, RInv, CInv, Shape, Copying
  <2>2. answer[w] = <<>> /\ events[w] = <<>> /\ c[w] = 1
    BY <2>1 DEF Reported, Located
  <2>3. Reported(w)'
    BY <2>1, <2>2, EmptySequence DEF Reported, AtItem, Several, Items
  <2> QED
    BY <1>3, <2>1, <2>3, OthersReport DEF RInv
<1>4. ASSUME NEW w \in ModbusWorkers,
             (\E r \in ModbusRequests : PerformFunction(w, r)) \/ ModbusStep(w)
      PROVE  RInv'
  BY <1>4, OthersReport, MembersAreWorkers, WorkersAssumption DEF RInv
<1>5. ASSUME NEW w \in Workers, Return(w) PROVE RInv'
  <2>1. pc'[w] = "idle" /\ answer'[w] = <<>> /\ events'[w] = <<>>
    BY <1>5 DEF Return, Goto, CInv, Shape
  <2>2. Reported(w)'
    BY <2>1, EmptySequence DEF Reported, AtItem
  <2> QED
    BY <1>5, <2>2, OthersReport DEF RInv
<1>6. CASE UNCHANGED vars
  BY <1>6, ReportKept DEF vars, RInv
<1> QED
  BY <1>1, <1>2, <1>3, <1>4, <1>5, <1>6 DEF Next

\* Each item of a request is reported once and as it was answered, whether it
\* is one of several (s7_server.cpp:529 and :730) or a single one, whose event
\* comes after the answer (:549 and :746).
THEOREM ReportsMatch == Spec => []ReportedAsAnswered
<1>1. Init => RInv
  BY MembersAreWorkers, EmptySequence DEF Init, RInv, Reported, AtItem
<1>2. RInv => ReportedAsAnswered
  BY DEF RInv, Reported, ReportedAsAnswered
<1> QED
  BY <1>1, <1>2, RInvStep, CopyingInductive, PTL DEF Spec
=============================================================================
