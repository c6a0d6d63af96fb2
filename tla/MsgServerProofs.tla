-------------------------- MODULE MsgServerProofs ---------------------------
(***************************************************************************)
(* Proofs about MsgServer, for any connections, any length of the workers  *)
(* list, any limit of clients, and threads of any speed.                   *)
(***************************************************************************)
EXTENDS MsgServer, FiniteSetTheorems, WellFoundedInduction, TLAPS

-----------------------------------------------------------------------------
(* The inductive invariant *)

\* The thread runs code that CSList protects.
InList(t) ==
    \/ t = Main /\ pc[t] = "killing"
    \/ t = Listener /\ pc[t] \in {"place", "count", "start", "handle", "added",
                                  "noRoom", "unlock"}
    \/ t \in Conns /\ pc[t] \in {"clear", "decrement", "unlock"}

\* Who is inside CSList holds it, and it is held by who is inside, or by the
\* listener that was killed there, or by the process that crashed.
ListLock ==
    /\ \A t \in Threads : InList(t) => CSList = t
    /\ CSList \in Conns => InList(CSList)
    /\ CSList = Main => pc[Main] \in {"killing", "crashed"}
    /\ CSList = Listener => InList(Listener) \/ pc[Listener] = "killed"

\* The listener has ended when the main thread looks at the workers.
Joined ==
    /\ pc[Main] \in {"terminateAll", "terminating", "waiting", "killAll",
          "killing", "dropped", "reset", "stopped", "crashed"}
         => pc[Listener] \in {"gone", "killed"}
    /\ pc[Main] \in {"idle", "deleted"} => pc[Listener] \in {"off", "gone", "killed"}
    /\ pc[Main] \in {"init", "cannotStart"} => pc[Listener] = "off"
    /\ pc[Main] = "running" /\ Status # "SrvRunning" => pc[Listener] = "off"
    /\ pc[Listener] = "off" => \A c \in Conns : pc[c] = "away"

\* What the listener knows of the connection it is dealing with.
Receiving ==
    /\ pc[Listener] \in {"accepted", "lock", "place"} =>
          incoming \in Conns /\ pc[incoming] = "away"
    /\ pc[Listener] \in {"count", "start"} =>
          incoming \in Conns /\ pc[incoming] = "created"
    /\ pc[Listener] \in {"lock", "place"} => CanAccept
    /\ pc[Listener] = "place" => ~Full

\* Each attached worker is in its slot, and whoever is in a slot knows it.
SlotsOwned ==
    /\ \A c \in Conns : pc[c] \in Attached => Workers[Index[c]] = c
    /\ \A i \in Slots : Workers[i] # Nobody =>
          /\ Index[Workers[i]] = i
          /\ pc[Workers[i]] \notin {"away", "refused"}

\* ClientsCount against the list, as far as the code inside CSList has got.
FreeBalance ==
    CSList = Nobody /\ pc[Main] \notin {"dropped", "reset"}
        => ClientsCount = Cardinality(Occupied)

ListenerBalance ==
    InList(Listener) => ClientsCount = IF pc[Listener] = "count"
                                       THEN Cardinality(Occupied) - 1
                                       ELSE Cardinality(Occupied)

WorkerBalance ==
    \A c \in Conns : InList(c) => ClientsCount = IF pc[c] = "decrement"
                                                 THEN Cardinality(Occupied) + 1
                                                 ELSE Cardinality(Occupied)

\* KillAll has emptied the slots behind it, and in the end all of them.
Emptied ==
    /\ pc[Main] = "killing" => \A i \in Slots : i < k => Workers[i] = Nobody
    /\ pc[Main] \in {"dropped", "reset"} /\ CSList # Listener =>
          /\ Occupied = {}
          /\ \A c \in Conns : pc[c] # "decrement"

Balance == FreeBalance /\ ListenerBalance /\ WorkerBalance /\ WithinCapacity /\ Emptied

\* TerminateAll holds a pointer only within the bounds of its loop.
Sweeping == target # Nobody => pc[Main] \in {"terminating", "crashed"} /\ k < MaxWorkers

IInv == Sweeping /\ TypeOK /\ ListLock /\ Joined /\ Receiving /\ SlotsOwned /\ Balance

-----------------------------------------------------------------------------
(* The list *)

\* The list is finite; it is full when it holds MaxWorkers.
LEMMA ListSize ==
    /\ IsFiniteSet(Slots) /\ Cardinality(Slots) = MaxWorkers
    /\ IsFiniteSet(Occupied)
    /\ Cardinality(Occupied) \in 0 .. MaxWorkers
    /\ Cardinality(Occupied) = 0 <=> Occupied = {}
    /\ Cardinality(Occupied) = MaxWorkers => Full
<1>1. IsFiniteSet(Slots) /\ Cardinality(Slots) = MaxWorkers
  BY FS_Interval, SizesAssumption DEF Slots
<1>2. Occupied \in SUBSET Slots
  BY DEF Occupied
<1>3. IsFiniteSet(Occupied) /\ Cardinality(Occupied) <= MaxWorkers
      /\ (Cardinality(Slots) = Cardinality(Occupied) => Slots = Occupied)
  BY <1>1, <1>2, FS_Subset
<1>4. Cardinality(Occupied) \in Nat
  BY <1>3, FS_CardinalityType
<1> QED
  BY <1>1, <1>3, <1>4, FS_EmptySet, SizesAssumption DEF Full

\* FirstFree finds an empty slot whenever Full does not hold.
LEMMA FirstFreeIsFree ==
    ASSUME ~Full
    PROVE  FirstFree \in Slots /\ FirstFree \notin Occupied
<1> DEFINE Free == Slots \ Occupied
<1>1. Free # {} /\ Free \subseteq Nat
  BY SizesAssumption DEF Full, Slots, Occupied
<1>2. PICK i \in Free : \A j \in Free : <<j, i>> \notin OpToRel(<, Nat)
  BY <1>1, WFMin, NatLessThanWellFounded
<1>3. ASSUME NEW j \in Free PROVE i <= j
  <2>1. i \in Nat /\ j \in Nat
    BY <1>1
  <2>2. ~ (j < i)
    BY <2>1, <1>2 DEF OpToRel
  <2> QED
    BY <2>1, <2>2
<1> HIDE DEF Free
<1>4. \E m \in Free : \A j \in Free : m <= j
  BY <1>3
<1> USE DEF Free
<1> QED
  BY <1>4 DEF FirstFree

\* There is room for at least one client.
LEMMA CapacityType == Capacity \in 1 .. MaxWorkers
BY SizesAssumption DEF Capacity

\* pc is a function of the threads.
LEMMA LabelsType ==
    LabelsOK => pc \in [Threads -> MainLabels \cup ListenerLabels \cup WorkerLabels]
BY DEF LabelsOK, Threads

-----------------------------------------------------------------------------
(* The parts of the invariant are preserved, one lemma each and in it one *)
(* step per action.                                                       *)

\* Every thread stays at labels of its own.
LEMMA LabelsStep ==
  ASSUME IInv, [Next]_vars
  PROVE  LabelsOK'
<1> USE ThreadsAssumption, SizesAssumption, LabelsType DEF IInv, Goto, mainVars,
   listenerVars, listVars, logVars, Threads, TypeOK, Receiving, LabelsOK,
   MainLabels, ListenerLabels, WorkerLabels
<1>1. CASE Start
  BY <1>1 DEF Start
<1>2. CASE Stop
  BY <1>2 DEF Stop
<1>3. CASE JoinListener
  BY <1>3 DEF JoinListener
<1>4. CASE TerminateAll
  BY <1>4 DEF TerminateAll
<1>5. CASE TerminateRead
  BY <1>5 DEF TerminateRead
<1>6. CASE TerminateWorker
  BY <1>6 DEF TerminateWorker
<1>7. CASE TerminateSwept
  BY <1>7 DEF TerminateSwept
<1>8. CASE WaitClients
  BY <1>8 DEF WaitClients
<1>9. CASE WaitTimeout
  BY <1>9 DEF WaitTimeout
<1>10. CASE KillAllLock
  BY <1>10 DEF KillAllLock
<1>11. CASE KillWorker
  BY <1>11 DEF KillWorker, Live, Ended, Occupied
<1>12. CASE KillSkip
  BY <1>12 DEF KillSkip
<1>13. CASE KillCrash
  BY <1>13 DEF KillCrash, Live, Ended, HasSocket, Occupied
<1>14. CASE KillAllUnlock
  BY <1>14 DEF KillAllUnlock
<1>15. CASE Reset
  BY <1>15 DEF Reset
<1>16. CASE Destroy
  BY <1>16 DEF Destroy
<1>17. CASE ListenerLoop
  BY <1>17 DEF ListenerLoop
<1>18. CASE ListenerIdle
  BY <1>18 DEF ListenerIdle
<1>19. CASE ListenerDrop
  BY <1>19 DEF ListenerDrop, Receiving
<1>20. CASE IncomingReject
  BY <1>20 DEF IncomingReject, Receiving
<1>21. CASE Incoming
  BY <1>21 DEF Incoming
<1>22. CASE IncomingLock
  BY <1>22 DEF IncomingLock, Full, Occupied
<1>23. CASE IncomingPlace
  BY <1>23 DEF IncomingPlace
<1>24. CASE IncomingCount
  BY <1>24 DEF IncomingCount
<1>25. CASE IncomingStart
  BY <1>25 DEF IncomingStart
<1>26. CASE IncomingHandle
  BY <1>26 DEF IncomingHandle, HasSocket
<1>27. CASE IncomingUnlock
  BY <1>27 DEF IncomingUnlock
<1>28. ASSUME NEW c \in Conns, ListenerAccept(c) PROVE LabelsOK'
  BY <1>28 DEF ListenerAccept
<1>29. ASSUME NEW c \in Conns, WorkerEnter(c) PROVE LabelsOK'
  BY <1>29 DEF WorkerEnter
<1>30. ASSUME NEW c \in Conns, WorkerLoop(c) PROVE LabelsOK'
  BY <1>30 DEF WorkerLoop
<1>31. ASSUME NEW c \in Conns, WorkerExecute(c) PROVE LabelsOK'
  BY <1>31 DEF WorkerExecute
<1>32. ASSUME NEW c \in Conns, DeleteLock(c) PROVE LabelsOK'
  BY <1>32 DEF DeleteLock
<1>33. ASSUME NEW c \in Conns, DeleteClear(c) PROVE LabelsOK'
  BY <1>33 DEF DeleteClear
<1>34. ASSUME NEW c \in Conns, DeleteDecrement(c) PROVE LabelsOK'
  BY <1>34 DEF DeleteDecrement
<1>35. ASSUME NEW c \in Conns, DeleteUnlock(c) PROVE LabelsOK'
  BY <1>35 DEF DeleteUnlock
<1>36. ASSUME NEW t \in Threads, EnterEvent(t) PROVE LabelsOK'
  BY <1>36 DEF EnterEvent, InEvent
<1>37. ASSUME NEW t \in Threads, LeaveEvent(t) PROVE LabelsOK'
  <2>1. CASE t = Main
    BY <1>37, <2>1 DEF LeaveEvent, InEvent, AfterEvent, MainEvents
  <2>2. CASE t = Listener
    BY <1>37, <2>2 DEF LeaveEvent, InEvent, AfterEvent, ListenerEvents
  <2>3. CASE t \in Conns
    <3>1. t # Main /\ t # Listener /\ pc[t] \in WorkerEvents
      BY <1>37, <2>3 DEF LeaveEvent, InEvent
    <3>2. AfterEvent(pc[t]) \in {"loop", "delete"}
      BY <3>1 DEF AfterEvent, WorkerEvents, FarewellEvents
    <3>3. pc' = [pc EXCEPT ![t] = AfterEvent(pc[t])]
      BY <1>37 DEF LeaveEvent
    <3> HIDE DEF LabelsOK
    <3>4. pc'[Main] = pc[Main] /\ pc'[Listener] = pc[Listener]
      BY <3>1, <3>3
    <3>5. \A c \in Conns : pc'[c] = pc[c] \/ pc'[c] \in {"loop", "delete"}
      BY <3>2, <3>3
    <3>6. pc' = [x \in Threads |-> pc'[x]]
      BY <3>3
    <3> QED
      BY <3>4, <3>5, <3>6 DEF LabelsOK
  <2> QED
    BY <2>1, <2>2, <2>3
<1>38. CASE UNCHANGED vars
  BY <1>38 DEF vars
<1> QED
  BY <1>1, <1>2, <1>3, <1>4, <1>5, <1>6, <1>7, <1>8, <1>9, <1>10, <1>11,
     <1>12, <1>13, <1>14, <1>15, <1>16, <1>17, <1>18, <1>19, <1>20, <1>21,
     <1>22, <1>23, <1>24, <1>25, <1>26, <1>27, <1>28, <1>29, <1>30, <1>31,
     <1>32, <1>33, <1>34, <1>35, <1>36, <1>37, <1>38 DEF Next, MainStep,
     ListenerStep, Worker

\* Every step keeps the types.
LEMMA TypeStep ==
  ASSUME IInv, [Next]_vars
  PROVE  TypeOK'
<1> USE ThreadsAssumption, SizesAssumption, LabelsType DEF IInv, Goto, mainVars,
   listenerVars, listVars, logVars, Threads, TypeOK, Receiving
<1>1. CASE Start
  BY <1>1, LabelsStep DEF Start
<1>2. CASE Stop
  BY <1>2, LabelsStep DEF Stop
<1>3. CASE JoinListener
  BY <1>3, LabelsStep DEF JoinListener
<1>4. CASE TerminateAll
  BY <1>4, LabelsStep DEF TerminateAll
<1>5. CASE TerminateRead
  BY <1>5, LabelsStep DEF TerminateRead, Slots
<1>6. CASE TerminateWorker
  BY <1>6, LabelsStep DEF TerminateWorker, Sweeping
<1>7. CASE TerminateSwept
  BY <1>7, LabelsStep DEF TerminateSwept
<1>8. CASE WaitClients
  BY <1>8, LabelsStep DEF WaitClients
<1>9. CASE WaitTimeout
  BY <1>9, LabelsStep DEF WaitTimeout
<1>10. CASE KillAllLock
  BY <1>10, LabelsStep DEF KillAllLock
<1>11. CASE KillWorker
  <2>1. /\ Workers' = [Workers EXCEPT ![k] = Nobody] /\ cnt' = cnt + 1
        /\ k' = k + 1 /\ k \in Slots
    BY <1>11 DEF KillWorker, Occupied
  <2>2. Workers' \in [Slots -> Conns \cup {Nobody}] /\ cnt' \in Nat
    BY <2>1
  <2>3. k' \in 0 .. MaxWorkers
    BY <2>1 DEF Slots
  <2> QED
    BY <1>11, <2>2, <2>3, LabelsStep DEF KillWorker
<1>12. CASE KillSkip
  <2>1. k \in Slots /\ k' = k + 1
    BY <1>12 DEF KillSkip
  <2>2. k' \in 0 .. MaxWorkers
    BY <2>1 DEF Slots
  <2> QED
    BY <1>12, <2>2, LabelsStep DEF KillSkip
<1>13. CASE KillCrash
  BY <1>13, LabelsStep DEF KillCrash, Live, Ended, HasSocket, Occupied
<1>14. CASE KillAllUnlock
  BY <1>14, LabelsStep DEF KillAllUnlock
<1>15. CASE Reset
  BY <1>15, LabelsStep DEF Reset
<1>16. CASE Destroy
  BY <1>16, LabelsStep DEF Destroy
<1>17. CASE ListenerLoop
  BY <1>17, LabelsStep DEF ListenerLoop
<1>18. CASE ListenerIdle
  BY <1>18, LabelsStep DEF ListenerIdle
<1>19. CASE ListenerDrop
  BY <1>19, LabelsStep DEF ListenerDrop, Receiving
<1>20. CASE IncomingReject
  BY <1>20, LabelsStep DEF IncomingReject, Receiving
<1>21. CASE Incoming
  BY <1>21, LabelsStep DEF Incoming
<1>22. CASE IncomingLock
  BY <1>22, LabelsStep DEF IncomingLock, Full, Occupied
<1>23. CASE IncomingPlace
  BY <1>23, FirstFreeIsFree, LabelsStep DEF IncomingPlace
<1>24. CASE IncomingCount
  BY <1>24, LabelsStep DEF IncomingCount
<1>25. CASE IncomingStart
  BY <1>25, LabelsStep DEF IncomingStart
<1>26. CASE IncomingHandle
  BY <1>26, LabelsStep DEF IncomingHandle, HasSocket
<1>27. CASE IncomingUnlock
  BY <1>27, LabelsStep DEF IncomingUnlock
<1>28. ASSUME NEW c \in Conns, ListenerAccept(c) PROVE TypeOK'
  BY <1>28, LabelsStep DEF ListenerAccept
<1>29. ASSUME NEW c \in Conns, WorkerEnter(c) PROVE TypeOK'
  BY <1>29, LabelsStep DEF WorkerEnter
<1>30. ASSUME NEW c \in Conns, WorkerLoop(c) PROVE TypeOK'
  BY <1>30, LabelsStep DEF WorkerLoop
<1>31. ASSUME NEW c \in Conns, WorkerExecute(c) PROVE TypeOK'
  BY <1>31, LabelsStep DEF WorkerExecute
<1>32. ASSUME NEW c \in Conns, DeleteLock(c) PROVE TypeOK'
  BY <1>32, LabelsStep DEF DeleteLock
<1>33. ASSUME NEW c \in Conns, DeleteClear(c) PROVE TypeOK'
  BY <1>33, LabelsStep DEF DeleteClear
<1>34. ASSUME NEW c \in Conns, DeleteDecrement(c) PROVE TypeOK'
  <2>1. ClientsCount = Cardinality(Occupied) + 1
    BY <1>34 DEF DeleteDecrement, Balance, WorkerBalance, InList
  <2>2. ClientsCount' \in Nat
    BY <1>34, <2>1, ListSize DEF DeleteDecrement
  <2> QED
    BY <1>34, <2>2, LabelsStep DEF DeleteDecrement
<1>35. ASSUME NEW c \in Conns, DeleteUnlock(c) PROVE TypeOK'
  BY <1>35, LabelsStep DEF DeleteUnlock
<1>36. ASSUME NEW t \in Threads, EnterEvent(t) PROVE TypeOK'
  BY <1>36, LabelsStep DEF EnterEvent, InEvent
<1>37. ASSUME NEW t \in Threads, LeaveEvent(t) PROVE TypeOK'
  <2>1. journal' \in Seq(MainEvents)
    BY <1>37 DEF LeaveEvent, InEvent, MainEvents
  <2>2. trail' \in [Conns -> Seq(ListenerEvents \cup FarewellEvents)]
    <3> DEFINE of == IF t = Listener THEN sender ELSE t
    <3>1. CASE of \in Conns /\ pc[t] # "busy"
      <4>1. pc[t] \in ListenerEvents \cup FarewellEvents
        BY <1>37, <3>1 DEF LeaveEvent, InEvent, WorkerEvents
      <4>2. trail' = [trail EXCEPT ![of] = Append(@, pc[t])]
        BY <1>37, <3>1 DEF LeaveEvent
      <4>3. Append(trail[of], pc[t]) \in Seq(ListenerEvents \cup FarewellEvents)
        BY <3>1, <4>1
      <4> QED
        BY <4>2, <4>3, <3>1
    <3>2. CASE ~(of \in Conns /\ pc[t] # "busy")
      BY <1>37, <3>2 DEF LeaveEvent
    <3> QED
      BY <3>1, <3>2
  <2>3. Status' \in {"SrvStopped", "SrvRunning", "SrvError"}
    BY <1>37 DEF LeaveEvent
  <2> QED
    BY <1>37, <2>1, <2>2, <2>3, LabelsStep DEF LeaveEvent
<1>38. CASE UNCHANGED vars
  BY <1>38, LabelsStep DEF vars
<1> QED
  BY <1>1, <1>2, <1>3, <1>4, <1>5, <1>6, <1>7, <1>8, <1>9, <1>10, <1>11,
     <1>12, <1>13, <1>14, <1>15, <1>16, <1>17, <1>18, <1>19, <1>20, <1>21,
     <1>22, <1>23, <1>24, <1>25, <1>26, <1>27, <1>28, <1>29, <1>30, <1>31,
     <1>32, <1>33, <1>34, <1>35, <1>36, <1>37, <1>38 DEF Next, MainStep,
     ListenerStep, Worker

\* Every step of LockList, UnlockList, KillAll and Kill keeps CSList the lock
\* of whoever is inside.
LEMMA LockStep ==
  ASSUME IInv, [Next]_vars
  PROVE  ListLock'
<1> USE ThreadsAssumption, SizesAssumption, LabelsType DEF IInv, Goto, mainVars,
   listenerVars, listVars, logVars, Threads, InList, ListLock, TypeOK, Balance,
   Joined, LabelsOK
<1>1. CASE Start
  BY <1>1 DEF Start
<1>2. CASE Stop
  BY <1>2 DEF Stop
<1>3. CASE JoinListener
  BY <1>3 DEF JoinListener
<1>4. CASE TerminateAll
  BY <1>4 DEF TerminateAll
<1>5. CASE TerminateRead
  BY <1>5 DEF TerminateRead
<1>6. CASE TerminateWorker
  BY <1>6 DEF TerminateWorker
<1>7. CASE TerminateSwept
  BY <1>7 DEF TerminateSwept
<1>8. CASE WaitClients
  BY <1>8 DEF WaitClients
<1>9. CASE WaitTimeout
  BY <1>9 DEF WaitTimeout
<1>10. CASE KillAllLock
  BY <1>10 DEF KillAllLock
<1>11. CASE KillWorker
  BY <1>11 DEF KillWorker, Live, Ended, Occupied
<1>12. CASE KillSkip
  BY <1>12 DEF KillSkip
<1>13. CASE KillCrash
  BY <1>13 DEF KillCrash, Live, Ended, HasSocket, Occupied
<1>14. CASE KillAllUnlock
  BY <1>14 DEF KillAllUnlock
<1>15. CASE Reset
  BY <1>15 DEF Reset
<1>16. CASE Destroy
  BY <1>16 DEF Destroy
<1>17. CASE ListenerLoop
  BY <1>17 DEF ListenerLoop
<1>18. CASE ListenerIdle
  BY <1>18 DEF ListenerIdle
<1>19. CASE ListenerDrop
  BY <1>19 DEF ListenerDrop, Receiving
<1>20. CASE IncomingReject
  BY <1>20 DEF IncomingReject, Receiving
<1>21. CASE Incoming
  BY <1>21 DEF Incoming
<1>22. CASE IncomingLock
  BY <1>22 DEF IncomingLock, Full, Occupied
<1>23. CASE IncomingPlace
  BY <1>23 DEF IncomingPlace
<1>24. CASE IncomingCount
  BY <1>24 DEF IncomingCount
<1>25. CASE IncomingStart
  BY <1>25 DEF IncomingStart
<1>26. CASE IncomingHandle
  BY <1>26 DEF IncomingHandle, HasSocket
<1>27. CASE IncomingUnlock
  BY <1>27 DEF IncomingUnlock
<1>28. ASSUME NEW c \in Conns, ListenerAccept(c) PROVE ListLock'
  BY <1>28 DEF ListenerAccept
<1>29. ASSUME NEW c \in Conns, WorkerEnter(c) PROVE ListLock'
  BY <1>29 DEF WorkerEnter
<1>30. ASSUME NEW c \in Conns, WorkerLoop(c) PROVE ListLock'
  BY <1>30 DEF WorkerLoop
<1>31. ASSUME NEW c \in Conns, WorkerExecute(c) PROVE ListLock'
  BY <1>31 DEF WorkerExecute
<1>32. ASSUME NEW c \in Conns, DeleteLock(c) PROVE ListLock'
  BY <1>32 DEF DeleteLock
<1>33. ASSUME NEW c \in Conns, DeleteClear(c) PROVE ListLock'
  BY <1>33 DEF DeleteClear
<1>34. ASSUME NEW c \in Conns, DeleteDecrement(c) PROVE ListLock'
  BY <1>34 DEF DeleteDecrement
<1>35. ASSUME NEW c \in Conns, DeleteUnlock(c) PROVE ListLock'
  BY <1>35 DEF DeleteUnlock
<1>36. ASSUME NEW t \in Threads, EnterEvent(t) PROVE ListLock'
  BY <1>36 DEF EnterEvent, InEvent
<1>37. ASSUME NEW t \in Threads, LeaveEvent(t) PROVE ListLock'
  BY <1>37 DEF LeaveEvent, InEvent, AfterEvent, MainEvents, ListenerEvents,
     WorkerEvents, FarewellEvents
<1>38. CASE UNCHANGED vars
  BY <1>38 DEF vars
<1> QED
  BY <1>1, <1>2, <1>3, <1>4, <1>5, <1>6, <1>7, <1>8, <1>9, <1>10, <1>11,
     <1>12, <1>13, <1>14, <1>15, <1>16, <1>17, <1>18, <1>19, <1>20, <1>21,
     <1>22, <1>23, <1>24, <1>25, <1>26, <1>27, <1>28, <1>29, <1>30, <1>31,
     <1>32, <1>33, <1>34, <1>35, <1>36, <1>37, <1>38 DEF Next, MainStep,
     ListenerStep, Worker

\* Stop goes on to the workers only when the listener is gone.
LEMMA JoinedStep ==
  ASSUME IInv, [Next]_vars
  PROVE  Joined'
<1> USE ThreadsAssumption, SizesAssumption, LabelsType DEF IInv, Goto, mainVars,
   listenerVars, listVars, logVars, Threads, TypeOK, Joined, Receiving, LabelsOK
<1>1. CASE Start
  BY <1>1 DEF Start
<1>2. CASE Stop
  BY <1>2 DEF Stop
<1>3. CASE JoinListener
  BY <1>3 DEF JoinListener
<1>4. CASE TerminateAll
  BY <1>4 DEF TerminateAll
<1>5. CASE TerminateRead
  BY <1>5 DEF TerminateRead
<1>6. CASE TerminateWorker
  BY <1>6 DEF TerminateWorker
<1>7. CASE TerminateSwept
  BY <1>7 DEF TerminateSwept
<1>8. CASE WaitClients
  BY <1>8 DEF WaitClients
<1>9. CASE WaitTimeout
  BY <1>9 DEF WaitTimeout
<1>10. CASE KillAllLock
  BY <1>10 DEF KillAllLock
<1>11. CASE KillWorker
  BY <1>11 DEF KillWorker, Live, Ended, Occupied
<1>12. CASE KillSkip
  BY <1>12 DEF KillSkip
<1>13. CASE KillCrash
  BY <1>13 DEF KillCrash, Live, Ended, HasSocket, Occupied
<1>14. CASE KillAllUnlock
  BY <1>14 DEF KillAllUnlock
<1>15. CASE Reset
  BY <1>15 DEF Reset
<1>16. CASE Destroy
  BY <1>16 DEF Destroy
<1>17. CASE ListenerLoop
  BY <1>17 DEF ListenerLoop
<1>18. CASE ListenerIdle
  BY <1>18 DEF ListenerIdle
<1>19. CASE ListenerDrop
  BY <1>19 DEF ListenerDrop, Receiving
<1>20. CASE IncomingReject
  BY <1>20 DEF IncomingReject, Receiving
<1>21. CASE Incoming
  BY <1>21 DEF Incoming
<1>22. CASE IncomingLock
  BY <1>22 DEF IncomingLock, Full, Occupied
<1>23. CASE IncomingPlace
  BY <1>23 DEF IncomingPlace
<1>24. CASE IncomingCount
  BY <1>24 DEF IncomingCount
<1>25. CASE IncomingStart
  BY <1>25 DEF IncomingStart
<1>26. CASE IncomingHandle
  BY <1>26 DEF IncomingHandle, HasSocket
<1>27. CASE IncomingUnlock
  BY <1>27 DEF IncomingUnlock
<1>28. ASSUME NEW c \in Conns, ListenerAccept(c) PROVE Joined'
  BY <1>28 DEF ListenerAccept
<1>29. ASSUME NEW c \in Conns, WorkerEnter(c) PROVE Joined'
  BY <1>29 DEF WorkerEnter
<1>30. ASSUME NEW c \in Conns, WorkerLoop(c) PROVE Joined'
  BY <1>30 DEF WorkerLoop
<1>31. ASSUME NEW c \in Conns, WorkerExecute(c) PROVE Joined'
  BY <1>31 DEF WorkerExecute
<1>32. ASSUME NEW c \in Conns, DeleteLock(c) PROVE Joined'
  BY <1>32 DEF DeleteLock
<1>33. ASSUME NEW c \in Conns, DeleteClear(c) PROVE Joined'
  BY <1>33 DEF DeleteClear
<1>34. ASSUME NEW c \in Conns, DeleteDecrement(c) PROVE Joined'
  BY <1>34 DEF DeleteDecrement
<1>35. ASSUME NEW c \in Conns, DeleteUnlock(c) PROVE Joined'
  BY <1>35 DEF DeleteUnlock
<1>36. ASSUME NEW t \in Threads, EnterEvent(t) PROVE Joined'
  BY <1>36 DEF EnterEvent, InEvent
<1>37. ASSUME NEW t \in Threads, LeaveEvent(t) PROVE Joined'
  BY <1>37 DEF LeaveEvent, InEvent, AfterEvent, MainEvents, ListenerEvents,
     WorkerEvents, FarewellEvents
<1>38. CASE UNCHANGED vars
  BY <1>38 DEF vars
<1> QED
  BY <1>1, <1>2, <1>3, <1>4, <1>5, <1>6, <1>7, <1>8, <1>9, <1>10, <1>11,
     <1>12, <1>13, <1>14, <1>15, <1>16, <1>17, <1>18, <1>19, <1>20, <1>21,
     <1>22, <1>23, <1>24, <1>25, <1>26, <1>27, <1>28, <1>29, <1>30, <1>31,
     <1>32, <1>33, <1>34, <1>35, <1>36, <1>37, <1>38 DEF Next, MainStep,
     ListenerStep, Worker

\* What Incoming has tested stays true until it takes the slot: workers can
\* only leave in between.
LEMMA ReceivingStep ==
  ASSUME IInv, [Next]_vars
  PROVE  Receiving'
<1> USE ThreadsAssumption, SizesAssumption, LabelsType DEF IInv, Goto, mainVars,
   listenerVars, listVars, logVars, Threads, TypeOK, Joined, Receiving, InList,
   ListLock, Full, Occupied, CanAccept, Balance, LabelsOK
<1>1. CASE Start
  BY <1>1 DEF Start
<1>2. CASE Stop
  BY <1>2 DEF Stop
<1>3. CASE JoinListener
  BY <1>3 DEF JoinListener
<1>4. CASE TerminateAll
  BY <1>4 DEF TerminateAll
<1>5. CASE TerminateRead
  BY <1>5 DEF TerminateRead
<1>6. CASE TerminateWorker
  BY <1>6 DEF TerminateWorker
<1>7. CASE TerminateSwept
  BY <1>7 DEF TerminateSwept
<1>8. CASE WaitClients
  BY <1>8 DEF WaitClients
<1>9. CASE WaitTimeout
  BY <1>9 DEF WaitTimeout
<1>10. CASE KillAllLock
  BY <1>10 DEF KillAllLock
<1>11. CASE KillWorker
  BY <1>11 DEF KillWorker, Live, Ended, Occupied
<1>12. CASE KillSkip
  BY <1>12 DEF KillSkip
<1>13. CASE KillCrash
  BY <1>13 DEF KillCrash, Live, Ended, HasSocket, Occupied
<1>14. CASE KillAllUnlock
  BY <1>14 DEF KillAllUnlock
<1>15. CASE Reset
  BY <1>15 DEF Reset
<1>16. CASE Destroy
  BY <1>16 DEF Destroy
<1>17. CASE ListenerLoop
  BY <1>17 DEF ListenerLoop
<1>18. CASE ListenerIdle
  BY <1>18 DEF ListenerIdle
<1>19. CASE ListenerDrop
  BY <1>19 DEF ListenerDrop, Receiving
<1>20. CASE IncomingReject
  BY <1>20 DEF IncomingReject, Receiving
<1>21. CASE Incoming
  BY <1>21 DEF Incoming
<1>22. CASE IncomingLock
  BY <1>22 DEF IncomingLock, Full, Occupied
<1>23. CASE IncomingPlace
  BY <1>23 DEF IncomingPlace
<1>24. CASE IncomingCount
  BY <1>24 DEF IncomingCount
<1>25. CASE IncomingStart
  BY <1>25 DEF IncomingStart
<1>26. CASE IncomingHandle
  BY <1>26 DEF IncomingHandle, HasSocket
<1>27. CASE IncomingUnlock
  BY <1>27 DEF IncomingUnlock
<1>28. ASSUME NEW c \in Conns, ListenerAccept(c) PROVE Receiving'
  BY <1>28 DEF ListenerAccept
<1>29. ASSUME NEW c \in Conns, WorkerEnter(c) PROVE Receiving'
  BY <1>29 DEF WorkerEnter
<1>30. ASSUME NEW c \in Conns, WorkerLoop(c) PROVE Receiving'
  BY <1>30 DEF WorkerLoop
<1>31. ASSUME NEW c \in Conns, WorkerExecute(c) PROVE Receiving'
  BY <1>31 DEF WorkerExecute
<1>32. ASSUME NEW c \in Conns, DeleteLock(c) PROVE Receiving'
  BY <1>32 DEF DeleteLock
<1>33. ASSUME NEW c \in Conns, DeleteClear(c) PROVE Receiving'
  BY <1>33 DEF DeleteClear
<1>34. ASSUME NEW c \in Conns, DeleteDecrement(c) PROVE Receiving'
  BY <1>34 DEF DeleteDecrement
<1>35. ASSUME NEW c \in Conns, DeleteUnlock(c) PROVE Receiving'
  BY <1>35 DEF DeleteUnlock
<1>36. ASSUME NEW t \in Threads, EnterEvent(t) PROVE Receiving'
  BY <1>36 DEF EnterEvent, InEvent
<1>37. ASSUME NEW t \in Threads, LeaveEvent(t) PROVE Receiving'
  BY <1>37 DEF LeaveEvent, InEvent, AfterEvent, MainEvents, ListenerEvents,
     WorkerEvents, FarewellEvents
<1>38. CASE UNCHANGED vars
  BY <1>38 DEF vars
<1> QED
  BY <1>1, <1>2, <1>3, <1>4, <1>5, <1>6, <1>7, <1>8, <1>9, <1>10, <1>11,
     <1>12, <1>13, <1>14, <1>15, <1>16, <1>17, <1>18, <1>19, <1>20, <1>21,
     <1>22, <1>23, <1>24, <1>25, <1>26, <1>27, <1>28, <1>29, <1>30, <1>31,
     <1>32, <1>33, <1>34, <1>35, <1>36, <1>37, <1>38 DEF Next, MainStep,
     ListenerStep, Worker

\* Incoming and Delete keep each worker and its slot together.
LEMMA SlotsStep ==
  ASSUME IInv, [Next]_vars
  PROVE  SlotsOwned'
<1> USE ThreadsAssumption, SizesAssumption, LabelsType DEF IInv, Goto, mainVars,
   listenerVars, listVars, logVars, Threads, TypeOK, Receiving, SlotsOwned,
   Attached, WorkerEvents, FarewellEvents
<1>1. CASE Start
  <2>1. \A c \in Conns : pc'[c] = pc[c]
    BY <1>1 DEF Start, LabelsOK
  <2> QED
    BY <1>1, <2>1 DEF Start
<1>2. CASE Stop
  BY <1>2 DEF Stop
<1>3. CASE JoinListener
  BY <1>3 DEF JoinListener
<1>4. CASE TerminateAll
  BY <1>4 DEF TerminateAll
<1>5. CASE TerminateRead
  BY <1>5 DEF TerminateRead
<1>6. CASE TerminateWorker
  BY <1>6 DEF TerminateWorker
<1>7. CASE TerminateSwept
  BY <1>7 DEF TerminateSwept
<1>8. CASE WaitClients
  BY <1>8 DEF WaitClients
<1>9. CASE WaitTimeout
  BY <1>9 DEF WaitTimeout
<1>10. CASE KillAllLock
  BY <1>10 DEF KillAllLock
<1>11. CASE KillWorker
  BY <1>11 DEF KillWorker, Live, Ended, Occupied
<1>12. CASE KillSkip
  BY <1>12 DEF KillSkip
<1>13. CASE KillCrash
  BY <1>13 DEF KillCrash, Live, Ended, HasSocket, Occupied
<1>14. CASE KillAllUnlock
  BY <1>14 DEF KillAllUnlock
<1>15. CASE Reset
  BY <1>15 DEF Reset
<1>16. CASE Destroy
  BY <1>16 DEF Destroy
<1>17. CASE ListenerLoop
  BY <1>17 DEF ListenerLoop
<1>18. CASE ListenerIdle
  BY <1>18 DEF ListenerIdle
<1>19. CASE ListenerDrop
  BY <1>19 DEF ListenerDrop, Receiving
<1>20. CASE IncomingReject
  BY <1>20 DEF IncomingReject, Receiving
<1>21. CASE Incoming
  BY <1>21 DEF Incoming
<1>22. CASE IncomingLock
  BY <1>22 DEF IncomingLock, Full, Occupied
<1>23. CASE IncomingPlace
  BY <1>23, FirstFreeIsFree DEF IncomingPlace, Occupied
<1>24. CASE IncomingCount
  BY <1>24 DEF IncomingCount
<1>25. CASE IncomingStart
  BY <1>25 DEF IncomingStart
<1>26. CASE IncomingHandle
  BY <1>26 DEF IncomingHandle, HasSocket
<1>27. CASE IncomingUnlock
  BY <1>27 DEF IncomingUnlock
<1>28. ASSUME NEW c \in Conns, ListenerAccept(c) PROVE SlotsOwned'
  BY <1>28 DEF ListenerAccept
<1>29. ASSUME NEW c \in Conns, WorkerEnter(c) PROVE SlotsOwned'
  BY <1>29 DEF WorkerEnter
<1>30. ASSUME NEW c \in Conns, WorkerLoop(c) PROVE SlotsOwned'
  BY <1>30 DEF WorkerLoop
<1>31. ASSUME NEW c \in Conns, WorkerExecute(c) PROVE SlotsOwned'
  BY <1>31 DEF WorkerExecute
<1>32. ASSUME NEW c \in Conns, DeleteLock(c) PROVE SlotsOwned'
  BY <1>32 DEF DeleteLock
<1>33. ASSUME NEW c \in Conns, DeleteClear(c) PROVE SlotsOwned'
  BY <1>33 DEF DeleteClear
<1>34. ASSUME NEW c \in Conns, DeleteDecrement(c) PROVE SlotsOwned'
  BY <1>34 DEF DeleteDecrement
<1>35. ASSUME NEW c \in Conns, DeleteUnlock(c) PROVE SlotsOwned'
  BY <1>35 DEF DeleteUnlock
<1>36. ASSUME NEW t \in Threads, EnterEvent(t) PROVE SlotsOwned'
  BY <1>36 DEF EnterEvent, InEvent
<1>37. ASSUME NEW t \in Threads, LeaveEvent(t) PROVE SlotsOwned'
  BY <1>37 DEF LeaveEvent, InEvent, AfterEvent, MainEvents, ListenerEvents,
     WorkerEvents, FarewellEvents
<1>38. CASE UNCHANGED vars
  BY <1>38 DEF vars
<1> QED
  BY <1>1, <1>2, <1>3, <1>4, <1>5, <1>6, <1>7, <1>8, <1>9, <1>10, <1>11,
     <1>12, <1>13, <1>14, <1>15, <1>16, <1>17, <1>18, <1>19, <1>20, <1>21,
     <1>22, <1>23, <1>24, <1>25, <1>26, <1>27, <1>28, <1>29, <1>30, <1>31,
     <1>32, <1>33, <1>34, <1>35, <1>36, <1>37, <1>38 DEF Next, MainStep,
     ListenerStep, Worker

\* The pointer TerminateAll has read is used before the loop ends.
LEMMA SweepStep ==
  ASSUME IInv, [Next]_vars
  PROVE  Sweeping'
<1> USE ThreadsAssumption, SizesAssumption, LabelsType DEF IInv, Goto, mainVars,
   listenerVars, listVars, logVars, Threads, TypeOK, Sweeping, LabelsOK
<1>1. CASE Start
  BY <1>1 DEF Start
<1>2. CASE Stop
  BY <1>2 DEF Stop
<1>3. CASE JoinListener
  BY <1>3 DEF JoinListener
<1>4. CASE TerminateAll
  BY <1>4 DEF TerminateAll
<1>5. CASE TerminateRead
  BY <1>5 DEF TerminateRead
<1>6. CASE TerminateWorker
  BY <1>6 DEF TerminateWorker
<1>7. CASE TerminateSwept
  BY <1>7 DEF TerminateSwept
<1>8. CASE WaitClients
  BY <1>8 DEF WaitClients
<1>9. CASE WaitTimeout
  BY <1>9 DEF WaitTimeout
<1>10. CASE KillAllLock
  BY <1>10 DEF KillAllLock
<1>11. CASE KillWorker
  BY <1>11 DEF KillWorker, Live, Ended, Occupied
<1>12. CASE KillSkip
  BY <1>12 DEF KillSkip
<1>13. CASE KillCrash
  BY <1>13 DEF KillCrash, Live, Ended, HasSocket, Occupied
<1>14. CASE KillAllUnlock
  BY <1>14 DEF KillAllUnlock
<1>15. CASE Reset
  BY <1>15 DEF Reset
<1>16. CASE Destroy
  BY <1>16 DEF Destroy
<1>17. CASE ListenerLoop
  BY <1>17 DEF ListenerLoop
<1>18. CASE ListenerIdle
  BY <1>18 DEF ListenerIdle
<1>19. CASE ListenerDrop
  BY <1>19 DEF ListenerDrop, Receiving
<1>20. CASE IncomingReject
  BY <1>20 DEF IncomingReject, Receiving
<1>21. CASE Incoming
  BY <1>21 DEF Incoming
<1>22. CASE IncomingLock
  BY <1>22 DEF IncomingLock, Full, Occupied
<1>23. CASE IncomingPlace
  BY <1>23 DEF IncomingPlace
<1>24. CASE IncomingCount
  BY <1>24 DEF IncomingCount
<1>25. CASE IncomingStart
  BY <1>25 DEF IncomingStart
<1>26. CASE IncomingHandle
  BY <1>26 DEF IncomingHandle, HasSocket
<1>27. CASE IncomingUnlock
  BY <1>27 DEF IncomingUnlock
<1>28. ASSUME NEW c \in Conns, ListenerAccept(c) PROVE Sweeping'
  BY <1>28 DEF ListenerAccept
<1>29. ASSUME NEW c \in Conns, WorkerEnter(c) PROVE Sweeping'
  BY <1>29 DEF WorkerEnter
<1>30. ASSUME NEW c \in Conns, WorkerLoop(c) PROVE Sweeping'
  BY <1>30 DEF WorkerLoop
<1>31. ASSUME NEW c \in Conns, WorkerExecute(c) PROVE Sweeping'
  BY <1>31 DEF WorkerExecute
<1>32. ASSUME NEW c \in Conns, DeleteLock(c) PROVE Sweeping'
  BY <1>32 DEF DeleteLock
<1>33. ASSUME NEW c \in Conns, DeleteClear(c) PROVE Sweeping'
  BY <1>33 DEF DeleteClear
<1>34. ASSUME NEW c \in Conns, DeleteDecrement(c) PROVE Sweeping'
  BY <1>34 DEF DeleteDecrement
<1>35. ASSUME NEW c \in Conns, DeleteUnlock(c) PROVE Sweeping'
  BY <1>35 DEF DeleteUnlock
<1>36. ASSUME NEW t \in Threads, EnterEvent(t) PROVE Sweeping'
  BY <1>36 DEF EnterEvent, InEvent
<1>37. ASSUME NEW t \in Threads, LeaveEvent(t) PROVE Sweeping'
  BY <1>37 DEF LeaveEvent, InEvent, AfterEvent, MainEvents, ListenerEvents,
     WorkerEvents, FarewellEvents
<1>38. CASE UNCHANGED vars
  BY <1>38 DEF vars
<1> QED
  BY <1>1, <1>2, <1>3, <1>4, <1>5, <1>6, <1>7, <1>8, <1>9, <1>10, <1>11,
     <1>12, <1>13, <1>14, <1>15, <1>16, <1>17, <1>18, <1>19, <1>20, <1>21,
     <1>22, <1>23, <1>24, <1>25, <1>26, <1>27, <1>28, <1>29, <1>30, <1>31,
     <1>32, <1>33, <1>34, <1>35, <1>36, <1>37, <1>38 DEF Next, MainStep,
     ListenerStep, Worker

\* ClientsCount follows the list through Incoming, Delete and KillAll.
LEMMA BalanceStep ==
  ASSUME IInv, [Next]_vars
  PROVE  Balance'
<1> USE ThreadsAssumption, SizesAssumption, LabelsType DEF IInv, Goto, mainVars,
   listenerVars, listVars, logVars, Threads, TypeOK, ListLock, InList, LabelsOK,
   Balance
<1>1. CASE Start
  <2>1. Occupied' = Occupied
    BY <1>1 DEF Start, Occupied
  <2> QED
    BY <1>1, <2>1, ListSize DEF Start, FreeBalance, ListenerBalance,
       WorkerBalance, WithinCapacity, Emptied, Joined, Receiving
<1>2. CASE Stop
  <2>1. Occupied' = Occupied
    BY <1>2 DEF Stop, Occupied
  <2>2. FreeBalance'
    BY <1>2, <2>1, ListSize DEF Stop, FreeBalance, ListenerBalance,
       WorkerBalance, Emptied, Joined, Receiving
  <2>3. ListenerBalance'
    BY <1>2, <2>1, ListSize DEF Stop, ListenerBalance, FreeBalance, Joined,
       Receiving
  <2>4. WorkerBalance'
    BY <1>2, <2>1, ListSize DEF Stop, WorkerBalance, FreeBalance, Joined,
       Receiving
  <2>5. WithinCapacity'
    BY <1>2, <2>1, ListSize DEF Stop, WithinCapacity, Joined, Receiving
  <2>6. Emptied'
    BY <1>2, <2>1, ListSize DEF Stop, Emptied, Slots, Occupied, Joined,
       Receiving
  <2> QED
    BY <2>2, <2>3, <2>4, <2>5, <2>6
<1>3. CASE JoinListener
  <2>1. Occupied' = Occupied
    BY <1>3 DEF JoinListener, Occupied
  <2>2. FreeBalance'
    BY <1>3, <2>1, ListSize DEF JoinListener, FreeBalance, ListenerBalance,
       WorkerBalance, Emptied, Joined, Receiving
  <2>3. ListenerBalance'
    BY <1>3, <2>1, ListSize DEF JoinListener, ListenerBalance, FreeBalance,
       Joined, Receiving
  <2>4. WorkerBalance'
    BY <1>3, <2>1, ListSize DEF JoinListener, WorkerBalance, FreeBalance,
       Joined, Receiving
  <2>5. WithinCapacity'
    BY <1>3, <2>1, ListSize DEF JoinListener, WithinCapacity, Joined, Receiving
  <2>6. Emptied'
    BY <1>3, <2>1, ListSize DEF JoinListener, Emptied, Slots, Occupied,
       Joined, Receiving
  <2> QED
    BY <2>2, <2>3, <2>4, <2>5, <2>6
<1>4. CASE TerminateAll
  <2>1. Occupied' = Occupied
    BY <1>4 DEF TerminateAll, Occupied
  <2>2. FreeBalance' /\ WithinCapacity' /\ Emptied'
    BY <1>4, <2>1 DEF TerminateAll, FreeBalance, WithinCapacity, Emptied
  <2>3. ListenerBalance'
    BY <1>4, <2>1 DEF TerminateAll, ListenerBalance
  <2>4. WorkerBalance'
    BY <1>4, <2>1 DEF TerminateAll, WorkerBalance
  <2> QED
    BY <2>2, <2>3, <2>4
<1>5. CASE TerminateRead
  <2>1. Occupied' = Occupied
    BY <1>5 DEF TerminateRead, Occupied
  <2> QED
    BY <1>5, <2>1, ListSize DEF TerminateRead, FreeBalance, ListenerBalance,
       WorkerBalance, WithinCapacity, Emptied, Joined, Receiving
<1>6. CASE TerminateWorker
  <2>1. Occupied' = Occupied
    BY <1>6 DEF TerminateWorker, Occupied
  <2> QED
    BY <1>6, <2>1, ListSize DEF TerminateWorker, FreeBalance,
       ListenerBalance, WorkerBalance, WithinCapacity, Emptied, Joined,
       Receiving
<1>7. CASE TerminateSwept
  <2>1. Occupied' = Occupied
    BY <1>7 DEF TerminateSwept, Occupied
  <2> QED
    BY <1>7, <2>1, ListSize DEF TerminateSwept, FreeBalance,
       ListenerBalance, WorkerBalance, WithinCapacity, Emptied, Joined,
       Receiving
<1>8. CASE WaitClients
  <2>1. Occupied' = Occupied
    BY <1>8 DEF WaitClients, Occupied
  <2> QED
    BY <1>8, <2>1, ListSize DEF WaitClients, FreeBalance, ListenerBalance,
       WorkerBalance, WithinCapacity, Emptied, Joined, Receiving
<1>9. CASE WaitTimeout
  <2>1. Occupied' = Occupied
    BY <1>9 DEF WaitTimeout, Occupied
  <2> QED
    BY <1>9, <2>1, ListSize DEF WaitTimeout, FreeBalance, ListenerBalance,
       WorkerBalance, WithinCapacity, Emptied, Joined, Receiving
<1>10. CASE KillAllLock
  <2>1. Occupied' = Occupied
    BY <1>10 DEF KillAllLock, Occupied
  <2>2. FreeBalance'
    BY <1>10, <2>1, ListSize DEF KillAllLock, FreeBalance, ListenerBalance,
       WorkerBalance, Emptied, Joined, Receiving
  <2>3. ListenerBalance'
    BY <1>10, <2>1, ListSize DEF KillAllLock, ListenerBalance, FreeBalance,
       Joined, Receiving
  <2>4. WorkerBalance'
    BY <1>10, <2>1, ListSize DEF KillAllLock, WorkerBalance, FreeBalance,
       Joined, Receiving
  <2>5. WithinCapacity'
    BY <1>10, <2>1, ListSize DEF KillAllLock, WithinCapacity, Joined, Receiving
  <2>6. Emptied'
    BY <1>10, <2>1, ListSize DEF KillAllLock, Emptied, Slots, Occupied,
       Joined, Receiving
  <2> QED
    BY <2>2, <2>3, <2>4, <2>5, <2>6
<1>11. CASE KillWorker
  <2>1. Occupied' = Occupied \ {k} /\ k \in Occupied
    BY <1>11 DEF KillWorker, Occupied
  <2>2. Cardinality(Occupied') = Cardinality(Occupied) - 1
    BY <2>1, ListSize, FS_RemoveElement
  <2>3. FreeBalance'
    BY <1>11, <2>1, <2>2, ListSize DEF KillWorker, FreeBalance,
       ListenerBalance, WorkerBalance, Emptied, Joined, Receiving
  <2>4. ListenerBalance'
    BY <1>11, <2>1, <2>2, ListSize DEF KillWorker, ListenerBalance,
       FreeBalance, Joined, Receiving
  <2>5. WorkerBalance'
    BY <1>11, <2>1, <2>2, ListSize DEF KillWorker, WorkerBalance,
       FreeBalance, Joined, Receiving
  <2>6. WithinCapacity'
    BY <2>2, ListSize, CapacityType DEF WithinCapacity
  <2>7. Emptied'
    BY <1>11, <2>1, <2>2, ListSize DEF KillWorker, Emptied, Slots, Occupied,
       Joined, Receiving
  <2> QED
    BY <2>3, <2>4, <2>5, <2>6, <2>7
<1>12. CASE KillSkip
  <2>1. Occupied' = Occupied
    BY <1>12 DEF KillSkip, Occupied
  <2>2. FreeBalance'
    BY <1>12, <2>1, ListSize DEF KillSkip, FreeBalance, ListenerBalance,
       WorkerBalance, Emptied, Joined, Receiving
  <2>3. ListenerBalance'
    BY <1>12, <2>1, ListSize DEF KillSkip, ListenerBalance, FreeBalance,
       Joined, Receiving
  <2>4. WorkerBalance'
    BY <1>12, <2>1, ListSize DEF KillSkip, WorkerBalance, FreeBalance,
       Joined, Receiving
  <2>5. WithinCapacity'
    BY <1>12, <2>1, ListSize DEF KillSkip, WithinCapacity, Joined, Receiving
  <2>6. Emptied'
    BY <1>12, <2>1, ListSize DEF KillSkip, Emptied, Slots, Occupied, Joined,
       Receiving
  <2> QED
    BY <2>2, <2>3, <2>4, <2>5, <2>6
<1>13. CASE KillCrash
  <2>1. Occupied' = Occupied
    BY <1>13 DEF KillCrash, Occupied
  <2> QED
    BY <1>13, <2>1, ListSize DEF KillCrash, FreeBalance, ListenerBalance,
       WorkerBalance, WithinCapacity, Emptied, Joined, Receiving, Live,
       Ended, HasSocket
<1>14. CASE KillAllUnlock
  <2>1. Occupied' = Occupied
    BY <1>14 DEF KillAllUnlock, Occupied
  <2>2. FreeBalance'
    BY <1>14, <2>1, ListSize DEF KillAllUnlock, FreeBalance,
       ListenerBalance, WorkerBalance, Emptied, Joined, Receiving
  <2>3. ListenerBalance'
    BY <1>14, <2>1, ListSize DEF KillAllUnlock, ListenerBalance,
       FreeBalance, Joined, Receiving
  <2>4. WorkerBalance'
    BY <1>14, <2>1, ListSize DEF KillAllUnlock, WorkerBalance, FreeBalance,
       Joined, Receiving
  <2>5. WithinCapacity'
    BY <1>14, <2>1, ListSize DEF KillAllUnlock, WithinCapacity, Joined,
       Receiving
  <2>6. Emptied'
    <3>1. Occupied' = {}
      BY <1>14, <2>1 DEF KillAllUnlock, Emptied, Occupied, Slots
    <3>2. \A d \in Conns : pc'[d] # "decrement"
      BY <1>14 DEF KillAllUnlock
    <3> QED
      BY <1>14, <3>1, <3>2 DEF KillAllUnlock, Emptied
  <2> QED
    BY <2>2, <2>3, <2>4, <2>5, <2>6
<1>15. CASE Reset
  <2>1. Occupied' = Occupied
    BY <1>15 DEF Reset, Occupied
  <2> QED
    BY <1>15, <2>1, ListSize DEF Reset, FreeBalance, ListenerBalance,
       WorkerBalance, WithinCapacity, Emptied, Joined, Receiving
<1>16. CASE Destroy
  <2>1. Occupied' = Occupied
    BY <1>16 DEF Destroy, Occupied
  <2> QED
    BY <1>16, <2>1, ListSize DEF Destroy, FreeBalance, ListenerBalance,
       WorkerBalance, WithinCapacity, Emptied, Joined, Receiving
<1>17. CASE ListenerLoop
  <2>1. Occupied' = Occupied
    BY <1>17 DEF ListenerLoop, Occupied
  <2> QED
    BY <1>17, <2>1, ListSize DEF ListenerLoop, FreeBalance, ListenerBalance,
       WorkerBalance, WithinCapacity, Emptied, Joined, Receiving
<1>18. CASE ListenerIdle
  <2>1. Occupied' = Occupied
    BY <1>18 DEF ListenerIdle, Occupied
  <2> QED
    BY <1>18, <2>1, ListSize DEF ListenerIdle, FreeBalance, ListenerBalance,
       WorkerBalance, WithinCapacity, Emptied, Joined, Receiving
<1>19. CASE ListenerDrop
  <2>1. Occupied' = Occupied
    BY <1>19 DEF ListenerDrop, Occupied
  <2> QED
    BY <1>19, <2>1, ListSize DEF ListenerDrop, FreeBalance, ListenerBalance,
       WorkerBalance, WithinCapacity, Emptied, Joined, Receiving
<1>20. CASE IncomingReject
  <2>1. Occupied' = Occupied
    BY <1>20 DEF IncomingReject, Occupied
  <2> QED
    BY <1>20, <2>1, ListSize DEF IncomingReject, FreeBalance,
       ListenerBalance, WorkerBalance, WithinCapacity, Emptied, Joined,
       Receiving
<1>21. CASE Incoming
  <2>1. Occupied' = Occupied
    BY <1>21 DEF Incoming, Occupied
  <2> QED
    BY <1>21, <2>1, ListSize DEF Incoming, FreeBalance, ListenerBalance,
       WorkerBalance, WithinCapacity, Emptied, Joined, Receiving
<1>22. CASE IncomingLock
  <2>1. Occupied' = Occupied
    BY <1>22 DEF IncomingLock, Occupied
  <2> QED
    BY <1>22, <2>1, ListSize DEF IncomingLock, FreeBalance, ListenerBalance,
       WorkerBalance, WithinCapacity, Emptied, Joined, Receiving, Full
<1>23. CASE IncomingPlace
  <2>1. FirstFree \in Slots \ Occupied
    BY <1>23, FirstFreeIsFree DEF IncomingPlace, Receiving
  <2>2. Occupied' = Occupied \cup {FirstFree}
    BY <1>23, <2>1 DEF IncomingPlace, Occupied, Receiving
  <2>3. Cardinality(Occupied') = Cardinality(Occupied) + 1
    BY <2>1, <2>2, ListSize, FS_AddElement
  <2>4. Cardinality(Occupied) < MaxWorkers /\ CanAccept /\ ClientsCount = Cardinality(Occupied)
    BY <1>23, ListSize DEF IncomingPlace, Receiving, ListenerBalance, Full
  <2>5. Cardinality(Occupied') <= Capacity
    BY <2>3, <2>4, ListSize DEF CanAccept, Capacity
  <2>6. FreeBalance'
    BY <1>23, <2>1, <2>2, <2>3, <2>4, <2>5, ListSize DEF IncomingPlace,
       FreeBalance, ListenerBalance, WorkerBalance, Emptied, Joined,
       Receiving
  <2>7. ListenerBalance'
    BY <1>23, <2>1, <2>2, <2>3, <2>4, <2>5, ListSize DEF IncomingPlace,
       ListenerBalance, FreeBalance, Joined, Receiving
  <2>8. WorkerBalance'
    BY <1>23, <2>1, <2>2, <2>3, <2>4, <2>5, ListSize DEF IncomingPlace,
       WorkerBalance, FreeBalance, Joined, Receiving
  <2>9. WithinCapacity'
    BY <1>23, <2>1, <2>2, <2>3, <2>4, <2>5, ListSize DEF IncomingPlace,
       WithinCapacity, Joined, Receiving
  <2>10. Emptied'
    BY <1>23, <2>1, <2>2, <2>3, <2>4, <2>5, ListSize DEF IncomingPlace,
       Emptied, Slots, Occupied, Joined, Receiving
  <2> QED
    BY <2>6, <2>7, <2>8, <2>9, <2>10
<1>24. CASE IncomingCount
  <2>1. Occupied' = Occupied
    BY <1>24 DEF IncomingCount, Occupied
  <2> QED
    BY <1>24, <2>1, ListSize DEF IncomingCount, FreeBalance,
       ListenerBalance, WorkerBalance, WithinCapacity, Emptied, Joined,
       Receiving
<1>25. CASE IncomingStart
  <2>1. Occupied' = Occupied
    BY <1>25 DEF IncomingStart, Occupied
  <2> QED
    BY <1>25, <2>1, ListSize DEF IncomingStart, FreeBalance,
       ListenerBalance, WorkerBalance, WithinCapacity, Emptied, Joined,
       Receiving
<1>26. CASE IncomingHandle
  <2>1. Occupied' = Occupied
    BY <1>26 DEF IncomingHandle, Occupied
  <2> QED
    BY <1>26, <2>1, ListSize DEF IncomingHandle, FreeBalance,
       ListenerBalance, WorkerBalance, WithinCapacity, Emptied, Joined,
       Receiving, HasSocket
<1>27. CASE IncomingUnlock
  <2>1. Occupied' = Occupied
    BY <1>27 DEF IncomingUnlock, Occupied
  <2> QED
    BY <1>27, <2>1, ListSize DEF IncomingUnlock, FreeBalance,
       ListenerBalance, WorkerBalance, WithinCapacity, Emptied, Joined,
       Receiving
<1>28. ASSUME NEW c \in Conns, ListenerAccept(c) PROVE Balance'
  <2>1. Occupied' = Occupied
    BY <1>28 DEF ListenerAccept, Occupied
  <2> QED
    BY <1>28, <2>1, ListSize DEF ListenerAccept, FreeBalance,
       ListenerBalance, WorkerBalance, WithinCapacity, Emptied, Joined,
       Receiving
<1>29. ASSUME NEW c \in Conns, WorkerEnter(c) PROVE Balance'
  <2>1. Occupied' = Occupied
    BY <1>29 DEF WorkerEnter, Occupied
  <2> QED
    BY <1>29, <2>1, ListSize DEF WorkerEnter, FreeBalance, ListenerBalance,
       WorkerBalance, WithinCapacity, Emptied, Joined, Receiving
<1>30. ASSUME NEW c \in Conns, WorkerLoop(c) PROVE Balance'
  <2>1. Occupied' = Occupied
    BY <1>30 DEF WorkerLoop, Occupied
  <2> QED
    BY <1>30, <2>1, ListSize DEF WorkerLoop, FreeBalance, ListenerBalance,
       WorkerBalance, WithinCapacity, Emptied, Joined, Receiving
<1>31. ASSUME NEW c \in Conns, WorkerExecute(c) PROVE Balance'
  <2>1. Occupied' = Occupied
    BY <1>31 DEF WorkerExecute, Occupied
  <2> QED
    BY <1>31, <2>1, ListSize DEF WorkerExecute, FreeBalance,
       ListenerBalance, WorkerBalance, WithinCapacity, Emptied, Joined,
       Receiving
<1>32. ASSUME NEW c \in Conns, DeleteLock(c) PROVE Balance'
  <2>1. Occupied' = Occupied
    BY <1>32 DEF DeleteLock, Occupied
  <2>2. FreeBalance'
    BY <1>32, <2>1, ListSize DEF DeleteLock, FreeBalance, ListenerBalance,
       WorkerBalance, Emptied, Joined, Receiving
  <2>3. ListenerBalance'
    BY <1>32, <2>1, ListSize DEF DeleteLock, ListenerBalance, FreeBalance,
       Joined, Receiving
  <2>4. WorkerBalance'
    <3> SUFFICES ASSUME NEW d \in Conns, InList(d)'
                 PROVE  ClientsCount' = IF pc'[d] = "decrement"
                                        THEN Cardinality(Occupied') + 1
                                        ELSE Cardinality(Occupied')
      BY DEF WorkerBalance
    <3>1. d = c
      BY <1>32 DEF DeleteLock
    <3>2. Workers[Index[c]] = c /\ Index[c] \in Slots
      BY <1>32 DEF DeleteLock, SlotsOwned, Attached
    <3>3. pc[Main] \notin {"dropped", "reset"}
      BY <1>32, <3>2 DEF DeleteLock, Emptied, Occupied
    <3> QED
      BY <1>32, <3>1, <3>3, <2>1, ListSize DEF DeleteLock, WorkerBalance,
         FreeBalance
  <2>5. WithinCapacity'
    BY <1>32, <2>1, ListSize DEF DeleteLock, WithinCapacity, Joined, Receiving
  <2>6. Emptied'
    BY <1>32, <2>1, ListSize DEF DeleteLock, Emptied, Slots, Occupied,
       Joined, Receiving
  <2> QED
    BY <2>2, <2>3, <2>4, <2>5, <2>6
<1>33. ASSUME NEW c \in Conns, DeleteClear(c) PROVE Balance'
  <2>1. Index[c] \in Slots /\ Workers[Index[c]] = c
    BY <1>33 DEF DeleteClear, SlotsOwned, Attached
  <2>2. Occupied' = Occupied \ {Index[c]} /\ Index[c] \in Occupied
    BY <1>33, <2>1 DEF DeleteClear, Occupied
  <2>3. Cardinality(Occupied') = Cardinality(Occupied) - 1
    BY <2>2, ListSize, FS_RemoveElement
  <2>4. FreeBalance'
    BY <1>33, <2>1, <2>2, <2>3, ListSize DEF DeleteClear, FreeBalance,
       ListenerBalance, WorkerBalance, Emptied, Joined, Receiving
  <2>5. ListenerBalance'
    BY <1>33, <2>1, <2>2, <2>3, ListSize DEF DeleteClear, ListenerBalance,
       FreeBalance, Joined, Receiving
  <2>6. WorkerBalance'
    <3> SUFFICES ASSUME NEW d \in Conns, InList(d)'
                 PROVE  ClientsCount' = IF pc'[d] = "decrement"
                                        THEN Cardinality(Occupied') + 1
                                        ELSE Cardinality(Occupied')
      BY DEF WorkerBalance
    <3>1. d = c
      BY <1>33 DEF DeleteClear
    <3> QED
      BY <1>33, <3>1, <2>3, ListSize DEF DeleteClear, WorkerBalance, FreeBalance
  <2>7. WithinCapacity'
    BY <2>3, ListSize, CapacityType DEF WithinCapacity
  <2>8. Emptied'
    BY <1>33, <2>1, <2>2, <2>3, ListSize DEF DeleteClear, Emptied, Slots,
       Occupied, Joined, Receiving
  <2> QED
    BY <2>4, <2>5, <2>6, <2>7, <2>8
<1>34. ASSUME NEW c \in Conns, DeleteDecrement(c) PROVE Balance'
  <2>1. Occupied' = Occupied
    BY <1>34 DEF DeleteDecrement, Occupied
  <2>2. FreeBalance'
    BY <1>34, <2>1, ListSize DEF DeleteDecrement, FreeBalance,
       ListenerBalance, WorkerBalance, Emptied, Joined, Receiving
  <2>3. ListenerBalance'
    BY <1>34, <2>1, ListSize DEF DeleteDecrement, ListenerBalance,
       FreeBalance, Joined, Receiving
  <2>4. WorkerBalance'
    <3> SUFFICES ASSUME NEW d \in Conns, InList(d)'
                 PROVE  ClientsCount' = IF pc'[d] = "decrement"
                                        THEN Cardinality(Occupied') + 1
                                        ELSE Cardinality(Occupied')
      BY DEF WorkerBalance
    <3>1. d = c
      BY <1>34 DEF DeleteDecrement
    <3> QED
      BY <1>34, <3>1, <2>1, ListSize DEF DeleteDecrement, WorkerBalance,
         FreeBalance
  <2>5. WithinCapacity'
    BY <1>34, <2>1, ListSize DEF DeleteDecrement, WithinCapacity, Joined,
       Receiving
  <2>6. Emptied'
    BY <1>34, <2>1, ListSize DEF DeleteDecrement, Emptied, Slots, Occupied,
       Joined, Receiving
  <2> QED
    BY <2>2, <2>3, <2>4, <2>5, <2>6
<1>35. ASSUME NEW c \in Conns, DeleteUnlock(c) PROVE Balance'
  <2>1. Occupied' = Occupied
    BY <1>35 DEF DeleteUnlock, Occupied
  <2> QED
    BY <1>35, <2>1, ListSize DEF DeleteUnlock, FreeBalance, ListenerBalance,
       WorkerBalance, WithinCapacity, Emptied, Joined, Receiving
<1>36. ASSUME NEW t \in Threads, EnterEvent(t) PROVE Balance'
  <2>1. Occupied' = Occupied
    BY <1>36 DEF EnterEvent, Occupied
  <2> QED
    BY <1>36, <2>1, ListSize DEF EnterEvent, FreeBalance, ListenerBalance,
       WorkerBalance, WithinCapacity, Emptied, Joined, Receiving, InEvent
<1>37. ASSUME NEW t \in Threads, LeaveEvent(t) PROVE Balance'
  <2>1. Occupied' = Occupied
    BY <1>37 DEF LeaveEvent, Occupied
  <2> QED
    BY <1>37, <2>1, ListSize DEF LeaveEvent, FreeBalance, ListenerBalance,
       WorkerBalance, WithinCapacity, Emptied, Joined, Receiving, InEvent,
       AfterEvent, MainEvents, ListenerEvents, WorkerEvents, FarewellEvents
<1>38. CASE UNCHANGED vars
  <2>1. Occupied' = Occupied
    BY <1>38 DEF vars, Occupied
  <2> QED
    BY <1>38, <2>1 DEF vars, FreeBalance, ListenerBalance, WorkerBalance,
       WithinCapacity, Emptied
<1> QED
  BY <1>1, <1>2, <1>3, <1>4, <1>5, <1>6, <1>7, <1>8, <1>9, <1>10, <1>11,
     <1>12, <1>13, <1>14, <1>15, <1>16, <1>17, <1>18, <1>19, <1>20, <1>21,
     <1>22, <1>23, <1>24, <1>25, <1>26, <1>27, <1>28, <1>29, <1>30, <1>31,
     <1>32, <1>33, <1>34, <1>35, <1>36, <1>37, <1>38 DEF Next, MainStep,
     ListenerStep, Worker

-----------------------------------------------------------------------------
(* The theorems *)

\* The server as it is constructed.
LEMMA InitInvariant == Init => IInv
<1> SUFFICES ASSUME Init PROVE IInv
  OBVIOUS
<1> USE ThreadsAssumption, SizesAssumption DEF Init
<1>1. LabelsOK
  BY DEF LabelsOK, Threads, MainLabels, ListenerLabels, WorkerLabels
<1>2. Occupied = {} /\ Cardinality(Occupied) = 0
  BY FS_EmptySet DEF Occupied
<1>3. \A t \in Threads : ~InList(t)
  BY DEF InList, Threads
<1>4. TypeOK
  BY <1>1 DEF TypeOK, Slots, Threads
<1>5. ListLock /\ Joined /\ Receiving /\ Sweeping
  BY <1>3 DEF ListLock, Joined, Receiving, Sweeping, Threads
<1>6. SlotsOwned
  BY DEF SlotsOwned, Attached, WorkerEvents, FarewellEvents, Threads
<1>7. Balance
  BY <1>2, <1>3, CapacityType
     DEF Balance, FreeBalance, ListenerBalance, WorkerBalance, WithinCapacity, Emptied, Threads
<1> QED
  BY <1>4, <1>5, <1>6, <1>7 DEF IInv

\* The invariant of the threads holds of every behaviour.
THEOREM Inductive == Spec => []IInv
<1>1. Init => IInv
  BY InitInvariant
<1>2. IInv /\ [Next]_vars => IInv'
  BY LabelsStep, TypeStep, LockStep, JoinedStep, ReceivingStep, SlotsStep,
     BalanceStep, SweepStep DEF IInv
<1> QED
  BY <1>1, <1>2, PTL DEF Spec

\* Every variable keeps its type; in particular ClientsCount never falls below
\* 0, however Delete, Incoming and KillAll interleave.
THEOREM TypeCorrect == Spec => []TypeOK
<1>1. IInv => TypeOK
  BY DEF IInv
<1> QED
  BY <1>1, Inductive, PTL

\* ClientsCount agrees with the workers list whenever CSList is free.
THEOREM ListAccounting == Spec => []CountMatchesList
<1>1. IInv => CountMatchesList
  BY DEF IInv, Balance, FreeBalance, CountMatchesList
<1> QED
  BY <1>1, Inductive, PTL

\* The limit of clients is never exceeded, although CanAccept is unlocked.
THEOREM LimitKept == Spec => []WithinCapacity
<1>1. IInv => WithinCapacity
  BY DEF IInv, Balance
<1> QED
  BY <1>1, Inductive, PTL

\* A worker that has not deleted itself owns exactly the slot of its Index.
THEOREM SlotsExclusive == Spec => []OwnSlot
<1>1. IInv => OwnSlot
  <2> SUFFICES ASSUME IInv, NEW c \in Conns, pc[c] \in Attached, NEW i \in Slots
               PROVE  Workers[i] = c <=> i = Index[c]
    BY DEF OwnSlot
  <2> QED
    BY ThreadsAssumption DEF IInv, SlotsOwned
<1> QED
  BY <1>1, Inductive, PTL
=============================================================================
