-------------------------- MODULE RegistryProofs ---------------------------
(***************************************************************************)
(* More proofs about MsgServer: nothing is reported after Stop, each       *)
(* connection is reported at most once of each kind, and the threads       *)
(* implement the registry of clients (ClientRegistry).                     *)
(***************************************************************************)
EXTENDS MsgServerProofs, SequenceTheorems

-----------------------------------------------------------------------------
(* Quiet after Stop *)

\* A worker that has been started and has not left the list.
Serving == Attached \ {"created"}

\* A listener that was killed inside CSList leaves the count as it was, which
\* differs from the list by the worker that it has not started.
LockLeft ==
    CSList = Listener /\ pc[Listener] = "killed" =>
        \/ ClientsCount = Cardinality(Occupied)
        \/ /\ ClientsCount = Cardinality(Occupied) - 1
           /\ \E c \in Conns : pc[c] = "created" /\ Workers[Index[c]] = c

\* From the wait for the clients on no worker serves.
Silent ==
    /\ pc[Main] \in {"dropped", "reset", "stopped", "idle", "deleted"} =>
          \A c \in Conns : pc[c] \notin Serving
    /\ pc[Main] = "dropped" => CSList # Listener
    /\ pc[Main] = "reset" /\ CSList = Listener => ClientsCount = 0

\* No client is counted, so none is served, although ClientsCount is read
\* without CSList.
LEMMA NobodyServed ==
    ASSUME IInv, LockLeft, pc[Main] \in {"terminateAll", "waiting"}, ClientsCount = 0
    PROVE  \A c \in Conns : pc[c] \notin Serving
<1> SUFFICES ASSUME NEW c \in Conns, pc[c] \in Serving
             PROVE  FALSE
  OBVIOUS
<1>1. /\ pc[c] \in Attached /\ pc[c] # "created" /\ Workers[Index[c]] = c
      /\ Index[c] \in Occupied
  BY ThreadsAssumption DEF Serving, IInv, SlotsOwned, TypeOK, Occupied
<1>2. Cardinality(Occupied) \in Nat /\ Cardinality(Occupied) > 0
  BY <1>1, ListSize
<1>3. CASE CSList = Nobody
  BY <1>2, <1>3 DEF IInv, Balance, FreeBalance
<1>4. CASE CSList \in Conns
  BY <1>2, <1>4 DEF IInv, Balance, WorkerBalance, ListLock
<1>5. CASE CSList = Main
  BY <1>5 DEF IInv, ListLock
<1>6. CASE CSList = Listener
  <2>1. pc[Listener] = "killed"
    BY <1>6, ThreadsAssumption DEF IInv, ListLock, Joined, InList
  <2>2. PICK d \in Conns : pc[d] = "created" /\ Workers[Index[d]] = d
    BY <1>2, <1>6, <2>1 DEF LockLeft
  <2>3. Cardinality(Occupied) = 1
    BY <1>2, <1>6, <2>1 DEF LockLeft
  <2>4. Index[d] \in Occupied
    BY <2>2, ThreadsAssumption DEF IInv, TypeOK, Occupied
  <2>5. Index[d] = Index[c]
    BY <1>1, <2>3, <2>4, ListSize, FS_Singleton
  <2> QED
    BY <1>1, <2>2, <2>5
<1> QED
  BY <1>3, <1>4, <1>5, <1>6 DEF IInv, TypeOK, Threads

\* What a killed listener leaves behind stays as it is.
LEMMA LockLeftStep ==
  ASSUME IInv, LockLeft, Silent, [Next]_vars
  PROVE  LockLeft'
<1> USE ThreadsAssumption, SizesAssumption, LabelsType DEF IInv, Goto, mainVars,
   listenerVars, listVars, logVars, Threads, TypeOK, LabelsOK, ListLock, InList, LockLeft
<1>1. CASE Start
  <2>1. Occupied' = Occupied
    BY <1>1 DEF Start, Occupied
  <2> QED
    BY <1>1, <2>1 DEF Start
<1>2. CASE Stop
  <2>1. Occupied' = Occupied
    BY <1>2 DEF Stop, Occupied
  <2> QED
    BY <1>2, <2>1 DEF Stop
<1>3. CASE JoinListener
  <2>1. Occupied' = Occupied
    BY <1>3 DEF JoinListener, Occupied
  <2> SUFFICES ASSUME CSList = Listener, pc'[Listener] = "killed"
               PROVE  LockLeft'
    BY <1>3 DEF JoinListener
  <2>2. InList(Listener) \/ pc[Listener] = "killed"
    BY DEF ListLock
  <2>3. CASE pc[Listener] = "count"
    <3>1. incoming \in Conns /\ pc'[incoming] = "created" /\ Workers[Index[incoming]] = incoming
      BY <1>3, <2>3 DEF JoinListener, Receiving, SlotsOwned, Attached
    <3> QED
      BY <1>3, <2>1, <2>3, <3>1 DEF JoinListener, Balance, ListenerBalance
  <2>4. CASE pc[Listener] # "count"
    BY <1>3, <2>1, <2>2, <2>4 DEF JoinListener, Balance, ListenerBalance
  <2> QED
    BY <2>3, <2>4
<1>4. CASE TerminateAll
  <2>1. Occupied' = Occupied
    BY <1>4 DEF TerminateAll, Occupied
  <2> QED
    BY <1>4, <2>1 DEF TerminateAll
<1>5. CASE TerminateRead
  <2>1. Occupied' = Occupied
    BY <1>5 DEF TerminateRead, Occupied
  <2> QED
    BY <1>5, <2>1 DEF TerminateRead
<1>6. CASE TerminateWorker
  <2>1. Occupied' = Occupied
    BY <1>6 DEF TerminateWorker, Occupied
  <2> QED
    BY <1>6, <2>1 DEF TerminateWorker
<1>7. CASE TerminateSwept
  <2>1. Occupied' = Occupied
    BY <1>7 DEF TerminateSwept, Occupied
  <2> QED
    BY <1>7, <2>1 DEF TerminateSwept
<1>8. CASE WaitClients
  <2>1. Occupied' = Occupied
    BY <1>8 DEF WaitClients, Occupied
  <2> QED
    BY <1>8, <2>1 DEF WaitClients
<1>9. CASE WaitTimeout
  <2>1. Occupied' = Occupied
    BY <1>9 DEF WaitTimeout, Occupied
  <2> QED
    BY <1>9, <2>1 DEF WaitTimeout
<1>10. CASE KillAllLock
  <2>1. Occupied' = Occupied
    BY <1>10 DEF KillAllLock, Occupied
  <2> QED
    BY <1>10, <2>1 DEF KillAllLock
<1>11. CASE KillWorker
  BY <1>11 DEF KillWorker, Live, Ended
<1>12. CASE KillSkip
  <2>1. Occupied' = Occupied
    BY <1>12 DEF KillSkip, Occupied
  <2> QED
    BY <1>12, <2>1 DEF KillSkip
<1>13. CASE KillCrash
  BY <1>13 DEF KillCrash
<1>14. CASE KillAllUnlock
  <2>1. Occupied' = Occupied
    BY <1>14 DEF KillAllUnlock, Occupied
  <2> QED
    BY <1>14, <2>1 DEF KillAllUnlock
<1>15. CASE Reset
  <2>1. Occupied' = Occupied
    BY <1>15 DEF Reset, Occupied
  <2> QED
    BY <1>15, <2>1 DEF Reset, Silent, Serving
<1>16. CASE Destroy
  <2>1. Occupied' = Occupied
    BY <1>16 DEF Destroy, Occupied
  <2> QED
    BY <1>16, <2>1 DEF Destroy
<1>17. CASE ListenerLoop
  <2>1. Occupied' = Occupied
    BY <1>17 DEF ListenerLoop, Occupied
  <2> QED
    BY <1>17, <2>1 DEF ListenerLoop
<1>18. CASE ListenerIdle
  <2>1. Occupied' = Occupied
    BY <1>18 DEF ListenerIdle, Occupied
  <2> QED
    BY <1>18, <2>1 DEF ListenerIdle
<1>19. CASE ListenerDrop
  <2>1. Occupied' = Occupied
    BY <1>19 DEF ListenerDrop, Occupied
  <2> QED
    BY <1>19, <2>1 DEF ListenerDrop
<1>20. CASE IncomingReject
  <2>1. Occupied' = Occupied
    BY <1>20 DEF IncomingReject, Occupied
  <2> QED
    BY <1>20, <2>1 DEF IncomingReject
<1>21. CASE Incoming
  <2>1. Occupied' = Occupied
    BY <1>21 DEF Incoming, Occupied
  <2> QED
    BY <1>21, <2>1 DEF Incoming
<1>22. CASE IncomingLock
  <2>1. Occupied' = Occupied
    BY <1>22 DEF IncomingLock, Occupied
  <2> QED
    BY <1>22, <2>1 DEF IncomingLock
<1>23. CASE IncomingPlace
  BY <1>23 DEF IncomingPlace
<1>24. CASE IncomingCount
  <2>1. Occupied' = Occupied
    BY <1>24 DEF IncomingCount, Occupied
  <2> QED
    BY <1>24, <2>1 DEF IncomingCount
<1>25. CASE IncomingStart
  <2>1. Occupied' = Occupied
    BY <1>25 DEF IncomingStart, Occupied
  <2> QED
    BY <1>25, <2>1 DEF IncomingStart
<1>26. CASE IncomingHandle
  <2>1. Occupied' = Occupied
    BY <1>26 DEF IncomingHandle, HasSocket, Occupied
  <2> QED
    BY <1>26, <2>1 DEF IncomingHandle, HasSocket
<1>27. CASE IncomingUnlock
  <2>1. Occupied' = Occupied
    BY <1>27 DEF IncomingUnlock, Occupied
  <2> QED
    BY <1>27, <2>1 DEF IncomingUnlock
<1>28. ASSUME NEW c \in Conns, ListenerAccept(c) PROVE LockLeft'
  <2>1. Occupied' = Occupied
    BY <1>28 DEF ListenerAccept, Occupied
  <2> QED
    BY <1>28, <2>1 DEF ListenerAccept
<1>29. ASSUME NEW c \in Conns, WorkerEnter(c) PROVE LockLeft'
  <2>1. Occupied' = Occupied
    BY <1>29 DEF WorkerEnter, Occupied
  <2> QED
    BY <1>29, <2>1 DEF WorkerEnter
<1>30. ASSUME NEW c \in Conns, WorkerLoop(c) PROVE LockLeft'
  <2>1. Occupied' = Occupied
    BY <1>30 DEF WorkerLoop, Occupied
  <2> QED
    BY <1>30, <2>1 DEF WorkerLoop
<1>31. ASSUME NEW c \in Conns, WorkerExecute(c) PROVE LockLeft'
  <2>1. Occupied' = Occupied
    BY <1>31 DEF WorkerExecute, Occupied
  <2> QED
    BY <1>31, <2>1 DEF WorkerExecute
<1>32. ASSUME NEW c \in Conns, DeleteLock(c) PROVE LockLeft'
  <2>1. Occupied' = Occupied
    BY <1>32 DEF DeleteLock, Occupied
  <2> QED
    BY <1>32, <2>1 DEF DeleteLock
<1>33. ASSUME NEW c \in Conns, DeleteClear(c) PROVE LockLeft'
  BY <1>33 DEF DeleteClear
<1>34. ASSUME NEW c \in Conns, DeleteDecrement(c) PROVE LockLeft'
  <2>1. Occupied' = Occupied
    BY <1>34 DEF DeleteDecrement, Occupied
  <2> QED
    BY <1>34, <2>1 DEF DeleteDecrement
<1>35. ASSUME NEW c \in Conns, DeleteUnlock(c) PROVE LockLeft'
  <2>1. Occupied' = Occupied
    BY <1>35 DEF DeleteUnlock, Occupied
  <2> QED
    BY <1>35, <2>1 DEF DeleteUnlock
<1>36. ASSUME NEW t \in Threads, EnterEvent(t) PROVE LockLeft'
  <2>1. Occupied' = Occupied
    BY <1>36 DEF EnterEvent, InEvent, Occupied
  <2> QED
    BY <1>36, <2>1 DEF EnterEvent, InEvent
<1>37. ASSUME NEW t \in Threads, LeaveEvent(t) PROVE LockLeft'
  <2>1. Occupied' = Occupied
    BY <1>37 DEF LeaveEvent, InEvent, AfterEvent, MainEvents, ListenerEvents, WorkerEvents,
       FarewellEvents, Occupied
  <2> QED
    BY <1>37, <2>1 DEF LeaveEvent, InEvent, AfterEvent, MainEvents, ListenerEvents,
       WorkerEvents, FarewellEvents
<1>38. CASE UNCHANGED vars
  <2>1. Occupied' = Occupied
    BY <1>38 DEF vars, Occupied
  <2> QED
    BY <1>38, <2>1 DEF vars
<1> QED
  BY <1>1, <1>2, <1>3, <1>4, <1>5, <1>6, <1>7, <1>8, <1>9, <1>10, <1>11,
     <1>12, <1>13, <1>14, <1>15, <1>16, <1>17, <1>18, <1>19, <1>20, <1>21,
     <1>22, <1>23, <1>24, <1>25, <1>26, <1>27, <1>28, <1>29, <1>30, <1>31,
     <1>32, <1>33, <1>34, <1>35, <1>36, <1>37, <1>38 DEF Next, MainStep,
     ListenerStep, Worker

\* No worker begins to serve once the listener has ended.
LEMMA NoneBegins ==
  ASSUME IInv, [Next]_vars, pc[Listener] \in {"off", "gone", "killed"}, pc[Main] # "init",
         NEW d \in Conns, pc'[d] \in Serving
  PROVE  pc[d] \in Serving
<1> USE ThreadsAssumption, SizesAssumption, LabelsType DEF IInv, Goto, mainVars,
   listenerVars, listVars, logVars, Threads, TypeOK, LabelsOK, Serving, Attached,
   WorkerEvents, FarewellEvents
<1>1. CASE Start
  BY <1>1 DEF Start
<1>2. CASE Stop
  BY <1>2 DEF Stop
<1>3. CASE JoinListener
  BY <1>3 DEF JoinListener
<1>4. CASE TerminateAll
  BY <1>4 DEF TerminateAll
<1>5. CASE TerminateRead
  BY <1>5 DEF TerminateRead
<1>6. CASE TerminateWorker
  BY <1>6 DEF TerminateWorker
<1>7. CASE TerminateSwept
  BY <1>7 DEF TerminateSwept
<1>8. CASE WaitClients
  BY <1>8 DEF WaitClients
<1>9. CASE WaitTimeout
  BY <1>9 DEF WaitTimeout
<1>10. CASE KillAllLock
  BY <1>10 DEF KillAllLock
<1>11. CASE KillWorker
  BY <1>11 DEF KillWorker, Live, Ended, Occupied
<1>12. CASE KillSkip
  BY <1>12 DEF KillSkip
<1>13. CASE KillCrash
  BY <1>13 DEF KillCrash, Live, Ended, HasSocket, Occupied
<1>14. CASE KillAllUnlock
  BY <1>14 DEF KillAllUnlock
<1>15. CASE Reset
  BY <1>15 DEF Reset
<1>16. CASE Destroy
  BY <1>16 DEF Destroy
<1>17. CASE ListenerLoop
  BY <1>17 DEF ListenerLoop
<1>18. CASE ListenerIdle
  BY <1>18 DEF ListenerIdle
<1>19. CASE ListenerDrop
  BY <1>19 DEF ListenerDrop
<1>20. CASE IncomingReject
  BY <1>20 DEF IncomingReject
<1>21. CASE Incoming
  BY <1>21 DEF Incoming
<1>22. CASE IncomingLock
  BY <1>22 DEF IncomingLock
<1>23. CASE IncomingPlace
  BY <1>23 DEF IncomingPlace
<1>24. CASE IncomingCount
  BY <1>24 DEF IncomingCount
<1>25. CASE IncomingStart
  BY <1>25 DEF IncomingStart
<1>26. CASE IncomingHandle
  BY <1>26 DEF IncomingHandle, HasSocket
<1>27. CASE IncomingUnlock
  BY <1>27 DEF IncomingUnlock
<1>28. ASSUME NEW c \in Conns, ListenerAccept(c) PROVE pc[d] \in Serving
  BY <1>28 DEF ListenerAccept
<1>29. ASSUME NEW c \in Conns, WorkerEnter(c) PROVE pc[d] \in Serving
  BY <1>29 DEF WorkerEnter
<1>30. ASSUME NEW c \in Conns, WorkerLoop(c) PROVE pc[d] \in Serving
  BY <1>30 DEF WorkerLoop
<1>31. ASSUME NEW c \in Conns, WorkerExecute(c) PROVE pc[d] \in Serving
  BY <1>31 DEF WorkerExecute
<1>32. ASSUME NEW c \in Conns, DeleteLock(c) PROVE pc[d] \in Serving
  BY <1>32 DEF DeleteLock
<1>33. ASSUME NEW c \in Conns, DeleteClear(c) PROVE pc[d] \in Serving
  BY <1>33 DEF DeleteClear
<1>34. ASSUME NEW c \in Conns, DeleteDecrement(c) PROVE pc[d] \in Serving
  BY <1>34 DEF DeleteDecrement
<1>35. ASSUME NEW c \in Conns, DeleteUnlock(c) PROVE pc[d] \in Serving
  BY <1>35 DEF DeleteUnlock
<1>36. ASSUME NEW t \in Threads, EnterEvent(t) PROVE pc[d] \in Serving
  BY <1>36 DEF EnterEvent, InEvent
<1>37. ASSUME NEW t \in Threads, LeaveEvent(t) PROVE pc[d] \in Serving
  BY <1>37 DEF LeaveEvent, InEvent, AfterEvent, MainEvents, ListenerEvents, WorkerEvents,
     FarewellEvents
<1>38. CASE UNCHANGED vars
  BY <1>38 DEF vars
<1> QED
  BY <1>1, <1>2, <1>3, <1>4, <1>5, <1>6, <1>7, <1>8, <1>9, <1>10, <1>11,
     <1>12, <1>13, <1>14, <1>15, <1>16, <1>17, <1>18, <1>19, <1>20, <1>21,
     <1>22, <1>23, <1>24, <1>25, <1>26, <1>27, <1>28, <1>29, <1>30, <1>31,
     <1>32, <1>33, <1>34, <1>35, <1>36, <1>37, <1>38 DEF Next, MainStep,
     ListenerStep, Worker

\* The labels of Stop after it has seen the last worker.
Over == {"dropped", "reset", "stopped", "idle", "deleted"}

\* How the main thread gets past the workers.
LEMMA ComesOver ==
  ASSUME IInv, [Next]_vars, pc'[Main] \in Over
  PROVE  \/ pc[Main] \in Over
         \/ TerminateAll /\ ClientsCount = 0
         \/ WaitClients
         \/ KillAllUnlock
         \/ Stop /\ Status # "SrvRunning"
<1> DEFINE Crossed == \/ pc[Main] \in Over
                      \/ TerminateAll /\ ClientsCount = 0
                      \/ WaitClients
                      \/ KillAllUnlock
                      \/ Stop /\ Status # "SrvRunning"
<1> SUFFICES Crossed
  OBVIOUS
<1> USE ThreadsAssumption, SizesAssumption, LabelsType DEF IInv, Goto, mainVars,
   listenerVars, listVars, logVars, Threads, TypeOK, LabelsOK, Over, Receiving
<1>1. CASE Start
  BY <1>1 DEF Start
<1>2. CASE Stop
  BY <1>2 DEF Stop
<1>3. CASE JoinListener
  BY <1>3 DEF JoinListener
<1>4. CASE TerminateAll
  <2>1. ClientsCount > 0 => pc'[Main] = "terminating"
    BY <1>4 DEF TerminateAll
  <2>2. ClientsCount > 0 \/ ClientsCount = 0
    OBVIOUS
  <2> QED
    BY <1>4, <2>1, <2>2
<1>5. CASE TerminateRead
  BY <1>5 DEF TerminateRead
<1>6. CASE TerminateWorker
  BY <1>6 DEF TerminateWorker
<1>7. CASE TerminateSwept
  BY <1>7 DEF TerminateSwept
<1>8. CASE WaitClients
  BY <1>8
<1>9. CASE WaitTimeout
  BY <1>9 DEF WaitTimeout
<1>10. CASE KillAllLock
  BY <1>10 DEF KillAllLock
<1>11. CASE KillWorker
  BY <1>11 DEF KillWorker, Live, Ended, Occupied
<1>12. CASE KillSkip
  BY <1>12 DEF KillSkip
<1>13. CASE KillCrash
  BY <1>13 DEF KillCrash, Live, Ended, HasSocket, Occupied
<1>14. CASE KillAllUnlock
  BY <1>14
<1>15. CASE Reset
  BY <1>15 DEF Reset
<1>16. CASE Destroy
  BY <1>16 DEF Destroy
<1>17. CASE ListenerLoop
  BY <1>17 DEF ListenerLoop
<1>18. CASE ListenerIdle
  BY <1>18 DEF ListenerIdle
<1>19. CASE ListenerDrop
  BY <1>19 DEF ListenerDrop
<1>20. CASE IncomingReject
  BY <1>20 DEF IncomingReject
<1>21. CASE Incoming
  BY <1>21 DEF Incoming
<1>22. CASE IncomingLock
  BY <1>22 DEF IncomingLock
<1>23. CASE IncomingPlace
  BY <1>23 DEF IncomingPlace
<1>24. CASE IncomingCount
  BY <1>24 DEF IncomingCount
<1>25. CASE IncomingStart
  BY <1>25 DEF IncomingStart
<1>26. CASE IncomingHandle
  BY <1>26 DEF IncomingHandle, HasSocket
<1>27. CASE IncomingUnlock
  BY <1>27 DEF IncomingUnlock
<1>28. ASSUME NEW c \in Conns, ListenerAccept(c) PROVE Crossed
  BY <1>28 DEF ListenerAccept
<1>29. ASSUME NEW c \in Conns, WorkerEnter(c) PROVE Crossed
  BY <1>29 DEF WorkerEnter
<1>30. ASSUME NEW c \in Conns, WorkerLoop(c) PROVE Crossed
  BY <1>30 DEF WorkerLoop
<1>31. ASSUME NEW c \in Conns, WorkerExecute(c) PROVE Crossed
  BY <1>31 DEF WorkerExecute
<1>32. ASSUME NEW c \in Conns, DeleteLock(c) PROVE Crossed
  BY <1>32 DEF DeleteLock
<1>33. ASSUME NEW c \in Conns, DeleteClear(c) PROVE Crossed
  BY <1>33 DEF DeleteClear
<1>34. ASSUME NEW c \in Conns, DeleteDecrement(c) PROVE Crossed
  BY <1>34 DEF DeleteDecrement
<1>35. ASSUME NEW c \in Conns, DeleteUnlock(c) PROVE Crossed
  BY <1>35 DEF DeleteUnlock
<1>36. ASSUME NEW t \in Threads, EnterEvent(t) PROVE Crossed
  BY <1>36 DEF EnterEvent, InEvent
<1>37. ASSUME NEW t \in Threads, LeaveEvent(t) PROVE Crossed
  BY <1>37 DEF LeaveEvent, InEvent, AfterEvent, MainEvents, ListenerEvents, WorkerEvents,
     FarewellEvents
<1>38. CASE UNCHANGED vars
  BY <1>38 DEF vars
<1> QED
  BY <1>1, <1>2, <1>3, <1>4, <1>5, <1>6, <1>7, <1>8, <1>9, <1>10, <1>11,
     <1>12, <1>13, <1>14, <1>15, <1>16, <1>17, <1>18, <1>19, <1>20, <1>21,
     <1>22, <1>23, <1>24, <1>25, <1>26, <1>27, <1>28, <1>29, <1>30, <1>31,
     <1>32, <1>33, <1>34, <1>35, <1>36, <1>37, <1>38 DEF Next, MainStep,
     ListenerStep, Worker

\* The rest of Silent: the lock and the count after KillAll and after the wait.
LEMMA LockAfterKill ==
  ASSUME IInv, Silent, [Next]_vars
  PROVE  /\ pc'[Main] = "dropped" => CSList' # Listener
         /\ pc'[Main] = "reset" /\ CSList' = Listener => ClientsCount' = 0
<1> DEFINE Kept == /\ pc'[Main] = "dropped" => CSList' # Listener
                   /\ pc'[Main] = "reset" /\ CSList' = Listener => ClientsCount' = 0
<1> SUFFICES Kept
  OBVIOUS
<1> USE ThreadsAssumption, SizesAssumption, LabelsType DEF IInv, Goto, mainVars,
   listenerVars, listVars, logVars, Threads, TypeOK, LabelsOK, ListLock, InList, Joined,
   Receiving, Silent
<1>1. CASE Start
  BY <1>1 DEF Start
<1>2. CASE Stop
  BY <1>2 DEF Stop
<1>3. CASE JoinListener
  BY <1>3 DEF JoinListener
<1>4. CASE TerminateAll
  BY <1>4 DEF TerminateAll
<1>5. CASE TerminateRead
  BY <1>5 DEF TerminateRead
<1>6. CASE TerminateWorker
  BY <1>6 DEF TerminateWorker
<1>7. CASE TerminateSwept
  BY <1>7 DEF TerminateSwept
<1>8. CASE WaitClients
  BY <1>8 DEF WaitClients
<1>9. CASE WaitTimeout
  BY <1>9 DEF WaitTimeout
<1>10. CASE KillAllLock
  BY <1>10 DEF KillAllLock
<1>11. CASE KillWorker
  BY <1>11 DEF KillWorker, Live, Ended, Occupied
<1>12. CASE KillSkip
  BY <1>12 DEF KillSkip
<1>13. CASE KillCrash
  BY <1>13 DEF KillCrash, Live, Ended, HasSocket, Occupied
<1>14. CASE KillAllUnlock
  BY <1>14 DEF KillAllUnlock
<1>15. CASE Reset
  BY <1>15 DEF Reset
<1>16. CASE Destroy
  BY <1>16 DEF Destroy
<1>17. CASE ListenerLoop
  BY <1>17 DEF ListenerLoop
<1>18. CASE ListenerIdle
  BY <1>18 DEF ListenerIdle
<1>19. CASE ListenerDrop
  BY <1>19 DEF ListenerDrop
<1>20. CASE IncomingReject
  BY <1>20 DEF IncomingReject
<1>21. CASE Incoming
  BY <1>21 DEF Incoming
<1>22. CASE IncomingLock
  BY <1>22 DEF IncomingLock
<1>23. CASE IncomingPlace
  BY <1>23 DEF IncomingPlace
<1>24. CASE IncomingCount
  BY <1>24 DEF IncomingCount
<1>25. CASE IncomingStart
  BY <1>25 DEF IncomingStart
<1>26. CASE IncomingHandle
  BY <1>26 DEF IncomingHandle, HasSocket
<1>27. CASE IncomingUnlock
  BY <1>27 DEF IncomingUnlock
<1>28. ASSUME NEW c \in Conns, ListenerAccept(c) PROVE Kept
  BY <1>28 DEF ListenerAccept
<1>29. ASSUME NEW c \in Conns, WorkerEnter(c) PROVE Kept
  BY <1>29 DEF WorkerEnter
<1>30. ASSUME NEW c \in Conns, WorkerLoop(c) PROVE Kept
  BY <1>30 DEF WorkerLoop
<1>31. ASSUME NEW c \in Conns, WorkerExecute(c) PROVE Kept
  BY <1>31 DEF WorkerExecute
<1>32. ASSUME NEW c \in Conns, DeleteLock(c) PROVE Kept
  BY <1>32 DEF DeleteLock
<1>33. ASSUME NEW c \in Conns, DeleteClear(c) PROVE Kept
  BY <1>33 DEF DeleteClear
<1>34. ASSUME NEW c \in Conns, DeleteDecrement(c) PROVE Kept
  BY <1>34 DEF DeleteDecrement
<1>35. ASSUME NEW c \in Conns, DeleteUnlock(c) PROVE Kept
  BY <1>35 DEF DeleteUnlock
<1>36. ASSUME NEW t \in Threads, EnterEvent(t) PROVE Kept
  BY <1>36 DEF EnterEvent, InEvent
<1>37. ASSUME NEW t \in Threads, LeaveEvent(t) PROVE Kept
  BY <1>37 DEF LeaveEvent, InEvent, AfterEvent, MainEvents, ListenerEvents, WorkerEvents,
     FarewellEvents
<1>38. CASE UNCHANGED vars
  BY <1>38 DEF vars
<1> QED
  BY <1>1, <1>2, <1>3, <1>4, <1>5, <1>6, <1>7, <1>8, <1>9, <1>10, <1>11,
     <1>12, <1>13, <1>14, <1>15, <1>16, <1>17, <1>18, <1>19, <1>20, <1>21,
     <1>22, <1>23, <1>24, <1>25, <1>26, <1>27, <1>28, <1>29, <1>30, <1>31,
     <1>32, <1>33, <1>34, <1>35, <1>36, <1>37, <1>38 DEF Next, MainStep,
     ListenerStep, Worker

\* From there on nobody serves, and nobody begins to.
LEMMA SilentStep ==
    ASSUME IInv, LockLeft, Silent, [Next]_vars
    PROVE  Silent'
<1> USE ThreadsAssumption DEF Goto
<1>1. ASSUME pc'[Main] \in Over PROVE \A c \in Conns : pc'[c] \notin Serving
  <2> SUFFICES ASSUME NEW c \in Conns, pc'[c] \in Serving
               PROVE  FALSE
    OBVIOUS
  <2>1. CASE pc[Main] \in Over
    <3>1. pc[Listener] \in {"off", "gone", "killed"} /\ pc[Main] # "init"
      BY <2>1 DEF Over, IInv, Joined
    <3> QED
      BY <2>1, <3>1, NoneBegins DEF Silent, Over
  <2>2. CASE (TerminateAll /\ ClientsCount = 0) \/ WaitClients
    <3>1. pc[Main] \in {"terminateAll", "waiting"} /\ ClientsCount = 0
      BY <2>2 DEF TerminateAll, WaitClients
    <3>2. pc[Listener] \in {"off", "gone", "killed"} /\ pc[Main] # "init"
      BY <3>1 DEF IInv, Joined
    <3> QED
      BY <3>1, <3>2, NobodyServed, NoneBegins
  <2>3. CASE KillAllUnlock
    <3>1. pc[Main] = "killing" /\ k = MaxWorkers
      BY <2>3 DEF KillAllUnlock
    <3>2. pc[Listener] \in {"off", "gone", "killed"}
      BY <3>1 DEF IInv, Joined
    <3>3. pc[c] \in Serving
      BY <3>1, <3>2, NoneBegins
    <3>4. Workers[Index[c]] = c /\ Index[c] \in Slots /\ Index[c] < k
      BY <3>1, <3>3, SizesAssumption DEF Serving, IInv, SlotsOwned, TypeOK, Slots
    <3> QED
      BY <3>1, <3>4 DEF IInv, Balance, Emptied
  <2>4. CASE Stop /\ Status # "SrvRunning"
    <3>1. pc[Main] = "running" /\ pc[Listener] = "off" /\ pc[c] = "away"
      BY <2>4 DEF Stop, IInv, Joined
    <3> QED
      BY <3>1, NoneBegins DEF Serving, Attached, WorkerEvents, FarewellEvents
  <2> QED
    BY <1>1, <2>1, <2>2, <2>3, <2>4, ComesOver
<1> QED
  BY <1>1, LockAfterKill DEF Silent, Over

\* What Stop relies on holds at all times.
THEOREM QuietInductive == Spec => [](LockLeft /\ Silent)
<1>1. Init => LockLeft /\ Silent
  BY ThreadsAssumption DEF Init, LockLeft, Silent, Threads
<1>2. IInv /\ LockLeft /\ Silent /\ [Next]_vars => (LockLeft /\ Silent)'
  BY LockLeftStep, SilentStep
<1> QED
  BY <1>1, <1>2, Inductive, PTL DEF Spec

\* After Stop has set Status (snap_tcpsrvr.cpp:449) only ServerStopped is
\* reported, although Stop reads ClientsCount without CSList, and even when the
\* listener had to be killed inside it.
THEOREM NothingAfterStop == Spec => []QuietAfterStop
<1>1. IInv /\ Silent => QuietAfterStop
  BY DEF IInv, Joined, Silent, Serving, QuietAfterStop
<1> QED
  BY <1>1, Inductive, QuietInductive, PTL

-----------------------------------------------------------------------------
(* Each event once *)

\* A worker that has been started and has not taken leave.
Staying == {"created", "born", "loop", "exec"} \cup WorkerEvents

\* What may have been reported of a connection, by the place of its worker.
TrailsOK ==
    \A c \in Conns :
        /\ trail[c] \in Reports
        /\ pc[c] = "away" => trail[c] = <<>>
        /\ pc[c] \in Staying => trail[c] \in {<<>>, <<"added">>}

\* The listener reports what has not been reported, and of the connection it is
\* dealing with.
SenderOK ==
    /\ pc[Listener] \in {"accepted", "lock", "place", "count", "start", "handle",
                         "rejected", "noRoom"} => sender = incoming /\ incoming \in Conns
    /\ pc[Listener] \in {"rejected", "noRoom"} =>
          pc[incoming] = "refused" /\ trail[incoming] = <<>>
    /\ pc[Listener] \in {"count", "start"} => trail[incoming] = <<>>
    /\ pc[Listener] \in {"handle", "added"} =>
          /\ incoming \in Conns /\ pc[incoming] # "away" /\ sender \in {incoming, Nobody}
          /\ trail[incoming] \in {<<>>} \cup {<<f>> : f \in FarewellEvents}

\* What becomes of a trail of none or one.
LEMMA Appended ==
    ASSUME NEW f, NEW g
    PROVE  Append(<<>>, f) = <<f>> /\ Append(<<f>>, g) = <<f, g>>
<1> DEFINE S == {f, g}
           one == <<f>>
           both == <<f, g>>
           longer == Append(one, g)
<1>1. Append(<<>>, f) = <<f>>
  OBVIOUS
<1>2. /\ one \in Seq(S) /\ Len(one) = 1 /\ one[1] = f /\ g \in S
      /\ both \in Seq(S) /\ Len(both) = 2 /\ both[1] = f /\ both[2] = g
  OBVIOUS
<1>3. longer \in Seq(S) /\ Len(longer) = 2 /\ longer[1] = f /\ longer[2] = g
  <2> HIDE DEF S, one
  <2>1. \A q \in Seq(S), e \in S :
            /\ Append(q, e) \in Seq(S) /\ Len(Append(q, e)) = Len(q) + 1
            /\ Append(q, e)[Len(q) + 1] = e
            /\ \A j \in 1 .. Len(q) : Append(q, e)[j] = q[j]
    BY AppendProperties
  <2>2. /\ longer \in Seq(S) /\ Len(longer) = Len(one) + 1 /\ longer[Len(one) + 1] = g
        /\ \A j \in 1 .. Len(one) : longer[j] = one[j]
    BY <1>2, <2>1
  <2> HIDE DEF longer
  <2> QED
    BY <1>2, <2>2
<1>4. longer = both
  <2> HIDE DEF S, one, both, longer
  <2>1. Len(longer) = Len(both) /\ \A j \in 1 .. Len(longer) : longer[j] = both[j]
    BY <1>2, <1>3
  <2> QED
    BY <1>2, <1>3, <2>1, SeqEqual
<1> QED
  BY <1>1, <1>4

\* Every step keeps what is reported of each connection to one of the Reports.
LEMMA TrailsStep ==
  ASSUME IInv, TrailsOK, SenderOK, [Next]_vars
  PROVE  TrailsOK' /\ SenderOK'
<1> USE ThreadsAssumption, SizesAssumption, LabelsType DEF IInv, Goto, mainVars,
   listenerVars, listVars, logVars, Threads, TypeOK, LabelsOK, Receiving, Staying,
   WorkerEvents, FarewellEvents, TrailsOK, SenderOK
<1>1. CASE Start
  BY <1>1 DEF Start
<1>2. CASE Stop
  BY <1>2 DEF Stop
<1>3. CASE JoinListener
  BY <1>3 DEF JoinListener
<1>4. CASE TerminateAll
  BY <1>4 DEF TerminateAll
<1>5. CASE TerminateRead
  BY <1>5 DEF TerminateRead
<1>6. CASE TerminateWorker
  BY <1>6 DEF TerminateWorker
<1>7. CASE TerminateSwept
  BY <1>7 DEF TerminateSwept
<1>8. CASE WaitClients
  BY <1>8 DEF WaitClients
<1>9. CASE WaitTimeout
  BY <1>9 DEF WaitTimeout
<1>10. CASE KillAllLock
  BY <1>10 DEF KillAllLock
<1>11. CASE KillWorker
  BY <1>11 DEF KillWorker, Live, Ended, Occupied
<1>12. CASE KillSkip
  BY <1>12 DEF KillSkip
<1>13. CASE KillCrash
  BY <1>13 DEF KillCrash, Live, Ended, HasSocket, Occupied
<1>14. CASE KillAllUnlock
  BY <1>14 DEF KillAllUnlock
<1>15. CASE Reset
  BY <1>15 DEF Reset
<1>16. CASE Destroy
  BY <1>16 DEF Destroy
<1>17. CASE ListenerLoop
  BY <1>17 DEF ListenerLoop
<1>18. CASE ListenerIdle
  BY <1>18 DEF ListenerIdle
<1>19. CASE ListenerDrop
  BY <1>19 DEF ListenerDrop
<1>20. CASE IncomingReject
  BY <1>20 DEF IncomingReject
<1>21. CASE Incoming
  BY <1>21 DEF Incoming
<1>22. CASE IncomingLock
  BY <1>22 DEF IncomingLock
<1>23. CASE IncomingPlace
  BY <1>23 DEF IncomingPlace
<1>24. CASE IncomingCount
  BY <1>24 DEF IncomingCount
<1>25. CASE IncomingStart
  BY <1>25 DEF IncomingStart
<1>26. CASE IncomingHandle
  BY <1>26 DEF IncomingHandle, HasSocket
<1>27. CASE IncomingUnlock
  BY <1>27 DEF IncomingUnlock
<1>28. ASSUME NEW c \in Conns, ListenerAccept(c) PROVE TrailsOK' /\ SenderOK'
  BY <1>28 DEF ListenerAccept
<1>29. ASSUME NEW c \in Conns, WorkerEnter(c) PROVE TrailsOK' /\ SenderOK'
  BY <1>29 DEF WorkerEnter
<1>30. ASSUME NEW c \in Conns, WorkerLoop(c) PROVE TrailsOK' /\ SenderOK'
  BY <1>30 DEF WorkerLoop
<1>31. ASSUME NEW c \in Conns, WorkerExecute(c) PROVE TrailsOK' /\ SenderOK'
  BY <1>31 DEF WorkerExecute
<1>32. ASSUME NEW c \in Conns, DeleteLock(c) PROVE TrailsOK' /\ SenderOK'
  BY <1>32 DEF DeleteLock
<1>33. ASSUME NEW c \in Conns, DeleteClear(c) PROVE TrailsOK' /\ SenderOK'
  BY <1>33 DEF DeleteClear
<1>34. ASSUME NEW c \in Conns, DeleteDecrement(c) PROVE TrailsOK' /\ SenderOK'
  BY <1>34 DEF DeleteDecrement
<1>35. ASSUME NEW c \in Conns, DeleteUnlock(c) PROVE TrailsOK' /\ SenderOK'
  BY <1>35 DEF DeleteUnlock
<1>36. ASSUME NEW t \in Threads, EnterEvent(t) PROVE TrailsOK' /\ SenderOK'
  BY <1>36 DEF EnterEvent, InEvent
<1>37. ASSUME NEW t \in Threads, LeaveEvent(t) PROVE TrailsOK' /\ SenderOK'
  <2>1. /\ pc'[t] = AfterEvent(pc[t]) /\ \A u \in Threads : u # t => pc'[u] = pc[u]
        /\ sender' = sender /\ incoming' = incoming
    BY <1>37 DEF LeaveEvent
  <2>2. CASE t = Main
    <3>1. trail' = trail
      BY <1>37, <2>2 DEF LeaveEvent
    <3> QED
      BY <2>1, <2>2, <3>1
  <2>3. CASE t = Listener
    <3>1. /\ pc[Listener] \in ListenerEvents /\ pc'[Listener] \in {"unlock", "loop"}
          /\ trail' = IF sender \in Conns
                      THEN [trail EXCEPT ![sender] = Append(@, pc[Listener])] ELSE trail
      BY <1>37, <2>1, <2>3 DEF LeaveEvent, InEvent, AfterEvent, ListenerEvents
    <3>2. \A c \in Conns : pc'[c] = pc[c]
      BY <2>1, <2>3
    <3>3. SenderOK'
      BY <3>1
    <3>4. ASSUME NEW c \in Conns, c # sender PROVE trail'[c] = trail[c]
      BY <3>1, <3>4
    <3>5. ASSUME sender \in Conns, pc[Listener] = "added"
          PROVE  /\ trail'[sender] \in Reports /\ pc[sender] # "away"
                 /\ pc[sender] \in Staying => trail'[sender] = <<"added">>
      <4>1. trail'[sender] = Append(trail[sender], "added")
        BY <3>1, <3>5
      <4>2. /\ pc[sender] # "away"
            /\ trail[sender] = <<>> \/ \E f \in FarewellEvents : trail[sender] = <<f>>
        BY <3>5
      <4>3. CASE trail[sender] = <<>>
        <5>1. trail'[sender] = <<"added">>
          BY <4>1, <4>3, Appended
        <5> QED
          BY <4>2, <5>1 DEF Reports
      <4>4. ASSUME NEW f \in FarewellEvents, trail[sender] = <<f>>
            PROVE  trail'[sender] \in Reports /\ pc[sender] \notin Staying
        <5>1. trail'[sender] = <<f, "added">>
          BY <4>1, <4>4, Appended
        <5>2. trail'[sender] \in Reports
          BY <5>1 DEF Reports
        <5>3. f # "added"
          OBVIOUS
        <5>4. trail[sender] # <<>> /\ trail[sender] # <<"added">>
          BY <4>4, <5>3
        <5>5. pc[sender] \notin Staying
          BY <5>4, <3>5
        <5> QED
          BY <5>2, <5>5
      <4> QED
        BY <4>2, <4>3, <4>4
    <3>6. ASSUME sender \in Conns, pc[Listener] \in {"rejected", "noRoom"}
          PROVE  trail'[sender] \in Reports /\ pc[sender] = "refused"
      <4>1. trail'[sender] = Append(<<>>, pc[Listener]) /\ pc[sender] = "refused"
        BY <3>1, <3>6
      <4> QED
        BY <4>1, <3>6, Appended DEF Reports
    <3> QED
      BY <3>1, <3>2, <3>3, <3>4, <3>5, <3>6 DEF ListenerEvents
  <2>4. CASE t \in Conns /\ pc[t] = "busy"
    <3>1. trail' = trail /\ pc'[t] = "loop"
      BY <1>37, <2>1, <2>4 DEF LeaveEvent, AfterEvent
    <3> QED
      BY <2>1, <2>4, <3>1
  <2>5. CASE t \in Conns /\ pc[t] \in FarewellEvents
    <3>1. trail' = [trail EXCEPT ![t] = Append(@, pc[t])] /\ pc'[t] = "delete"
      BY <1>37, <2>1, <2>5 DEF LeaveEvent, AfterEvent
    <3>2. trail[t] \in {<<>>, <<"added">>}
      BY <2>5
    <3>3. trail'[t] \in {<<pc[t]>>, <<"added", pc[t]>>}
      BY <2>5, <3>1, <3>2, Appended
    <3>4. \A c \in Conns : c # t => trail'[c] = trail[c]
      BY <3>1
    <3>5. trail'[t] \in Reports
      BY <2>5, <3>3 DEF Reports
    <3>6. TrailsOK'
      <4> SUFFICES ASSUME NEW c \in Conns
                   PROVE  /\ trail'[c] \in Reports
                          /\ pc'[c] = "away" => trail'[c] = <<>>
                          /\ pc'[c] \in Staying => trail'[c] \in {<<>>, <<"added">>}
        BY DEF TrailsOK
      <4>1. CASE c = t
        BY <3>1, <3>5, <4>1
      <4>2. CASE c # t
        BY <2>1, <3>4, <4>2
      <4> QED
        BY <4>1, <4>2
    <3>7. SenderOK'
      <4>1. pc'[Listener] = pc[Listener]
            /\ \A c \in Conns : c # t => pc'[c] = pc[c] /\ trail'[c] = trail[c]
        BY <2>1, <2>5, <3>4
      <4>2. CASE t # incoming
        BY <2>1, <3>4, <4>1, <4>2
      <4>3. CASE t = incoming
        <5>1. pc[Listener] \notin {"rejected", "noRoom", "count", "start"}
          BY <2>5, <4>3
        <5>2. ASSUME pc[Listener] \in {"handle", "added"}
              PROVE  trail'[t] = <<pc[t]>>
          <6>1. trail[t] # <<"added">>
            <7>1. trail[t] = <<>> \/ \E f \in FarewellEvents : trail[t] = <<f>>
              BY <4>3, <5>2
            <7>2. \A f \in FarewellEvents : f # "added"
              OBVIOUS
            <7>3. CASE trail[t] = <<>>
              BY <7>3
            <7>4. ASSUME NEW f \in FarewellEvents, trail[t] = <<f>> PROVE trail[t] # <<"added">>
              BY <7>2, <7>4
            <7> QED
              BY <7>1, <7>3, <7>4
          <6> QED
            BY <2>5, <3>1, <3>2, <6>1, Appended
        <5> QED
          BY <2>1, <2>5, <3>1, <4>1, <4>3, <5>1, <5>2
      <4> QED
        BY <4>2, <4>3
    <3> QED
      BY <3>6, <3>7
  <2> QED
    BY <1>37, <2>2, <2>3, <2>4, <2>5 DEF LeaveEvent, InEvent
<1>38. CASE UNCHANGED vars
  BY <1>38 DEF vars
<1> QED
  BY <1>1, <1>2, <1>3, <1>4, <1>5, <1>6, <1>7, <1>8, <1>9, <1>10, <1>11,
     <1>12, <1>13, <1>14, <1>15, <1>16, <1>17, <1>18, <1>19, <1>20, <1>21,
     <1>22, <1>23, <1>24, <1>25, <1>26, <1>27, <1>28, <1>29, <1>30, <1>31,
     <1>32, <1>33, <1>34, <1>35, <1>36, <1>37, <1>38 DEF Next, MainStep,
     ListenerStep, Worker

\* The codes reported of each connection stay those of one life.
THEOREM TrailsInductive == Spec => [](TrailsOK /\ SenderOK)
<1>1. Init => TrailsOK /\ SenderOK
  BY ThreadsAssumption DEF Init, TrailsOK, SenderOK, Threads, Reports, Staying, WorkerEvents,
     FarewellEvents
<1>2. IInv /\ TrailsOK /\ SenderOK /\ [Next]_vars => (TrailsOK /\ SenderOK)'
  BY TrailsStep
<1> QED
  BY <1>1, <1>2, Inductive, PTL DEF Spec

\* Of no connection is anything reported twice, or of one that was turned away
\* that it was served (snap_tcpsrvr.cpp:390), though ClientAdded races with the
\* worker's own events.
THEOREM EachReportedOnce == Spec => []ReportedOnce
<1>1. TrailsOK => ReportedOnce
  BY DEF TrailsOK, ReportedOnce
<1> QED
  BY <1>1, TrailsInductive, PTL

-----------------------------------------------------------------------------
(* The registry of clients *)

\* When threads are prompt, the listener is not killed; Status follows Start and
\* Stop.
Registered ==
    /\ pc[Listener] # "killed"
    /\ pc[Main] \in {"init", "started", "cannotStart"} => Status = "SrvStopped"
    /\ pc[Main] \in {"joining", "terminateAll", "terminating", "waiting", "killAll",
                     "killing", "dropped", "reset", "crashed"} => Status = "SrvRunning"
    /\ pc[Main] \in {"stopped", "idle", "deleted"} /\ pc[Listener] # "off" =>
          Status = "SrvStopped"

\* Every step keeps it.
LEMMA RegisteredStep ==
  ASSUME Prompt, IInv, Registered, [Next]_vars
  PROVE  Registered'
<1> USE ThreadsAssumption, SizesAssumption, LabelsType DEF IInv, Goto, mainVars,
   listenerVars, listVars, logVars, Threads, TypeOK, LabelsOK, Receiving, Joined, Registered
<1>1. CASE Start
  BY <1>1 DEF Start
<1>2. CASE Stop
  BY <1>2 DEF Stop
<1>3. CASE JoinListener
  BY <1>3 DEF JoinListener
<1>4. CASE TerminateAll
  BY <1>4 DEF TerminateAll
<1>5. CASE TerminateRead
  BY <1>5 DEF TerminateRead
<1>6. CASE TerminateWorker
  BY <1>6 DEF TerminateWorker
<1>7. CASE TerminateSwept
  BY <1>7 DEF TerminateSwept
<1>8. CASE WaitClients
  BY <1>8 DEF WaitClients
<1>9. CASE WaitTimeout
  BY <1>9 DEF WaitTimeout
<1>10. CASE KillAllLock
  BY <1>10 DEF KillAllLock
<1>11. CASE KillWorker
  BY <1>11 DEF KillWorker, Live, Ended, Occupied
<1>12. CASE KillSkip
  BY <1>12 DEF KillSkip
<1>13. CASE KillCrash
  BY <1>13 DEF KillCrash, Live, Ended, HasSocket, Occupied
<1>14. CASE KillAllUnlock
  BY <1>14 DEF KillAllUnlock
<1>15. CASE Reset
  BY <1>15 DEF Reset
<1>16. CASE Destroy
  BY <1>16 DEF Destroy
<1>17. CASE ListenerLoop
  BY <1>17 DEF ListenerLoop
<1>18. CASE ListenerIdle
  BY <1>18 DEF ListenerIdle
<1>19. CASE ListenerDrop
  BY <1>19 DEF ListenerDrop
<1>20. CASE IncomingReject
  BY <1>20 DEF IncomingReject
<1>21. CASE Incoming
  BY <1>21 DEF Incoming
<1>22. CASE IncomingLock
  BY <1>22 DEF IncomingLock
<1>23. CASE IncomingPlace
  BY <1>23 DEF IncomingPlace
<1>24. CASE IncomingCount
  BY <1>24 DEF IncomingCount
<1>25. CASE IncomingStart
  BY <1>25 DEF IncomingStart
<1>26. CASE IncomingHandle
  BY <1>26 DEF IncomingHandle, HasSocket
<1>27. CASE IncomingUnlock
  BY <1>27 DEF IncomingUnlock
<1>28. ASSUME NEW c \in Conns, ListenerAccept(c) PROVE Registered'
  BY <1>28 DEF ListenerAccept
<1>29. ASSUME NEW c \in Conns, WorkerEnter(c) PROVE Registered'
  BY <1>29 DEF WorkerEnter
<1>30. ASSUME NEW c \in Conns, WorkerLoop(c) PROVE Registered'
  BY <1>30 DEF WorkerLoop
<1>31. ASSUME NEW c \in Conns, WorkerExecute(c) PROVE Registered'
  BY <1>31 DEF WorkerExecute
<1>32. ASSUME NEW c \in Conns, DeleteLock(c) PROVE Registered'
  BY <1>32 DEF DeleteLock
<1>33. ASSUME NEW c \in Conns, DeleteClear(c) PROVE Registered'
  BY <1>33 DEF DeleteClear
<1>34. ASSUME NEW c \in Conns, DeleteDecrement(c) PROVE Registered'
  BY <1>34 DEF DeleteDecrement
<1>35. ASSUME NEW c \in Conns, DeleteUnlock(c) PROVE Registered'
  BY <1>35 DEF DeleteUnlock
<1>36. ASSUME NEW t \in Threads, EnterEvent(t) PROVE Registered'
  BY <1>36 DEF EnterEvent, InEvent
<1>37. ASSUME NEW t \in Threads, LeaveEvent(t) PROVE Registered'
  BY <1>37 DEF LeaveEvent, InEvent, AfterEvent, MainEvents, ListenerEvents, WorkerEvents,
     FarewellEvents
<1>38. CASE UNCHANGED vars
  BY <1>38 DEF vars
<1> QED
  BY <1>1, <1>2, <1>3, <1>4, <1>5, <1>6, <1>7, <1>8, <1>9, <1>10, <1>11,
     <1>12, <1>13, <1>14, <1>15, <1>16, <1>17, <1>18, <1>19, <1>20, <1>21,
     <1>22, <1>23, <1>24, <1>25, <1>26, <1>27, <1>28, <1>29, <1>30, <1>31,
     <1>32, <1>33, <1>34, <1>35, <1>36, <1>37, <1>38 DEF Next, MainStep,
     ListenerStep, Worker

\* When no client is counted and the listener has ended, none is in the list.
LEMMA NobodyListed ==
    ASSUME IInv, Registered,
           (pc[Main] = "terminateAll" /\ ClientsCount = 0) \/ pc[Main] = "reset"
    PROVE  Listed = {}
<1>1. pc[Listener] = "gone" /\ CSList # Listener
  BY ThreadsAssumption DEF IInv, Joined, Registered, ListLock, InList
<1>2. Occupied = {}
  <2>1. CASE pc[Main] = "reset"
    BY <1>1, <2>1 DEF IInv, Balance, Emptied
  <2>2. CASE pc[Main] = "terminateAll" /\ ClientsCount = 0
    <3>1. CASE CSList = Nobody
      BY <2>2, <3>1, ListSize DEF IInv, Balance, FreeBalance
    <3>2. CASE CSList \in Conns
      BY <2>2, <3>2, ListSize DEF IInv, Balance, WorkerBalance, ListLock
    <3>3. CASE CSList = Main
      BY <2>2, <3>3 DEF IInv, ListLock
    <3> QED
      BY <1>1, <3>1, <3>2, <3>3 DEF IInv, TypeOK, Threads
  <2> QED
    BY <2>1, <2>2
<1> QED
  BY <1>2 DEF Listed

\* A slot that is emptied releases the one client that was in it.
LEMMA SlotEmptied ==
    ASSUME IInv, NEW s \in Occupied, Workers' = [Workers EXCEPT ![s] = Nobody]
    PROVE  Workers[s] \in Listed /\ Listed' = Listed \ {Workers[s]}
<1>1. \A i \in Occupied : i \in Slots /\ Workers[i] # Nobody /\ (Workers[i] = Workers[s] => i = s)
  BY DEF IInv, SlotsOwned, Occupied
<1>2. Occupied' = Occupied \ {s} /\ \A i \in Occupied \ {s} : Workers'[i] = Workers[i]
  BY <1>1 DEF IInv, TypeOK, Occupied
<1> QED
  BY <1>1, <1>2 DEF Listed

\* A slot that is filled lists one more client.
LEMMA SlotFilled ==
    ASSUME IInv, NEW s \in Slots, s \notin Occupied, NEW d \in Conns,
           Workers' = [Workers EXCEPT ![s] = d]
    PROVE  Listed' = Listed \cup {d}
<1>1. Occupied' = Occupied \cup {s} /\ Workers'[s] = d
  BY ThreadsAssumption DEF IInv, TypeOK, Occupied
<1>2. \A i \in Occupied : Workers'[i] = Workers[i]
  BY DEF IInv, TypeOK, Occupied
<1> QED
  BY <1>1, <1>2 DEF Listed

\* A slot that is taken lists one more client, and there is room for it.
LEMMA SlotTaken ==
    ASSUME IInv, IncomingPlace
    PROVE  Listed' = Listed \cup {incoming} /\ Cardinality(Listed) < Capacity
<1>1. /\ pc[Listener] = "place" /\ Workers' = [Workers EXCEPT ![FirstFree] = incoming]
      /\ incoming \in Conns /\ incoming # Nobody /\ ~Full /\ CanAccept
      /\ FirstFree \in Slots /\ FirstFree \notin Occupied
  BY FirstFreeIsFree, ThreadsAssumption DEF IncomingPlace, IInv, Receiving
<1>3. Listed' = Listed \cup {incoming}
  BY <1>1, SlotFilled
<1>4. IsFiniteSet(Listed) /\ Cardinality(Listed) <= Cardinality(Occupied)
  <2> DEFINE at == [i \in Occupied |-> Workers[i]]
  <2>1. at \in Surjection(Occupied, Listed)
    BY DEF Listed, Surjection
  <2> HIDE DEF at
  <2> QED
    BY <2>1, ListSize, FS_Surjection
<1>5. ClientsCount = Cardinality(Occupied)
  BY <1>1, ThreadsAssumption DEF IInv, Balance, ListenerBalance, InList
<1>6. Cardinality(Occupied) < Capacity
  BY <1>1, <1>5, ListSize, SizesAssumption DEF CanAccept, Capacity
<1>7. Cardinality(Listed) \in Nat
  BY <1>4, FS_CardinalityType
<1> QED
  BY <1>3, <1>4, <1>6, <1>7, ListSize, CapacityType

\* Who is listed follows from the list alone.
LEMMA ListUnchanged == Workers' = Workers => Listed' = Listed
  BY DEF Listed, Occupied

\* Who was admitted follows from the places of the workers.
LEMMA AdmittedUnchanged ==
    ASSUME \A c \in Conns : pc'[c] \in {"away", "refused"} <=> pc[c] \in {"away", "refused"}
    PROVE  Admitted' = Admitted
  BY DEF Admitted

\* What the registry sees of a step that is none of its own.
Unseen == RegistryPhase' = RegistryPhase /\ Listed' = Listed /\ Admitted' = Admitted

\* The registry counts as the threads do.
LEMMA SameCardinality == \A S : Registry!Cardinality(S) = Cardinality(S)
  BY DEF Registry!Cardinality, Cardinality, Registry!IsFiniteSet, IsFiniteSet

\* Every step of the threads is one of the registry, or is not seen.
LEMMA RegistryStep ==
  ASSUME Prompt, IInv, Registered, [Next]_vars
  PROVE  [Registry!Next]_(Registry!vars)
<1> DEFINE Step == \/ Unseen
                   \/ Registry!Open \/ Registry!Seal \/ Registry!Close
                   \/ \E d \in Conns : Registry!Admit(d) \/ Registry!Release(d)
<1> SUFFICES Step
  BY DEF Registry!Next, Registry!vars, Unseen
<1> USE ThreadsAssumption, SizesAssumption, LabelsType DEF IInv, Goto, mainVars,
   listenerVars, listVars, logVars, Threads, TypeOK, LabelsOK, Receiving, Joined, Registered,
   Admitted, RegistryPhase, Unseen
<1>1. CASE Start
  <2>1. Listed' = Listed /\ Admitted' = Admitted
    BY <1>1, ListUnchanged, AdmittedUnchanged DEF Start
  <2> QED
    BY <1>1, <2>1 DEF Start, Registry!Open
<1>2. CASE Stop
  <2>1. Listed' = Listed
    BY <1>2, ListUnchanged DEF Stop
  <2> QED
    BY <1>2, <2>1 DEF Stop
<1>3. CASE JoinListener
  <2>1. Listed' = Listed /\ Admitted' = Admitted
    BY <1>3, ListUnchanged, AdmittedUnchanged DEF JoinListener
  <2> QED
    BY <1>3, <2>1 DEF JoinListener, Registry!Seal
<1>4. CASE TerminateAll
  <2>1. Listed' = Listed /\ Admitted' = Admitted
    BY <1>4, ListUnchanged, AdmittedUnchanged DEF TerminateAll
  <2>2. CASE ClientsCount > 0
    <3>1. RegistryPhase = "draining" /\ RegistryPhase' = "draining"
      BY <1>4, <2>2 DEF TerminateAll
    <3> QED
      BY <2>1, <3>1
  <2>3. CASE ClientsCount = 0
    <3>1. Listed = {}
      BY <1>4, <2>3, NobodyListed DEF TerminateAll
    <3>2. RegistryPhase = "draining" /\ RegistryPhase' = "closed"
      <4>0. ~(ClientsCount > 0)
        BY <2>3
      <4>1. pc[Main] = "terminateAll" /\ pc' = [pc EXCEPT ![Main] = "stopped"]
        <5>1. pc[Main] = "terminateAll"
          BY <1>4 DEF TerminateAll
        <5>2. pc' = [pc EXCEPT ![Main] = "stopped"]
          BY <1>4, <4>0, Zenon DEF TerminateAll
        <5> QED
          BY <5>1, <5>2
      <4>2. Status' = "SrvStopped"
        BY <1>4, <4>0, Zenon DEF TerminateAll
      <4>3. Status = "SrvRunning" /\ pc[Listener] = "gone"
        BY <4>1
      <4>4. pc'[Main] = "stopped" /\ pc'[Listener] = "gone"
        BY <4>1, <4>3
      <4> QED
        BY <4>1, <4>2, <4>3, <4>4
    <3> QED
      BY <2>1, <3>1, <3>2 DEF Registry!Close
  <2>4. ClientsCount > 0 \/ ClientsCount = 0
    OBVIOUS
  <2> QED
    BY <2>2, <2>3, <2>4
<1>5. CASE TerminateRead
  <2>1. Listed' = Listed
    BY <1>5, ListUnchanged DEF TerminateRead
  <2> QED
    BY <1>5, <2>1 DEF TerminateRead
<1>6. CASE TerminateWorker
  <2>1. Listed' = Listed
    BY <1>6, ListUnchanged DEF TerminateWorker
  <2> QED
    BY <1>6, <2>1 DEF TerminateWorker
<1>7. CASE TerminateSwept
  <2>1. Listed' = Listed
    BY <1>7, ListUnchanged DEF TerminateSwept
  <2> QED
    BY <1>7, <2>1 DEF TerminateSwept
<1>8. CASE WaitClients
  <2>1. Listed' = Listed
    BY <1>8, ListUnchanged DEF WaitClients
  <2> QED
    BY <1>8, <2>1 DEF WaitClients
<1>9. CASE WaitTimeout
  <2>1. Listed' = Listed
    BY <1>9, ListUnchanged DEF WaitTimeout
  <2> QED
    BY <1>9, <2>1 DEF WaitTimeout
<1>10. CASE KillAllLock
  <2>1. Listed' = Listed
    BY <1>10, ListUnchanged DEF KillAllLock
  <2> QED
    BY <1>10, <2>1 DEF KillAllLock
<1>11. CASE KillWorker
  <2>1. /\ k \in Occupied /\ Workers' = [Workers EXCEPT ![k] = Nobody]
        /\ Workers[k] \in Conns /\ pc[Workers[k]] \notin {"away", "refused"}
    BY <1>11 DEF KillWorker, Occupied, SlotsOwned
  <2>2. \A c \in Conns : pc'[c] \in {"away", "refused"} <=> pc[c] \in {"away", "refused"}
    BY <1>11, <2>1 DEF KillWorker
  <2>4. RegistryPhase' = RegistryPhase
    BY <1>11, <2>1 DEF KillWorker, Live, Ended
  <2>3. Registry!Release(Workers[k])
    BY <2>1, <2>2, <2>4, SlotEmptied, AdmittedUnchanged DEF Registry!Release
  <2> QED
    BY <2>1, <2>3
<1>12. CASE KillSkip
  <2>1. Listed' = Listed
    BY <1>12, ListUnchanged DEF KillSkip
  <2> QED
    BY <1>12, <2>1 DEF KillSkip
<1>13. CASE KillCrash
  <2>1. Listed' = Listed
    BY <1>13, ListUnchanged DEF KillCrash
  <2> QED
    BY <1>13, <2>1 DEF KillCrash, Live, Ended, HasSocket
<1>14. CASE KillAllUnlock
  <2>1. Listed' = Listed
    BY <1>14, ListUnchanged DEF KillAllUnlock
  <2> QED
    BY <1>14, <2>1 DEF KillAllUnlock
<1>15. CASE Reset
  <2>1. Listed' = Listed /\ Admitted' = Admitted
    BY <1>15, ListUnchanged, AdmittedUnchanged DEF Reset
  <2>2. Listed = {}
    BY <1>15, NobodyListed DEF Reset
  <2> QED
    BY <1>15, <2>1, <2>2 DEF Reset, Registry!Close
<1>16. CASE Destroy
  <2>1. Listed' = Listed
    BY <1>16, ListUnchanged DEF Destroy
  <2> QED
    BY <1>16, <2>1 DEF Destroy
<1>17. CASE ListenerLoop
  <2>1. Listed' = Listed
    BY <1>17, ListUnchanged DEF ListenerLoop
  <2> QED
    BY <1>17, <2>1 DEF ListenerLoop
<1>18. CASE ListenerIdle
  <2>1. Listed' = Listed
    BY <1>18, ListUnchanged DEF ListenerIdle
  <2> QED
    BY <1>18, <2>1 DEF ListenerIdle
<1>19. CASE ListenerDrop
  <2>1. Listed' = Listed
    BY <1>19, ListUnchanged DEF ListenerDrop
  <2> QED
    BY <1>19, <2>1 DEF ListenerDrop
<1>20. CASE IncomingReject
  <2>1. Listed' = Listed
    BY <1>20, ListUnchanged DEF IncomingReject
  <2> QED
    BY <1>20, <2>1 DEF IncomingReject
<1>21. CASE Incoming
  <2>1. Listed' = Listed
    BY <1>21, ListUnchanged DEF Incoming
  <2> QED
    BY <1>21, <2>1 DEF Incoming
<1>22. CASE IncomingLock
  <2>1. Listed' = Listed
    BY <1>22, ListUnchanged DEF IncomingLock
  <2> QED
    BY <1>22, <2>1 DEF IncomingLock
<1>23. CASE IncomingPlace
  <2>1. /\ RegistryPhase = "up" /\ RegistryPhase' = "up"
        /\ incoming \in Conns /\ incoming \notin Admitted
        /\ Admitted' = Admitted \cup {incoming}
    BY <1>23 DEF IncomingPlace, MainLabels
  <2>2. Listed' = Listed \cup {incoming} /\ Cardinality(Listed) < Capacity
    BY <1>23, SlotTaken
  <2> HIDE DEF Admitted, RegistryPhase, IInv, TypeOK, LabelsOK, Receiving, Joined, Registered
  <2>3. Registry!Admit(incoming)
    BY <2>1, <2>2, SameCardinality DEF Registry!Admit
  <2>4. incoming \in Conns
    BY <2>1
  <2> QED
    BY <2>3, <2>4
<1>24. CASE IncomingCount
  <2>1. Listed' = Listed
    BY <1>24, ListUnchanged DEF IncomingCount
  <2> QED
    BY <1>24, <2>1 DEF IncomingCount
<1>25. CASE IncomingStart
  <2>1. Listed' = Listed
    BY <1>25, ListUnchanged DEF IncomingStart
  <2> QED
    BY <1>25, <2>1 DEF IncomingStart
<1>26. CASE IncomingHandle
  <2>1. Listed' = Listed
    BY <1>26, ListUnchanged DEF IncomingHandle
  <2> QED
    BY <1>26, <2>1 DEF IncomingHandle, HasSocket
<1>27. CASE IncomingUnlock
  <2>1. Listed' = Listed
    BY <1>27, ListUnchanged DEF IncomingUnlock
  <2> QED
    BY <1>27, <2>1 DEF IncomingUnlock
<1>28. ASSUME NEW c \in Conns, ListenerAccept(c) PROVE Step
  <2>1. Listed' = Listed
    BY <1>28, ListUnchanged DEF ListenerAccept
  <2> QED
    BY <1>28, <2>1 DEF ListenerAccept
<1>29. ASSUME NEW c \in Conns, WorkerEnter(c) PROVE Step
  <2>1. Listed' = Listed
    BY <1>29, ListUnchanged DEF WorkerEnter
  <2> QED
    BY <1>29, <2>1 DEF WorkerEnter
<1>30. ASSUME NEW c \in Conns, WorkerLoop(c) PROVE Step
  <2>1. Listed' = Listed
    BY <1>30, ListUnchanged DEF WorkerLoop
  <2> QED
    BY <1>30, <2>1 DEF WorkerLoop
<1>31. ASSUME NEW c \in Conns, WorkerExecute(c) PROVE Step
  <2>1. Listed' = Listed
    BY <1>31, ListUnchanged DEF WorkerExecute
  <2> QED
    BY <1>31, <2>1 DEF WorkerExecute
<1>32. ASSUME NEW c \in Conns, DeleteLock(c) PROVE Step
  <2>1. Listed' = Listed
    BY <1>32, ListUnchanged DEF DeleteLock
  <2> QED
    BY <1>32, <2>1 DEF DeleteLock
<1>33. ASSUME NEW c \in Conns, DeleteClear(c) PROVE Step
  <2>1. RegistryPhase' = RegistryPhase /\ Admitted' = Admitted
    BY <1>33 DEF DeleteClear
  <2>2. /\ Workers[Index[c]] = c /\ Index[c] \in Occupied
        /\ Workers' = [Workers EXCEPT ![Index[c]] = Nobody]
    BY <1>33 DEF DeleteClear, SlotsOwned, Attached, Occupied
  <2>3. Registry!Release(c)
    BY <2>1, <2>2, SlotEmptied DEF Registry!Release
  <2> QED
    BY <2>3
<1>34. ASSUME NEW c \in Conns, DeleteDecrement(c) PROVE Step
  <2>1. Listed' = Listed
    BY <1>34, ListUnchanged DEF DeleteDecrement
  <2> QED
    BY <1>34, <2>1 DEF DeleteDecrement
<1>35. ASSUME NEW c \in Conns, DeleteUnlock(c) PROVE Step
  <2>1. Listed' = Listed
    BY <1>35, ListUnchanged DEF DeleteUnlock
  <2> QED
    BY <1>35, <2>1 DEF DeleteUnlock
<1>36. ASSUME NEW t \in Threads, EnterEvent(t) PROVE Step
  <2>1. Listed' = Listed
    BY <1>36, ListUnchanged DEF EnterEvent
  <2> QED
    BY <1>36, <2>1 DEF EnterEvent, InEvent
<1>37. ASSUME NEW t \in Threads, LeaveEvent(t) PROVE Step
  <2>1. Listed' = Listed
    BY <1>37, ListUnchanged DEF LeaveEvent
  <2> QED
    BY <1>37, <2>1 DEF LeaveEvent, InEvent, AfterEvent, MainEvents, ListenerEvents,
       WorkerEvents, FarewellEvents
<1>38. CASE UNCHANGED vars
  <2>1. Listed' = Listed
    BY <1>38, ListUnchanged DEF vars
  <2> QED
    BY <1>38, <2>1 DEF vars
<1> QED
  BY <1>1, <1>2, <1>3, <1>4, <1>5, <1>6, <1>7, <1>8, <1>9, <1>10, <1>11,
     <1>12, <1>13, <1>14, <1>15, <1>16, <1>17, <1>18, <1>19, <1>20, <1>21,
     <1>22, <1>23, <1>24, <1>25, <1>26, <1>27, <1>28, <1>29, <1>30, <1>31,
     <1>32, <1>33, <1>34, <1>35, <1>36, <1>37, <1>38 DEF Next, MainStep,
     ListenerStep, Worker

\* The invariant Registered holds at all times when the threads are prompt.
THEOREM RegisteredInductive == Prompt => (Spec => []Registered)
<1> SUFFICES ASSUME Prompt PROVE Spec => []Registered
  OBVIOUS
<1>1. Init => Registered
  BY ThreadsAssumption DEF Init, Registered, Threads
<1>2. IInv /\ Registered /\ [Next]_vars => Registered'
  BY RegisteredStep
<1> QED
  BY <1>1, <1>2, Inductive, PTL DEF Spec

\* The threads of a TCustomMsgServer (snap_tcpsrvr.h:147), with their lock, slots
\* and unlocked reads, implement the registry of clients: each is admitted once,
\* within the capacity, while the listener is up, and the server closes empty.
THEOREM ThreadsImplementRegistry == Prompt => (Spec => ImplementsRegistry)
<1> SUFFICES ASSUME Prompt PROVE Spec => ImplementsRegistry
  OBVIOUS
<1>1. Init => Registry!Init
  BY ThreadsAssumption DEF Init, Registry!Init, RegistryPhase, Listed, Occupied, Admitted,
     Threads
<1>2. IInv /\ Registered /\ [Next]_vars => [Registry!Next]_(Registry!vars)
  BY RegistryStep
<1> QED
  BY <1>1, <1>2, Inductive, RegisteredInductive, PTL DEF Spec, ImplementsRegistry, Registry!Spec

-----------------------------------------------------------------------------
(* The balance of the sessions *)

\* The trails of a connection that has not taken leave.
Mute == {<<>>, <<"rejected">>, <<"noRoom">>, <<"added">>}

\* Who has taken leave, and who is still in the list, by the place of the worker.
PartedAt(c) ==
    /\ pc[c] \in {"away", "refused"} => trail[c] \in Mute
    /\ pc[c] \in {"delete", "clear", "decrement", "unlock"} => trail[c] \notin Mute
    /\ pc[c] \in {"decrement", "unlock"} => Workers[Index[c]] # c
    /\ pc[c] = "gone" /\ Workers[Index[c]] = c => trail[c] \in Mute
    /\ pc[c] = "killed" => pc[Main] = "crashed"
    /\ pc[c] = "created" => pc[Listener] \in {"count", "start"} /\ incoming = c

Parted ==
    /\ \A c \in Conns : PartedAt(c)
    /\ pc[Main] \in {"killAll", "killing"} =>
          \A c \in Conns : pc[c] \in {"away", "refused", "gone"}
    /\ pc[Main] \in {"stopped", "idle", "deleted"} /\ pc[Listener] # "off" => Listed = {}

\* The workers that ended without taking leave and are not in the list any more.
Dropped == {c \in Conns : pc[c] = "gone" /\ trail[c] \in Mute /\ Workers[Index[c]] # c}

DroppedCounted == Cardinality(Dropped) = cnt

\* The trails of Reports that are not mute hold a farewell, the mute ones none.
LEMMA MuteIs ==
    ASSUME NEW c \in Conns, trail[c] \in Reports
    PROVE  trail[c] \in Mute <=> Farewells(c) = {}
<1>1. ASSUME trail[c] \in Mute PROVE Farewells(c) = {}
  <2>1. CASE trail[c] = <<>>
    BY <2>1 DEF Farewells
  <2>2. ASSUME NEW e \in {"rejected", "noRoom", "added"}, trail[c] = <<e>>
        PROVE  Farewells(c) = {}
    <3>1. DOMAIN <<e>> = {1} /\ <<e>>[1] = e /\ e \notin FarewellEvents
      BY <2>2 DEF FarewellEvents
    <3> QED
      BY <2>2, <3>1 DEF Farewells
  <2> QED
    BY <1>1, <2>1, <2>2 DEF Mute
<1>2. ASSUME NEW f \in FarewellEvents,
             trail[c] = <<f>> \/ trail[c] = <<"added", f>> \/ trail[c] = <<f, "added">>
      PROVE  Farewells(c) # {} /\ trail[c] \notin Mute
  <2>1. f \notin {"rejected", "noRoom", "added"}
    BY DEF FarewellEvents
  <2>2. CASE trail[c] = <<f>>
    <3>1. 1 \in DOMAIN trail[c] /\ trail[c][1] = f /\ Len(trail[c]) = 1
      BY <2>2
    <3> QED
      BY <2>1, <2>2, <3>1 DEF Farewells, Mute
  <2>3. CASE trail[c] = <<"added", f>>
    <3>1. 2 \in DOMAIN trail[c] /\ trail[c][2] = f /\ Len(trail[c]) = 2
      BY <2>3
    <3> QED
      BY <2>1, <2>3, <3>1 DEF Farewells, Mute
  <2>4. CASE trail[c] = <<f, "added">>
    <3>1. 1 \in DOMAIN trail[c] /\ trail[c][1] = f /\ Len(trail[c]) = 2
      BY <2>4
    <3> QED
      BY <2>1, <2>4, <3>1 DEF Farewells, Mute
  <2> QED
    BY <1>2, <2>2, <2>3, <2>4
<1> QED
  BY <1>1, <1>2 DEF Reports, Mute

\* What an event does to who has taken leave.
LEMMA EventParts ==
    ASSUME IInv, TrailsOK, SenderOK, NEW t \in Threads, LeaveEvent(t)
    PROVE  /\ \A c \in Conns \ {t} : trail'[c] \in Mute <=> trail[c] \in Mute
           /\ t \in Conns /\ pc[t] = "busy" => trail'[t] = trail[t]
           /\ t \in Conns /\ pc[t] # "busy" => trail'[t] \notin Mute
<1> USE ThreadsAssumption, LabelsType DEF IInv, Threads, TypeOK, LabelsOK, TrailsOK, SenderOK
<1>1. \A f \in FarewellEvents : f \notin {"rejected", "noRoom", "added"}
  BY DEF FarewellEvents
<1>2. ASSUME NEW f \in FarewellEvents
      PROVE  <<f>> \notin Mute /\ <<f, "added">> \notin Mute /\ <<"added", f>> \notin Mute
  BY <1>1 DEF Mute
<1>3. CASE t = Main
  BY <1>3 DEF LeaveEvent
<1>4. CASE t = Listener
  <2>1. /\ pc[Listener] \in ListenerEvents
        /\ trail' = IF sender \in Conns
                    THEN [trail EXCEPT ![sender] = Append(@, pc[Listener])] ELSE trail
    BY <1>4 DEF LeaveEvent, InEvent, ListenerEvents
  <2>2. \A c \in Conns : c # sender => trail'[c] = trail[c]
    BY <2>1
  <2>3. ASSUME sender \in Conns, pc[Listener] = "added"
        PROVE  trail'[sender] \in Mute <=> trail[sender] \in Mute
    <3>1. trail'[sender] = Append(trail[sender], "added")
      BY <2>1, <2>3
    <3>2. trail[sender] = <<>> \/ \E f \in FarewellEvents : trail[sender] = <<f>>
      BY <2>3
    <3>3. CASE trail[sender] = <<>>
      BY <3>1, <3>3, Appended DEF Mute
    <3>4. ASSUME NEW f \in FarewellEvents, trail[sender] = <<f>>
          PROVE  trail'[sender] \notin Mute /\ trail[sender] \notin Mute
      <4>1. Append(<<f>>, "added") = <<f, "added">>
        BY Appended
      <4>2. trail'[sender] = <<f, "added">>
        BY <3>1, <3>4, <4>1
      <4> QED
        BY <3>4, <4>2, <1>2
    <3> QED
      BY <3>2, <3>3, <3>4
  <2>4. ASSUME sender \in Conns, pc[Listener] \in {"rejected", "noRoom"}
        PROVE  trail'[sender] \in Mute /\ trail[sender] \in Mute
    <3>1. trail'[sender] = Append(<<>>, pc[Listener]) /\ trail[sender] = <<>>
      BY <2>1, <2>4
    <3> QED
      BY <2>4, <3>1, Appended DEF Mute
  <2> QED
    BY <1>4, <2>1, <2>2, <2>3, <2>4 DEF ListenerEvents
<1>5. CASE t \in Conns /\ pc[t] = "busy"
  BY <1>5 DEF LeaveEvent
<1>6. CASE t \in Conns /\ pc[t] \in FarewellEvents
  <2>1. trail' = [trail EXCEPT ![t] = Append(@, pc[t])]
    BY <1>6 DEF LeaveEvent, FarewellEvents
  <2>2. trail[t] \in {<<>>, <<"added">>}
    BY <1>6 DEF Staying, WorkerEvents
  <2>3. trail'[t] \in {<<pc[t]>>, <<"added", pc[t]>>}
    BY <1>6, <2>1, <2>2, Appended
  <2>4. \A c \in Conns : c # t => trail'[c] = trail[c]
    BY <2>1
  <2>5. <<pc[t]>> \notin Mute /\ <<"added", pc[t]>> \notin Mute
    BY <1>2, <1>6
  <2>6. trail'[t] \notin Mute /\ pc[t] # "busy"
    BY <1>6, <2>3, <2>5 DEF FarewellEvents
  <2> QED
    BY <1>6, <2>4, <2>6
<1> QED
  BY <1>3, <1>4, <1>5, <1>6 DEF LeaveEvent, InEvent, WorkerEvents

\* Every step of prompt threads keeps it.
LEMMA PartedStep ==
  ASSUME Prompt, IInv, Registered, TrailsOK, SenderOK, Parted, [Next]_vars
  PROVE  Parted'
<1> USE ThreadsAssumption, SizesAssumption, LabelsType DEF IInv, Goto, mainVars,
   listenerVars, listVars, logVars, Threads, TypeOK, LabelsOK, Receiving, Joined, Registered,
   Parted, PartedAt
<1>1. CASE Start
  <2>1. Listed' = Listed
    BY <1>1, ListUnchanged DEF Start
  <2> QED
    BY <1>1, <2>1 DEF Start
<1>2. CASE Stop
  <2>1. Listed' = Listed
    BY <1>2, ListUnchanged DEF Stop
  <2>2. \A c \in Conns : PartedAt(c)'
    BY <1>2 DEF Stop
  <2>3. CASE Status = "SrvRunning"
    BY <1>2, <2>2, <2>3 DEF Stop
  <2>4. CASE Status # "SrvRunning"
    <3>1. pc' = [pc EXCEPT ![Main] = "idle"] /\ pc[Listener] = "off"
      BY <1>2, <2>4 DEF Stop
    <3> QED
      BY <2>2, <3>1
  <2> QED
    BY <2>3, <2>4
<1>3. CASE JoinListener
  <2>1. Listed' = Listed
    BY <1>3, ListUnchanged DEF JoinListener
  <2>2. /\ pc' = [pc EXCEPT ![Main] = "terminateAll"] /\ pc[Listener] = "gone"
        /\ pc[Main] = "joining"
    BY <1>3 DEF JoinListener
  <2>3. trail' = trail /\ Workers' = Workers /\ Index' = Index /\ incoming' = incoming
    BY <1>3 DEF JoinListener
  <2> QED
    BY <2>1, <2>2, <2>3
<1>4. CASE TerminateAll
  <2>1. \A c \in Conns : PartedAt(c)'
    BY <1>4 DEF TerminateAll
  <2>2. CASE ClientsCount > 0
    BY <1>4, <2>1, <2>2 DEF TerminateAll
  <2>3. CASE ClientsCount = 0
    <3>1. Listed = {} /\ Listed' = Listed
      BY <1>4, <2>3, NobodyListed, ListUnchanged DEF TerminateAll
    <3>2. ~(ClientsCount > 0)
      BY <2>3
    <3>3. pc' = [pc EXCEPT ![Main] = "stopped"]
      BY <1>4, <3>2, Zenon DEF TerminateAll
    <3> QED
      BY <2>1, <3>1, <3>3
  <2> QED
    BY <2>2, <2>3
<1>5. CASE TerminateRead
  <2>1. Listed' = Listed
    BY <1>5, ListUnchanged DEF TerminateRead
  <2> QED
    BY <1>5, <2>1 DEF TerminateRead
<1>6. CASE TerminateWorker
  <2>1. Listed' = Listed
    BY <1>6, ListUnchanged DEF TerminateWorker
  <2> QED
    BY <1>6, <2>1 DEF TerminateWorker
<1>7. CASE TerminateSwept
  <2>1. Listed' = Listed
    BY <1>7, ListUnchanged DEF TerminateSwept
  <2> QED
    BY <1>7, <2>1 DEF TerminateSwept
<1>8. CASE WaitClients
  <2>1. Listed' = Listed
    BY <1>8, ListUnchanged DEF WaitClients
  <2> QED
    BY <1>8, <2>1 DEF WaitClients
<1>9. CASE WaitTimeout
  <2>1. Listed' = Listed
    BY <1>9, ListUnchanged DEF WaitTimeout
  <2>2. \A c \in Conns : pc[c] \in {"away", "refused", "gone"}
    BY <1>9 DEF WaitTimeout, Live, Ended, WorkerLabels
  <2>3. pc' = [pc EXCEPT ![Main] = "killAll"] /\ pc[Main] = "waiting"
    BY <1>9 DEF WaitTimeout
  <2>4. trail' = trail /\ Workers' = Workers /\ Index' = Index /\ incoming' = incoming
    BY <1>9 DEF WaitTimeout
  <2> QED
    BY <2>1, <2>2, <2>3, <2>4
<1>10. CASE KillAllLock
  <2>1. Listed' = Listed
    BY <1>10, ListUnchanged DEF KillAllLock
  <2> QED
    BY <1>10, <2>1 DEF KillAllLock
<1>11. CASE KillWorker
  <2>1. k \in Occupied /\ Workers' = [Workers EXCEPT ![k] = Nobody] /\ pc' = pc
    BY <1>11 DEF KillWorker, Live, Ended, Occupied
  <2> QED
    BY <1>11, <2>1 DEF KillWorker, Occupied
<1>12. CASE KillSkip
  <2>1. Listed' = Listed
    BY <1>12, ListUnchanged DEF KillSkip
  <2> QED
    BY <1>12, <2>1 DEF KillSkip
<1>13. CASE KillCrash
  <2>1. Listed' = Listed
    BY <1>13, ListUnchanged DEF KillCrash
  <2> QED
    BY <1>13, <2>1 DEF KillCrash, Live, Ended, HasSocket, Occupied
<1>14. CASE KillAllUnlock
  <2>1. Listed' = Listed
    BY <1>14, ListUnchanged DEF KillAllUnlock
  <2> QED
    BY <1>14, <2>1 DEF KillAllUnlock
<1>15. CASE Reset
  <2>1. Listed = {} /\ Listed' = Listed
    BY <1>15, NobodyListed, ListUnchanged DEF Reset
  <2> QED
    BY <1>15, <2>1 DEF Reset
<1>16. CASE Destroy
  <2>1. Listed' = Listed
    BY <1>16, ListUnchanged DEF Destroy
  <2> QED
    BY <1>16, <2>1 DEF Destroy
<1>17. CASE ListenerLoop
  <2>1. Listed' = Listed
    BY <1>17, ListUnchanged DEF ListenerLoop
  <2> QED
    BY <1>17, <2>1 DEF ListenerLoop
<1>18. CASE ListenerIdle
  <2>1. Listed' = Listed
    BY <1>18, ListUnchanged DEF ListenerIdle
  <2> QED
    BY <1>18, <2>1 DEF ListenerIdle
<1>19. CASE ListenerDrop
  <2>1. Listed' = Listed
    BY <1>19, ListUnchanged DEF ListenerDrop
  <2> QED
    BY <1>19, <2>1 DEF ListenerDrop
<1>20. CASE IncomingReject
  <2>1. Listed' = Listed
    BY <1>20, ListUnchanged DEF IncomingReject
  <2> QED
    BY <1>20, <2>1 DEF IncomingReject
<1>21. CASE Incoming
  <2>1. Listed' = Listed
    BY <1>21, ListUnchanged DEF Incoming
  <2> QED
    BY <1>21, <2>1 DEF Incoming
<1>22. CASE IncomingLock
  <2>1. Listed' = Listed
    BY <1>22, ListUnchanged DEF IncomingLock
  <2> QED
    BY <1>22, <2>1 DEF IncomingLock
<1>23. CASE IncomingPlace
  <2>1. /\ FirstFree \in Slots /\ Workers[FirstFree] = Nobody /\ pc[incoming] = "away"
        /\ incoming \in Conns
    BY <1>23, FirstFreeIsFree DEF IncomingPlace, Occupied
  <2>2. /\ Workers' = [Workers EXCEPT ![FirstFree] = incoming]
        /\ Index' = [Index EXCEPT ![incoming] = FirstFree]
        /\ pc' = [pc EXCEPT ![Listener] = "count", ![incoming] = "created"]
        /\ incoming' = incoming /\ trail' = trail /\ pc[Listener] = "place"
    BY <1>23 DEF IncomingPlace
  <2>3. \A c \in Conns \ {incoming} :
           /\ pc'[c] = pc[c] /\ Index'[c] = Index[c]
           /\ Workers'[Index'[c]] = c => Workers[Index[c]] = c
    BY <2>1, <2>2
  <2>4. ASSUME NEW c \in Conns PROVE PartedAt(c)'
    BY <2>1, <2>2, <2>3
  <2> QED
    BY <2>1, <2>2, <2>4
<1>24. CASE IncomingCount
  <2>1. Listed' = Listed
    BY <1>24, ListUnchanged DEF IncomingCount
  <2> QED
    BY <1>24, <2>1 DEF IncomingCount
<1>25. CASE IncomingStart
  <2>1. Listed' = Listed
    BY <1>25, ListUnchanged DEF IncomingStart
  <2> QED
    BY <1>25, <2>1 DEF IncomingStart
<1>26. CASE IncomingHandle
  <2>1. Listed' = Listed
    BY <1>26, ListUnchanged DEF IncomingHandle
  <2> QED
    BY <1>26, <2>1 DEF IncomingHandle, HasSocket
<1>27. CASE IncomingUnlock
  <2>1. Listed' = Listed
    BY <1>27, ListUnchanged DEF IncomingUnlock
  <2> QED
    BY <1>27, <2>1 DEF IncomingUnlock
<1>28. ASSUME NEW c \in Conns, ListenerAccept(c) PROVE Parted'
  <2>1. Listed' = Listed
    BY <1>28, ListUnchanged DEF ListenerAccept
  <2> QED
    BY <1>28, <2>1 DEF ListenerAccept
<1>29. ASSUME NEW c \in Conns, WorkerEnter(c) PROVE Parted'
  <2>1. Listed' = Listed
    BY <1>29, ListUnchanged DEF WorkerEnter
  <2>2. /\ pc[c] = "born" /\ trail[c] \in Mute /\ trail' = trail /\ incoming' = incoming
        /\ Workers' = Workers /\ Index' = Index
    BY <1>29 DEF WorkerEnter, TrailsOK, Staying, Mute
  <2>3. \E l \in {"gone", "loop"} : pc' = [pc EXCEPT ![c] = l]
    BY <1>29 DEF WorkerEnter
  <2>4. pc[Main] \notin {"killAll", "killing"}
    BY <2>2
  <2> QED
    BY <2>1, <2>2, <2>3, <2>4
<1>30. ASSUME NEW c \in Conns, WorkerLoop(c) PROVE Parted'
  <2>1. Listed' = Listed
    BY <1>30, ListUnchanged DEF WorkerLoop
  <2> QED
    BY <1>30, <2>1 DEF WorkerLoop
<1>31. ASSUME NEW c \in Conns, WorkerExecute(c) PROVE Parted'
  <2>1. Listed' = Listed
    BY <1>31, ListUnchanged DEF WorkerExecute
  <2> QED
    BY <1>31, <2>1 DEF WorkerExecute
<1>32. ASSUME NEW c \in Conns, DeleteLock(c) PROVE Parted'
  <2>1. Listed' = Listed
    BY <1>32, ListUnchanged DEF DeleteLock
  <2> QED
    BY <1>32, <2>1 DEF DeleteLock
<1>33. ASSUME NEW c \in Conns, DeleteClear(c) PROVE Parted'
  <2>1. Workers[Index[c]] = c /\ Index[c] \in Occupied
    BY <1>33 DEF DeleteClear, SlotsOwned, Attached, Occupied
  <2>2. Listed' \subseteq Listed
    BY <1>33, <2>1, SlotEmptied DEF DeleteClear
  <2>3. \A d \in Conns \ {c} :
           pc'[d] = pc[d] /\ (Workers'[Index'[d]] = d => Workers[Index[d]] = d)
    BY <1>33 DEF DeleteClear
  <2>4. pc'[c] = "decrement" /\ Workers'[Index'[c]] # c /\ trail' = trail
    BY <1>33 DEF DeleteClear
  <2>5. /\ pc'[Main] = pc[Main] /\ pc'[Listener] = pc[Listener] /\ incoming' = incoming
        /\ pc[c] = "clear"
    BY <1>33 DEF DeleteClear
  <2>6. ASSUME NEW d \in Conns PROVE PartedAt(d)'
    BY <2>3, <2>4, <2>5
  <2> QED
    BY <2>2, <2>3, <2>5, <2>6
<1>34. ASSUME NEW c \in Conns, DeleteDecrement(c) PROVE Parted'
  <2>1. Listed' = Listed
    BY <1>34, ListUnchanged DEF DeleteDecrement
  <2> QED
    BY <1>34, <2>1 DEF DeleteDecrement
<1>35. ASSUME NEW c \in Conns, DeleteUnlock(c) PROVE Parted'
  <2>1. Listed' = Listed
    BY <1>35, ListUnchanged DEF DeleteUnlock
  <2> QED
    BY <1>35, <2>1 DEF DeleteUnlock
<1>36. ASSUME NEW t \in Threads, EnterEvent(t) PROVE Parted'
  <2>1. Listed' = Listed
    BY <1>36, ListUnchanged DEF EnterEvent
  <2> QED
    BY <1>36, <2>1 DEF EnterEvent, InEvent
<1>37. ASSUME NEW t \in Threads, LeaveEvent(t) PROVE Parted'
  <2>1. /\ pc'[t] = AfterEvent(pc[t]) /\ \A u \in Threads : u # t => pc'[u] = pc[u]
        /\ incoming' = incoming /\ Workers' = Workers /\ Index' = Index /\ InEvent(t)
    BY <1>37 DEF LeaveEvent
  <2>2. Listed' = Listed
    BY <2>1, ListUnchanged
  <2>6. /\ \A c \in Conns \ {t} : trail'[c] \in Mute <=> trail[c] \in Mute
        /\ t \in Conns /\ pc[t] = "busy" => trail'[t] = trail[t]
        /\ t \in Conns /\ pc[t] # "busy" => trail'[t] \notin Mute
    BY <1>37, EventParts
  <2>3. CASE t = Main
    <3>1. /\ pc[Main] \in MainEvents /\ pc'[Main] \in {"running", "reset", "idle"}
          /\ pc'[Main] = "idle" => pc[Main] = "stopped"
      BY <2>1, <2>3 DEF InEvent, MainEvents, AfterEvent
    <3>2. pc'[Listener] = pc[Listener] /\ \A c \in Conns : c # t /\ pc'[c] = pc[c]
      BY <2>1, <2>3
    <3>3. ASSUME NEW c \in Conns PROVE PartedAt(c)'
      BY <2>1, <2>3, <2>6, <3>1, <3>2 DEF MainEvents
    <3> QED
      BY <2>1, <2>2, <2>3, <3>1, <3>2, <3>3 DEF MainEvents
  <2>4. CASE t = Listener
    <3>1. pc[Listener] \in ListenerEvents /\ pc'[Listener] \in {"unlock", "loop"}
      BY <2>1, <2>4 DEF InEvent, ListenerEvents, AfterEvent
    <3>2. pc'[Main] = pc[Main] /\ \A c \in Conns : c # t /\ pc'[c] = pc[c]
      BY <2>1, <2>4
    <3>3. ASSUME NEW c \in Conns PROVE PartedAt(c)'
      BY <2>1, <2>4, <2>6, <3>1, <3>2 DEF ListenerEvents
    <3> QED
      BY <2>1, <2>2, <2>4, <3>1, <3>2, <3>3 DEF ListenerEvents
  <2>5. CASE t \in Conns
    <3>1. pc[t] \in WorkerEvents /\ pc'[t] = IF pc[t] = "busy" THEN "loop" ELSE "delete"
      BY <2>1, <2>5 DEF InEvent, WorkerEvents, FarewellEvents, AfterEvent
    <3>2. pc'[Main] = pc[Main] /\ pc'[Listener] = pc[Listener]
      BY <2>1, <2>5
    <3>3. PartedAt(t)'
      <4>1. CASE pc[t] = "busy"
        <5>1. pc'[t] = "loop" /\ trail'[t] = trail[t]
          BY <2>5, <2>6, <3>1, <4>1
        <5> QED
          BY <5>1
      <4>2. CASE pc[t] # "busy"
        <5>1. pc'[t] = "delete" /\ trail'[t] \notin Mute
          BY <2>5, <2>6, <3>1, <4>2
        <5> QED
          BY <5>1
      <4> QED
        BY <4>1, <4>2
    <3>4. ASSUME NEW c \in Conns, c # t PROVE PartedAt(c)'
      BY <2>1, <2>5, <2>6, <3>2, <3>4
    <3>5. pc[Main] \notin {"killAll", "killing"}
      BY <2>5, <3>1 DEF WorkerEvents, FarewellEvents
    <3> QED
      BY <2>2, <3>2, <3>3, <3>4, <3>5
  <2> QED
    BY <2>3, <2>4, <2>5
<1>38. CASE UNCHANGED vars
  <2>1. Listed' = Listed
    BY <1>38, ListUnchanged DEF vars
  <2> QED
    BY <1>38, <2>1 DEF vars
<1> QED
  BY <1>1, <1>2, <1>3, <1>4, <1>5, <1>6, <1>7, <1>8, <1>9, <1>10, <1>11,
     <1>12, <1>13, <1>14, <1>15, <1>16, <1>17, <1>18, <1>19, <1>20, <1>21,
     <1>22, <1>23, <1>24, <1>25, <1>26, <1>27, <1>28, <1>29, <1>30, <1>31,
     <1>32, <1>33, <1>34, <1>35, <1>36, <1>37, <1>38 DEF Next, MainStep,
     ListenerStep, Worker

\* Who was dropped follows from the places, the trails and the list.
LEMMA DroppedUnchanged ==
    ASSUME cnt' = cnt,
           \A c \in Conns : /\ pc'[c] = "gone" /\ trail'[c] \in Mute /\ Workers'[Index'[c]] # c
                            <=> pc[c] = "gone" /\ trail[c] \in Mute /\ Workers[Index[c]] # c
    PROVE  Dropped' = Dropped /\ cnt' = cnt
  BY DEF Dropped, Mute

\* A client is counted in ClientsDropped when, and only when, KillAll takes it out
\* of the list.
LEMMA DroppedStep ==
  ASSUME Prompt, IInv, Registered, TrailsOK, SenderOK, Parted, DroppedCounted, [Next]_vars
  PROVE  (Dropped' = Dropped /\ cnt' = cnt) \/ DroppedCounted'
<1> USE ThreadsAssumption, SizesAssumption, LabelsType DEF IInv, Goto, mainVars,
   listenerVars, listVars, logVars, Threads, TypeOK, LabelsOK, Receiving, Joined, Registered,
   Parted, PartedAt
<1> DEFINE Kept == (Dropped' = Dropped /\ cnt' = cnt) \/ DroppedCounted'
<1>1. CASE Start
  BY <1>1, DroppedUnchanged DEF Start
<1>2. CASE Stop
  BY <1>2, DroppedUnchanged DEF Stop
<1>3. CASE JoinListener
  BY <1>3, DroppedUnchanged DEF JoinListener
<1>4. CASE TerminateAll
  BY <1>4, DroppedUnchanged DEF TerminateAll
<1>5. CASE TerminateRead
  BY <1>5, DroppedUnchanged DEF TerminateRead
<1>6. CASE TerminateWorker
  BY <1>6, DroppedUnchanged DEF TerminateWorker
<1>7. CASE TerminateSwept
  BY <1>7, DroppedUnchanged DEF TerminateSwept
<1>8. CASE WaitClients
  BY <1>8, DroppedUnchanged DEF WaitClients
<1>9. CASE WaitTimeout
  BY <1>9, DroppedUnchanged DEF WaitTimeout
<1>10. CASE KillAllLock
  BY <1>10, DroppedUnchanged DEF KillAllLock
<1>11. CASE KillWorker
  <2> DEFINE w == Workers[k]
  <2>1. /\ k \in Occupied /\ Workers' = [Workers EXCEPT ![k] = Nobody] /\ pc' = pc
        /\ cnt' = cnt + 1 /\ trail' = trail /\ Index' = Index
    BY <1>11 DEF KillWorker, Live, Ended, Occupied
  <2>2. w \in Conns /\ Index[w] = k /\ Workers[Index[w]] = w /\ pc[w] = "gone"
    <3>1. k \in Slots /\ w \in Conns /\ Index[w] = k /\ pc[w] \notin {"away", "refused"}
      BY <2>1 DEF SlotsOwned, Occupied
    <3>2. pc[Main] = "killing"
      BY <1>11 DEF KillWorker
    <3> QED
      BY <3>1, <3>2
  <2>5. trail[w] \in Mute
    BY <2>2
  <2>3. Dropped' = Dropped \cup {w} /\ w \notin Dropped
    <3>1. \A c \in Conns \ {w} : Workers'[Index'[c]] = c <=> Workers[Index[c]] = c
      BY <2>1, <2>2 DEF Occupied
    <3>2. Workers'[Index'[w]] # w
      BY <2>1, <2>2 DEF Occupied
    <3> HIDE DEF w
    <3> QED
      BY <2>1, <2>2, <2>5, <3>1, <3>2 DEF Dropped, Mute
  <2>4. IsFiniteSet(Dropped)
    BY FS_Subset DEF Dropped
  <2> HIDE DEF w
  <2> QED
    BY <2>1, <2>3, <2>4, FS_AddElement DEF DroppedCounted
<1>12. CASE KillSkip
  BY <1>12, DroppedUnchanged DEF KillSkip
<1>13. CASE KillCrash
  BY <1>13, DroppedUnchanged DEF KillCrash, Live, Ended, HasSocket, Occupied
<1>14. CASE KillAllUnlock
  BY <1>14, DroppedUnchanged DEF KillAllUnlock
<1>15. CASE Reset
  BY <1>15, DroppedUnchanged DEF Reset
<1>16. CASE Destroy
  BY <1>16, DroppedUnchanged DEF Destroy
<1>17. CASE ListenerLoop
  BY <1>17, DroppedUnchanged DEF ListenerLoop
<1>18. CASE ListenerIdle
  BY <1>18, DroppedUnchanged DEF ListenerIdle
<1>19. CASE ListenerDrop
  BY <1>19, DroppedUnchanged DEF ListenerDrop
<1>20. CASE IncomingReject
  BY <1>20, DroppedUnchanged DEF IncomingReject
<1>21. CASE Incoming
  BY <1>21, DroppedUnchanged DEF Incoming
<1>22. CASE IncomingLock
  BY <1>22, DroppedUnchanged DEF IncomingLock
<1>23. CASE IncomingPlace
  <2>1. /\ FirstFree \in Slots /\ Workers[FirstFree] = Nobody /\ pc[incoming] = "away"
        /\ incoming \in Conns
    BY <1>23, FirstFreeIsFree DEF IncomingPlace, Occupied
  <2>2. /\ Workers' = [Workers EXCEPT ![FirstFree] = incoming]
        /\ Index' = [Index EXCEPT ![incoming] = FirstFree]
        /\ pc' = [pc EXCEPT ![Listener] = "count", ![incoming] = "created"]
        /\ trail' = trail /\ cnt' = cnt
    BY <1>23 DEF IncomingPlace
  <2>3. \A c \in Conns \ {incoming} :
           /\ pc'[c] = pc[c] /\ Index'[c] = Index[c]
           /\ Workers'[Index'[c]] = c <=> Workers[Index[c]] = c
    BY <2>1, <2>2
  <2>4. pc'[incoming] = "created"
    BY <2>1, <2>2
  <2> QED
    BY <2>1, <2>2, <2>3, <2>4, DroppedUnchanged
<1>24. CASE IncomingCount
  BY <1>24, DroppedUnchanged DEF IncomingCount
<1>25. CASE IncomingStart
  BY <1>25, DroppedUnchanged DEF IncomingStart
<1>26. CASE IncomingHandle
  BY <1>26, DroppedUnchanged DEF IncomingHandle, HasSocket
<1>27. CASE IncomingUnlock
  BY <1>27, DroppedUnchanged DEF IncomingUnlock
<1>28. ASSUME NEW c \in Conns, ListenerAccept(c) PROVE Kept
  BY <1>28, DroppedUnchanged DEF ListenerAccept
<1>29. ASSUME NEW c \in Conns, WorkerEnter(c) PROVE Kept
  <2>1. Workers[Index[c]] = c
    BY <1>29 DEF WorkerEnter, SlotsOwned, Attached
  <2>2. \A d \in Conns \ {c} : pc'[d] = pc[d]
    BY <1>29 DEF WorkerEnter
  <2>3. /\ pc[c] = "born" /\ trail' = trail /\ Workers' = Workers /\ Index' = Index
        /\ cnt' = cnt
    BY <1>29 DEF WorkerEnter
  <2> QED
    BY <2>1, <2>2, <2>3, DroppedUnchanged
<1>30. ASSUME NEW c \in Conns, WorkerLoop(c) PROVE Kept
  BY <1>30, DroppedUnchanged DEF WorkerLoop
<1>31. ASSUME NEW c \in Conns, WorkerExecute(c) PROVE Kept
  BY <1>31, DroppedUnchanged DEF WorkerExecute
<1>32. ASSUME NEW c \in Conns, DeleteLock(c) PROVE Kept
  BY <1>32, DroppedUnchanged DEF DeleteLock
<1>33. ASSUME NEW c \in Conns, DeleteClear(c) PROVE Kept
  <2>1. /\ pc[c] = "clear" /\ Workers[Index[c]] = c
        /\ Workers' = [Workers EXCEPT ![Index[c]] = Nobody]
        /\ pc' = [pc EXCEPT ![c] = "decrement"] /\ trail' = trail /\ Index' = Index /\ cnt' = cnt
    BY <1>33 DEF DeleteClear, SlotsOwned, Attached
  <2>2. \A d \in Conns \ {c} :
           pc'[d] = pc[d] /\ (Workers'[Index'[d]] = d <=> Workers[Index[d]] = d)
    BY <2>1
  <2>3. pc'[c] = "decrement"
    BY <2>1
  <2> QED
    BY <2>1, <2>2, <2>3, DroppedUnchanged
<1>34. ASSUME NEW c \in Conns, DeleteDecrement(c) PROVE Kept
  BY <1>34, DroppedUnchanged DEF DeleteDecrement
<1>35. ASSUME NEW c \in Conns, DeleteUnlock(c) PROVE Kept
  BY <1>35, DroppedUnchanged DEF DeleteUnlock
<1>36. ASSUME NEW t \in Threads, EnterEvent(t) PROVE Kept
  BY <1>36, DroppedUnchanged DEF EnterEvent, InEvent
<1>37. ASSUME NEW t \in Threads, LeaveEvent(t) PROVE Kept
  <2>1. /\ pc'[t] = AfterEvent(pc[t]) /\ \A u \in Threads : u # t => pc'[u] = pc[u]
        /\ Workers' = Workers /\ Index' = Index /\ InEvent(t) /\ cnt' = cnt
    BY <1>37 DEF LeaveEvent
  <2>2. \A c \in Conns \ {t} : pc'[c] = pc[c] /\ (trail'[c] \in Mute <=> trail[c] \in Mute)
    BY <1>37, <2>1, EventParts
  <2>3. ASSUME t \in Conns PROVE pc[t] # "gone" /\ pc'[t] # "gone"
    BY <2>1, <2>3 DEF InEvent, WorkerEvents, FarewellEvents, AfterEvent
  <2> QED
    BY <2>1, <2>2, <2>3, DroppedUnchanged
<1>38. CASE UNCHANGED vars
  BY <1>38, DroppedUnchanged DEF vars
<1> QED
  BY <1>1, <1>2, <1>3, <1>4, <1>5, <1>6, <1>7, <1>8, <1>9, <1>10, <1>11,
     <1>12, <1>13, <1>14, <1>15, <1>16, <1>17, <1>18, <1>19, <1>20, <1>21,
     <1>22, <1>23, <1>24, <1>25, <1>26, <1>27, <1>28, <1>29, <1>30, <1>31,
     <1>32, <1>33, <1>34, <1>35, <1>36, <1>37, <1>38 DEF Next, MainStep,
     ListenerStep, Worker

\* Who took leave and who was dropped stay apart and are counted.
THEOREM PartedInductive == Prompt => (Spec => [](Parted /\ DroppedCounted))
<1> SUFFICES ASSUME Prompt PROVE Spec => [](Parted /\ DroppedCounted)
  OBVIOUS
<1>1. Init => Parted /\ DroppedCounted
  <2> SUFFICES ASSUME Init PROVE Parted /\ DroppedCounted
    OBVIOUS
  <2>1. Dropped = {} /\ cnt = 0
    BY ThreadsAssumption DEF Init, Dropped, Threads
  <2>2. \A c \in Conns : pc[c] = "away" /\ trail[c] = <<>>
    BY ThreadsAssumption DEF Init, Threads
  <2>3. pc[Main] = "init"
    BY DEF Init, Threads
  <2> QED
    BY <2>1, <2>2, <2>3, FS_EmptySet DEF Parted, PartedAt, Mute, DroppedCounted
<1> DEFINE Known == IInv /\ Registered /\ TrailsOK /\ SenderOK
<1>2. Known /\ Parted /\ DroppedCounted /\ [Next]_vars => (Parted /\ DroppedCounted)'
  BY PartedStep, DroppedStep DEF DroppedCounted
<1> QED
  BY <1>1, <1>2, Inductive, RegisteredInductive, TrailsInductive, PTL DEF Spec

\* A client that got a worker either took leave or was dropped when Stop is over.
LEMMA AdmittedParts ==
    ASSUME Prompt, IInv, Registered, Silent, TrailsOK, Parted,
           pc[Main] \in {"idle", "deleted"}, pc[Listener] # "off"
    PROVE  /\ Admitted = {c \in Conns : Farewells(c) # {}} \cup Dropped
           /\ {c \in Conns : Farewells(c) # {}} \cap Dropped = {}
<1>1. Listed = {} /\ pc[Listener] = "gone"
  BY DEF Parted, IInv, Joined, Registered
<1>2. ASSUME NEW c \in Conns PROVE Workers[Index[c]] # c
  <2>1. Index[c] \in Slots
    BY DEF IInv, TypeOK
  <2> QED
    BY <1>1, <2>1, ThreadsAssumption DEF Listed, Occupied
<1>3. ASSUME NEW c \in Conns PROVE pc[c] \in {"away", "refused", "decrement", "unlock", "gone"}
  <2>1. pc[c] \in WorkerLabels /\ pc[c] \notin {"created", "killed"}
    BY <1>1 DEF IInv, TypeOK, LabelsOK, Parted, PartedAt
  <2>2. pc[c] \notin Serving
    BY DEF Silent
  <2> QED
    BY <2>1, <2>2 DEF WorkerLabels, Serving, Attached, WorkerEvents, FarewellEvents
<1>4. ASSUME NEW c \in Conns
      PROVE  /\ c \in Admitted <=> Farewells(c) # {} \/ c \in Dropped
             /\ c \in Dropped => Farewells(c) = {}
  <2>1. trail[c] \in Mute <=> Farewells(c) = {}
    BY MuteIs DEF TrailsOK
  <2>2. /\ pc[c] \in {"away", "refused"} => trail[c] \in Mute
        /\ pc[c] \in {"decrement", "unlock"} => trail[c] \notin Mute
    BY DEF Parted, PartedAt
  <2> QED
    BY <1>2, <1>3, <2>1, <2>2 DEF Admitted, Dropped
<1> QED
  BY <1>4 DEF Admitted, Dropped

\* When Stop is over every client that got a worker has taken leave, or it was
\* dropped and is in the number that ClientsDropped reports (snap_tcpsrvr.cpp:309);
\* no client is in both.
THEOREM NobodyLost == Prompt => (Spec => []SessionsBalance)
<1> SUFFICES ASSUME Prompt PROVE Spec => []SessionsBalance
  OBVIOUS
<1>1. IInv /\ Registered /\ Silent /\ TrailsOK /\ Parted /\ DroppedCounted => SessionsBalance
  <2> SUFFICES ASSUME IInv, Registered, Silent, TrailsOK, Parted, DroppedCounted,
                      pc[Main] \in {"idle", "deleted"}
               PROVE  Cardinality(Admitted)
                        = cnt + Cardinality({c \in Conns : Farewells(c) # {}})
    BY DEF SessionsBalance
  <2> DEFINE Left == {c \in Conns : Farewells(c) # {}}
  <2>1. IsFiniteSet(Left) /\ IsFiniteSet(Dropped)
    BY SizesAssumption, FS_Subset DEF Dropped
  <2>2. Admitted = Left \cup Dropped /\ Left \cap Dropped = {}
    <3>1. CASE pc[Listener] = "off"
      <4>1. \A c \in Conns : pc[c] = "away" /\ trail[c] \in Mute
        BY <3>1 DEF IInv, Joined, Parted, PartedAt
      <4>2. \A c \in Conns : Farewells(c) = {}
        BY <4>1, MuteIs DEF TrailsOK
      <4> QED
        BY <4>1, <4>2 DEF Admitted, Dropped
    <3>2. CASE pc[Listener] # "off"
      BY <3>2, AdmittedParts
    <3> QED
      BY <3>1, <3>2
  <2> HIDE DEF Left
  <2>3. Cardinality(Left \cup Dropped)
          = Cardinality(Left) + Cardinality(Dropped) - Cardinality(Left \cap Dropped)
    BY <2>1, FS_Union
  <2>4. Cardinality(Left) \in Nat /\ Cardinality(Left \cap Dropped) = 0 /\ cnt \in Nat
    BY <2>1, <2>2, FS_CardinalityType, FS_EmptySet DEF IInv, TypeOK
  <2>5. Cardinality(Admitted) = cnt + Cardinality(Left)
    BY <2>2, <2>3, <2>4 DEF DroppedCounted
  <2> QED
    BY <2>5 DEF Left
<1> QED
  BY <1>1, Inductive, RegisteredInductive, QuietInductive, TrailsInductive, PartedInductive, PTL

=============================================================================
