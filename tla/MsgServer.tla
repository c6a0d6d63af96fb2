----------------------------- MODULE MsgServer ------------------------------
(***************************************************************************)
(* TCustomMsgServer of src/plc/snap_tcpsrvr.cpp: the listener thread, one  *)
(* worker thread per connection, and the thread that starts and stops the  *)
(* server.  The S7 and the Modbus server of the PLC are both of this class.*)
(*                                                                         *)
(* A thread is its program counter pc[t].  CSList and CSEvent are the two  *)
(* critical sections, each the thread inside it or Nobody.  A step is what *)
(* a thread does between two accesses to what another thread can see, so   *)
(* the unlocked reads of ClientsCount and of Workers interleave with the   *)
(* locked writes, as in the code.                                          *)
(*                                                                         *)
(* DoEvent is two steps for every caller: EnterEvent, then the callback,   *)
(* the insertion and Leave.  Which event it is follows from the label.     *)
(*                                                                         *)
(* TerminateThread (TSnapThread::Kill) stops a thread where it stands and  *)
(* leaves the critical sections it was in occupied for ever.               *)
(***************************************************************************)
EXTENDS Integers, FiniteSets, Sequences

CONSTANTS
    Conns,       \* the connections that clients make; a worker thread each
    Main,        \* the thread that runs main(): Start, Stop, delete
    Listener,    \* the TMsgListenerThread
    Nobody,      \* no thread, no connection: a null pointer
    MaxWorkers,  \* length of Workers (snap_tcpsrvr.h: 1024)
    MaxClients,  \* 0 for no limit
    Prompt       \* TRUE: no thread is ever so slow that ThTimeout or
                 \* WkTimeout runs out while it could still finish

ASSUME ThreadsAssumption ==
    /\ Main \notin Conns /\ Listener \notin Conns /\ Nobody \notin Conns
    /\ Main # Listener /\ Main # Nobody /\ Listener # Nobody

ASSUME SizesAssumption ==
    /\ MaxWorkers \in Nat \ {0}
    /\ MaxClients \in Nat
    /\ Prompt \in BOOLEAN
    /\ IsFiniteSet(Conns)

VARIABLES
    pc,            \* [Threads -> label]
    Terminated,    \* TSnapThread::Terminated of the listener and the workers
    Status,        \* TCustomMsgServer::Status
    Workers,       \* the list: [Slots -> Conns \cup {Nobody}]
    ClientsCount,
    CSList, CSEvent,
    Index,         \* TMsgWorkerThread::Index
    incoming,      \* the connection the listener is dealing with
    sender,        \* the sender of the listener's next event
    k, target,     \* loop counter (c) of TerminateAll and KillAll, and the
                   \* pointer TerminateAll has just read
    cnt,           \* how many KillAll dropped
    journal,       \* codes of the server's own events, in order
    trail          \* for each connection, the codes of its events, in order

vars == <<pc, Terminated, Status, Workers, ClientsCount, CSList, CSEvent,
          Index, incoming, sender, k, target, cnt, journal, trail>>

mainVars == <<Status, k, target, cnt>>
listenerVars == <<incoming, sender>>
listVars == <<Workers, ClientsCount, Index>>
logVars == <<journal, trail>>

Slots == 0 .. MaxWorkers - 1
Threads == Conns \cup {Main, Listener}

MainLabels == {"init", "started", "cannotStart", "running", "joining",
    "terminateAll", "terminating", "waiting", "killAll", "killing", "dropped",
    "reset", "stopped", "idle", "deleted", "crashed"}
ListenerLabels == {"off", "loop", "poll", "accepted", "lock", "place",
    "count", "start", "handle", "added", "noRoom", "unlock", "rejected",
    "gone", "killed"}
WorkerLabels == {"away", "refused", "created", "born", "loop", "exec", "busy",
    "exception", "disconnected", "terminated", "delete", "clear", "decrement",
    "unlock", "gone", "killed"}

\* Labels at which a thread calls DoEvent; the label is the code it reports.
MainEvents == {"started", "cannotStart", "dropped", "stopped"}
ListenerEvents == {"added", "noRoom", "rejected"}
FarewellEvents == {"exception", "disconnected", "terminated"}
WorkerEvents == FarewellEvents \cup {"busy"}

InEvent(t) ==
    \/ t = Main /\ pc[t] \in MainEvents
    \/ t = Listener /\ pc[t] \in ListenerEvents
    \/ t \in Conns /\ pc[t] \in WorkerEvents

\* Defect: a worker goes on after an exception.
AfterEventResumed(l) ==
    CASE l \in {"started", "cannotStart"} -> "running"
      [] l = "dropped" -> "reset"
      [] l = "stopped" -> "idle"
      [] l \in {"added", "noRoom"} -> "unlock"
      [] l \in {"rejected", "busy", "exception"} -> "loop"
      [] OTHER -> "delete"

\* Where a thread goes on after the event it reports at label l.
AfterEvent(l) ==
    CASE l \in {"started", "cannotStart"} -> "running"
      [] l = "dropped" -> "reset"
      [] l = "stopped" -> "idle"
      [] l \in {"added", "noRoom"} -> "unlock"
      [] l \in {"rejected", "busy"} -> "loop"
      [] OTHER -> "delete"    \* a worker that takes leave

Occupied == {i \in Slots : Workers[i] # Nobody}
Listed == {Workers[i] : i \in Occupied}

\* FirstFree: the lowest empty slot; its callers look at Full first.
Full == Occupied = Slots
\* Defect: the first slot, empty or not.
FirstFreeAny == 0

FirstFree == CHOOSE i \in Slots : /\ i \notin Occupied
                                  /\ \A j \in Slots \ Occupied : i <= j

\* Defect: off by one.
CanAcceptOneMore == MaxClients = 0 \/ ClientsCount <= MaxClients

CanAccept == MaxClients = 0 \/ ClientsCount < MaxClients

\* A thread that was never made or is no more; a worker thread that exists;
\* one whose TMsgSocket exists too.
Ended(t) == pc[t] \in {"off", "away", "refused", "gone", "killed"}
Live(c) == ~Ended(c)
HasSocket(c) == Live(c) /\ pc[c] \notin {"delete", "clear", "decrement", "unlock"}

Goto(t, l) == pc' = [pc EXCEPT ![t] = l]

Init ==
    /\ pc = [t \in Threads |-> IF t = Main THEN "init"
                               ELSE IF t = Listener THEN "off" ELSE "away"]
    /\ Terminated = [t \in Threads \ {Main} |-> FALSE]
    /\ Status = "SrvStopped"
    /\ Workers = [i \in Slots |-> Nobody]
    /\ ClientsCount = 0
    /\ CSList = Nobody
    /\ CSEvent = Nobody
    /\ Index = [c \in Conns |-> 0]
    /\ incoming = Nobody
    /\ sender = Nobody
    /\ k = 0
    /\ target = Nobody
    /\ cnt = 0
    /\ journal = <<>>
    /\ trail = [c \in Conns |-> <<>>]

-----------------------------------------------------------------------------
(* DoEvent *)

EnterEvent(t) ==
    /\ InEvent(t)
    /\ CSEvent = Nobody
    /\ CSEvent' = t
    /\ UNCHANGED <<pc, Terminated, CSList, mainVars, listenerVars, listVars, logVars>>

\* OnEvent, Insert and Leave.  Start sets Status right after its event; only
\* the main thread ever looks at it.
LeaveEvent(t) ==
    /\ CSEvent = t
    /\ InEvent(t)
    /\ CSEvent' = Nobody
    /\ Goto(t, AfterEvent(pc[t]))
    /\ Status' = CASE pc[t] = "started" -> "SrvRunning"
                   [] pc[t] = "cannotStart" -> "SrvError"
                   [] OTHER -> Status
    /\ journal' = IF t = Main THEN Append(journal, pc[t]) ELSE journal
    /\ trail' = LET of == IF t = Listener THEN sender ELSE t
                IN  IF of \in Conns /\ pc[t] # "busy"
                    THEN [trail EXCEPT ![of] = Append(@, pc[t])]
                    ELSE trail
    /\ UNCHANGED <<Terminated, CSList, k, target, cnt, listenerVars, listVars>>

-----------------------------------------------------------------------------
(* The worker threads *)

\* ThreadProc: Execute is skipped by a thread that finds Terminated set
\* already; it ends at once and frees its object, the list keeps the pointer.
WorkerEnter(c) ==
    /\ pc[c] = "born"
    /\ Goto(c, IF Terminated[c] THEN "gone" ELSE "loop")
    /\ UNCHANGED <<Terminated, CSList, CSEvent, mainVars, listenerVars, listVars, logVars>>

WorkerLoop(c) ==
    /\ pc[c] = "loop"
    /\ Goto(c, IF Terminated[c] THEN "terminated" ELSE "exec")
    /\ UNCHANGED <<Terminated, CSList, CSEvent, mainVars, listenerVars, listVars, logVars>>

\* One WorkerSocket->Execute: nothing to read or a request without an event,
\* a request that is reported, the end of the connection, an exception.
WorkerExecute(c) ==
    /\ pc[c] = "exec"
    /\ \E l \in {"loop", "busy", "disconnected", "exception"} : Goto(c, l)
    /\ UNCHANGED <<Terminated, CSList, CSEvent, mainVars, listenerVars, listVars, logVars>>

\* Defect: Delete without LockList.
DeleteUnlocked(c) ==
    /\ pc[c] = "delete"
    /\ CSList' = c
    /\ Goto(c, "clear")
    /\ UNCHANGED <<Terminated, CSEvent, mainVars, listenerVars, listVars, logVars>>

\* Delete(Index), after delete WorkerSocket: LockList, Workers[Index] = 0,
\* ClientsCount--, UnlockList; then the thread ends.
DeleteLock(c) ==
    /\ pc[c] = "delete"
    /\ CSList = Nobody
    /\ CSList' = c
    /\ Goto(c, "clear")
    /\ UNCHANGED <<Terminated, CSEvent, mainVars, listenerVars, listVars, logVars>>

\* Defect: the slot is not emptied.
DeleteForgotten(c) ==
    /\ pc[c] = "clear"
    /\ Goto(c, "decrement")
    /\ UNCHANGED <<Terminated, CSList, CSEvent, mainVars, listenerVars, listVars, logVars>>

DeleteClear(c) ==
    /\ pc[c] = "clear"
    /\ Workers' = [Workers EXCEPT ![Index[c]] = Nobody]
    /\ Goto(c, "decrement")
    /\ UNCHANGED <<Terminated, ClientsCount, CSList, CSEvent, Index, mainVars, listenerVars, logVars>>

DeleteDecrement(c) ==
    /\ pc[c] = "decrement"
    /\ ClientsCount' = ClientsCount - 1
    /\ Goto(c, "unlock")
    /\ UNCHANGED <<Terminated, Workers, CSList, CSEvent, Index, mainVars, listenerVars, logVars>>

DeleteUnlock(c) ==
    /\ pc[c] = "unlock"
    /\ CSList' = Nobody
    /\ Goto(c, "gone")
    /\ UNCHANGED <<Terminated, CSEvent, mainVars, listenerVars, listVars, logVars>>

Worker(c) ==
    \/ WorkerEnter(c)
    \/ WorkerLoop(c)
    \/ WorkerExecute(c)
    \/ DeleteLock(c)
    \/ DeleteClear(c)
    \/ DeleteDecrement(c)
    \/ DeleteUnlock(c)
-----------------------------------------------------------------------------
(* The listener thread *)

\* while (!Terminated), ThreadProc's own test included: a thread that skips
\* Execute ends all the same.
ListenerLoop ==
    /\ pc[Listener] = "loop"
    /\ Goto(Listener, IF Terminated[Listener] THEN "gone" ELSE "poll")
    /\ UNCHANGED <<Terminated, CSList, CSEvent, mainVars, listenerVars, listVars, logVars>>

\* CanRead runs out, or accept returns no socket.
ListenerIdle ==
    /\ pc[Listener] = "poll"
    /\ Goto(Listener, "loop")
    /\ UNCHANGED <<Terminated, CSList, CSEvent, mainVars, listenerVars, listVars, logVars>>

ListenerAccept(c) ==
    /\ pc[Listener] = "poll"
    /\ pc[c] = "away"
    /\ incoming' = c
    /\ sender' = c
    /\ Goto(Listener, "accepted")
    /\ UNCHANGED <<Terminated, CSList, CSEvent, mainVars, listVars, logVars>>

\* The second look at Terminated, after the wait in CanRead.
ListenerDrop ==
    /\ pc[Listener] = "accepted"
    /\ Terminated[Listener]
    /\ pc' = [pc EXCEPT ![Listener] = "loop", ![incoming] = "refused"]
    /\ UNCHANGED <<Terminated, CSList, CSEvent, mainVars, listenerVars, listVars, logVars>>

\* Incoming: CanAccept reads ClientsCount outside CSList.
IncomingReject ==
    /\ pc[Listener] = "accepted"
    /\ ~Terminated[Listener]
    /\ ~CanAccept
    /\ pc' = [pc EXCEPT ![Listener] = "rejected", ![incoming] = "refused"]
    /\ UNCHANGED <<Terminated, CSList, CSEvent, mainVars, listenerVars, listVars, logVars>>

Incoming ==
    /\ pc[Listener] = "accepted"
    /\ ~Terminated[Listener]
    /\ CanAccept
    /\ Goto(Listener, "lock")
    /\ UNCHANGED <<Terminated, CSList, CSEvent, mainVars, listenerVars, listVars, logVars>>

IncomingLock ==
    /\ pc[Listener] = "lock"
    /\ CSList = Nobody
    /\ CSList' = Listener
    /\ pc' = IF Full THEN [pc EXCEPT ![Listener] = "noRoom", ![incoming] = "refused"]
                     ELSE [pc EXCEPT ![Listener] = "place"]
    /\ UNCHANGED <<Terminated, CSEvent, mainVars, listenerVars, listVars, logVars>>

IncomingPlace ==
    /\ pc[Listener] = "place"
    /\ Workers' = [Workers EXCEPT ![FirstFree] = incoming]
    /\ Index' = [Index EXCEPT ![incoming] = FirstFree]
    /\ pc' = [pc EXCEPT ![Listener] = "count", ![incoming] = "created"]
    /\ UNCHANGED <<ClientsCount, Terminated, CSList, CSEvent, mainVars, listenerVars, logVars>>

\* Defect: the client is not counted.
IncomingUncounted ==
    /\ pc[Listener] = "count"
    /\ Goto(Listener, "start")
    /\ UNCHANGED <<Terminated, CSList, CSEvent, mainVars, listenerVars, listVars, logVars>>

IncomingCount ==
    /\ pc[Listener] = "count"
    /\ ClientsCount' = ClientsCount + 1
    /\ Goto(Listener, "start")
    /\ UNCHANGED <<Workers, Index, Terminated, CSList, CSEvent, mainVars, listenerVars, logVars>>

IncomingStart ==
    /\ pc[Listener] = "start"
    /\ pc' = [pc EXCEPT ![Listener] = "handle", ![incoming] = "born"]
    /\ UNCHANGED <<Terminated, CSList, CSEvent, mainVars, listenerVars, listVars, logVars>>

\* WorkerSocket->ClientHandle, for ClientAdded.  The worker runs already and may
\* have deleted its socket: then the handle is what the memory still holds, or
\* anything else.
IncomingHandle ==
    /\ pc[Listener] = "handle"
    /\ \/ sender' = incoming
       \/ ~HasSocket(incoming) /\ sender' = Nobody
    /\ Goto(Listener, "added")
    /\ UNCHANGED <<incoming, Terminated, CSList, CSEvent, mainVars, listVars, logVars>>

IncomingUnlock ==
    /\ pc[Listener] = "unlock"
    /\ CSList' = Nobody
    /\ Goto(Listener, "loop")
    /\ UNCHANGED <<Terminated, CSEvent, mainVars, listenerVars, listVars, logVars>>

ListenerStep ==
    \/ ListenerLoop
    \/ ListenerIdle
    \/ ListenerDrop
    \/ IncomingReject
    \/ Incoming
    \/ IncomingLock
    \/ IncomingPlace
    \/ IncomingCount
    \/ IncomingStart
    \/ IncomingHandle
    \/ IncomingUnlock

-----------------------------------------------------------------------------
(* The main thread: Start, Stop, delete *)

\* Start and StartListener: bind and listen succeed and the listener thread
\* runs, or the socket is gone again.
Start ==
    /\ pc[Main] = "init"
    /\ \/ pc' = [pc EXCEPT ![Main] = "started", ![Listener] = "loop"]
       \/ Goto(Main, "cannotStart")
    /\ UNCHANGED <<Terminated, CSList, CSEvent, mainVars, listenerVars, listVars, logVars>>

Stop ==
    /\ pc[Main] = "running"
    /\ IF Status = "SrvRunning"
       THEN /\ Terminated' = [Terminated EXCEPT ![Listener] = TRUE]
            /\ Goto(Main, "joining")
       ELSE /\ Goto(Main, "idle")
            /\ UNCHANGED Terminated
    /\ UNCHANGED <<CSList, CSEvent, mainVars, listenerVars, listVars, logVars>>

\* Defect: Stop does not wait for the listener.
JoinListenerAtOnce ==
    /\ pc[Main] = "joining"
    /\ Goto(Main, "terminateAll")
    /\ UNCHANGED <<Terminated, CSList, CSEvent, mainVars, listenerVars, listVars, logVars>>

\* WaitFor(ThTimeout): the listener has ended, or it is killed where it is.
JoinListener ==
    /\ pc[Main] = "joining"
    /\ \/ /\ pc[Listener] = "gone"
          /\ Goto(Main, "terminateAll")
       \/ /\ ~Prompt /\ pc[Listener] # "gone"
          /\ pc' = [pc EXCEPT ![Main] = "terminateAll", ![Listener] = "killed"]
    /\ UNCHANGED <<Terminated, CSList, CSEvent, mainVars, listenerVars, listVars, logVars>>

\* TerminateAll: with no client there is nothing to do.
TerminateAll ==
    /\ pc[Main] = "terminateAll"
    /\ k' = 0
    /\ IF ClientsCount > 0
       THEN Goto(Main, "terminating") /\ UNCHANGED Status
       ELSE Goto(Main, "stopped") /\ Status' = "SrvStopped"
    /\ UNCHANGED <<target, cnt, Terminated, CSList, CSEvent, listenerVars, listVars, logVars>>

\* The sweep over Workers is outside CSList: the pointer is read in one step
\* and used in the next, when the thread may have ended.
TerminateRead ==
    /\ pc[Main] = "terminating"
    /\ target = Nobody
    /\ k < MaxWorkers
    /\ target' = Workers[k]
    /\ k' = IF Workers[k] = Nobody THEN k + 1 ELSE k
    /\ UNCHANGED <<pc, Status, cnt, Terminated, CSList, CSEvent, listenerVars, listVars, logVars>>

\* Defect: the worker is not told.
TerminateNobody ==
    /\ pc[Main] = "terminating"
    /\ target # Nobody
    /\ target' = Nobody
    /\ k' = k + 1
    /\ UNCHANGED <<pc, Status, cnt, Terminated, CSList, CSEvent, listenerVars, listVars, logVars>>

TerminateWorker ==
    /\ pc[Main] = "terminating"
    /\ target # Nobody
    /\ Terminated' = [Terminated EXCEPT ![target] = TRUE]
    /\ target' = Nobody
    /\ k' = k + 1
    /\ UNCHANGED <<pc, Status, cnt, CSList, CSEvent, listenerVars, listVars, logVars>>

TerminateSwept ==
    /\ pc[Main] = "terminating"
    /\ target = Nobody
    /\ k = MaxWorkers
    /\ Goto(Main, "waiting")
    /\ UNCHANGED <<Terminated, CSList, CSEvent, mainVars, listenerVars, listVars, logVars>>

\* Defect: nobody waits for the clients.
WaitNoClients ==
    /\ pc[Main] = "waiting"
    /\ Goto(Main, "reset")
    /\ UNCHANGED <<Terminated, CSList, CSEvent, mainVars, listenerVars, listVars, logVars>>

\* The wait for ClientsCount to fall to 0, for WkTimeout at most.
WaitClients ==
    /\ pc[Main] = "waiting"
    /\ ClientsCount = 0
    /\ Goto(Main, "reset")
    /\ UNCHANGED <<Terminated, CSList, CSEvent, mainVars, listenerVars, listVars, logVars>>

WaitTimeout ==
    /\ pc[Main] = "waiting"
    /\ ClientsCount > 0
    /\ Prompt => \A c \in Conns : ~Live(c)
    /\ Goto(Main, "killAll")
    /\ UNCHANGED <<Terminated, CSList, CSEvent, mainVars, listenerVars, listVars, logVars>>

KillAllLock ==
    /\ pc[Main] = "killAll"
    /\ CSList = Nobody
    /\ CSList' = Main
    /\ k' = 0
    /\ Goto(Main, "killing")
    /\ UNCHANGED <<Status, target, cnt, Terminated, CSEvent, listenerVars, listVars, logVars>>

\* Defect: the dropped client is not counted.
KillUncounted ==
    /\ pc[Main] = "killing"
    /\ k \in Occupied
    /\ pc' = IF Live(Workers[k]) THEN [pc EXCEPT ![Workers[k]] = "killed"] ELSE pc
    /\ Workers' = [Workers EXCEPT ![k] = Nobody]
    /\ k' = k + 1
    /\ UNCHANGED <<Status, target, cnt, ClientsCount, Index, Terminated, CSList, CSEvent,
                   listenerVars, logVars>>

\* Kill, ForceClose, delete, Workers[c] = 0.
KillWorker ==
    /\ pc[Main] = "killing"
    /\ k \in Occupied
    /\ pc' = IF Live(Workers[k]) THEN [pc EXCEPT ![Workers[k]] = "killed"] ELSE pc
    /\ Workers' = [Workers EXCEPT ![k] = Nobody]
    /\ cnt' = cnt + 1
    /\ k' = k + 1
    /\ UNCHANGED <<Status, target, ClientsCount, Index, Terminated, CSList, CSEvent,
                   listenerVars, logVars>>

KillSkip ==
    /\ pc[Main] = "killing"
    /\ k \in Slots \ Occupied
    /\ k' = k + 1
    /\ UNCHANGED <<pc, Status, target, cnt, Terminated, CSList, CSEvent,
                   listenerVars, listVars, logVars>>

\* A worker without its socket, or one that freed itself in ThreadProc, is
\* memory of the heap again: the calls of KillWorker may go through, or they
\* end the process and all its threads.
KillCrash ==
    /\ pc[Main] = "killing"
    /\ k \in Occupied
    /\ ~HasSocket(Workers[k])
    /\ pc' = [t \in Threads |-> IF t = Main THEN "crashed"
                                ELSE IF Ended(t) THEN pc[t] ELSE "killed"]
    /\ UNCHANGED <<Terminated, CSList, CSEvent, mainVars, listenerVars, listVars, logVars>>

KillAllUnlock ==
    /\ pc[Main] = "killing"
    /\ k = MaxWorkers
    /\ CSList' = Nobody
    /\ Goto(Main, "dropped")
    /\ UNCHANGED <<Terminated, CSEvent, mainVars, listenerVars, listVars, logVars>>

\* ClientsCount = 0, back in Stop: Status = SrvStopped.
Reset ==
    /\ pc[Main] = "reset"
    /\ ClientsCount' = 0
    /\ Status' = "SrvStopped"
    /\ Goto(Main, "stopped")
    /\ UNCHANGED <<k, target, cnt, Workers, Index, Terminated, CSList, CSEvent,
                   listenerVars, logVars>>

\* delete Device: the destructor's own Stop does nothing any more.
Destroy ==
    /\ pc[Main] = "idle"
    /\ Goto(Main, "deleted")
    /\ UNCHANGED <<Terminated, CSList, CSEvent, mainVars, listenerVars, listVars, logVars>>

MainStep ==
    \/ Start
    \/ JoinListener
    \/ TerminateAll
    \/ TerminateRead
    \/ TerminateWorker
    \/ TerminateSwept
    \/ WaitClients
    \/ WaitTimeout
    \/ KillAllLock
    \/ KillWorker
    \/ KillSkip
    \/ KillCrash
    \/ KillAllUnlock
    \/ Reset
    \/ Destroy

-----------------------------------------------------------------------------
Next ==
    \/ MainStep
    \/ Stop
    \/ ListenerStep
    \/ \E c \in Conns : ListenerAccept(c)
    \/ \E c \in Conns : Worker(c)
    \/ \E t \in Threads : EnterEvent(t) \/ LeaveEvent(t)

Spec == Init /\ [][Next]_vars
-----------------------------------------------------------------------------
(* Fairness: the scheduler of the system runs every thread that can run, a *)
(* callback returns, and CSEvent, which requests enter for ever, is entered *)
(* by each thread that waits for it.  CSList needs no more than weak        *)
(* fairness: a connection takes it twice.  Clients connect and the user     *)
(* stops the server when they like.                                         *)

Fairness ==
    /\ WF_vars(MainStep)
    /\ WF_vars(ListenerStep)
    /\ \A c \in Conns : WF_vars(Worker(c))
    /\ \A t \in Threads : SF_vars(EnterEvent(t))
    /\ WF_vars(\E t \in Threads : LeaveEvent(t))

FairSpec == Spec /\ Fairness

-----------------------------------------------------------------------------
(* Properties *)

LabelsOK ==
    /\ pc = [t \in Threads |-> pc[t]]
    /\ pc[Main] \in MainLabels
    /\ pc[Listener] \in ListenerLabels
    /\ \A c \in Conns : pc[c] \in WorkerLabels

\* Every variable keeps its type; codes of events are labels.
TypeOK ==
    /\ LabelsOK
    /\ Terminated \in [Threads \ {Main} -> BOOLEAN]
    /\ Status \in {"SrvStopped", "SrvRunning", "SrvError"}
    /\ Workers \in [Slots -> Conns \cup {Nobody}]
    /\ ClientsCount \in Nat
    /\ CSList \in Threads \cup {Nobody}
    /\ CSEvent \in Threads \cup {Nobody}
    /\ Index \in [Conns -> Slots]
    /\ incoming \in Conns \cup {Nobody}
    /\ sender \in Conns \cup {Nobody}
    /\ k \in 0 .. MaxWorkers
    /\ target \in Conns \cup {Nobody}
    /\ cnt \in Nat
    /\ journal \in Seq(MainEvents)
    /\ trail \in [Conns -> Seq(ListenerEvents \cup FarewellEvents)]

\* "Critical section to lock Workers list activities" (snap_tcpsrvr.h:155):
\* whenever nobody is inside it, ClientsCount is the number of workers in the
\* list; KillAll alone empties the list first and resets the count later.
CountMatchesList ==
    CSList = Nobody /\ pc[Main] \notin {"dropped", "reset"}
        => ClientsCount = Cardinality(Occupied)

Capacity == IF MaxClients = 0 \/ MaxClients > MaxWorkers THEN MaxWorkers ELSE MaxClients

\* The limit of SetParam(p_i32_MaxClients) is kept although CanAccept reads
\* ClientsCount before Incoming enters CSList.
WithinCapacity == Cardinality(Occupied) <= Capacity

Attached == {"created", "born", "loop", "exec", "delete", "clear"} \cup WorkerEvents

\* From Incoming to Delete a worker thread is in the list, in the slot its
\* Index names, and in no other: Delete(Index) empties no slot of another.
OwnSlot ==
    \A c \in Conns : pc[c] \in Attached =>
        \A i \in Slots : Workers[i] = c <=> i = Index[c]

\* After Stop has set Status nothing is reported but ServerStopped: no thread
\* that survives is before or in a DoEvent.
QuietAfterStop ==
    pc[Main] \in {"stopped", "idle", "deleted"} =>
        /\ pc[Listener] \in {"off", "gone", "killed"}
        /\ \A c \in Conns : pc[c] \notin Attached \ {"created"}

Reports ==
    {<<>>, <<"rejected">>, <<"noRoom">>, <<"added">>}
    \cup {<<f>> : f \in FarewellEvents}
    \cup {<<"added", f>> : f \in FarewellEvents}
    \cup {<<f, "added">> : f \in FarewellEvents}

\* What may be reported of one connection: it was turned away, or it was added
\* and took leave, each once; ClientAdded may come last, or go to an unknown
\* sender, since the worker runs before Incoming reports it.
ReportedOnce == \A c \in Conns : trail[c] \in Reports

Admitted == {c \in Conns : pc[c] \notin {"away", "refused"}}
Farewells(c) == {i \in DOMAIN trail[c] : trail[c][i] \in FarewellEvents}

\* When Stop is over, every client that got a worker has taken leave or is
\* counted in ClientsDropped, none of them twice (Prompt only: a worker killed
\* in Delete has been reported already).
SessionsBalance ==
    pc[Main] \in {"idle", "deleted"} =>
        Cardinality(Admitted) = cnt + Cardinality({c \in Conns : Farewells(c) # {}})

\* The registry the threads implement: its phase, the workers in the list, the
\* connections that ever got a worker.
RegistryPhase ==
    IF pc[Listener] = "off" THEN "down"
    ELSE IF pc[Main] \in {"started", "running", "joining"} THEN "up"
    ELSE IF Status = "SrvStopped" THEN "closed"
    ELSE "draining"

Registry == INSTANCE ClientRegistry
    WITH phase <- RegistryPhase, open <- Listed, admitted <- Admitted

\* Every step of the threads is a step of the registry of clients, or changes
\* nothing in it (Prompt only: a killed listener leaves CSList occupied).
ImplementsRegistry == Registry!Spec

\* Stop comes to its end (or the process does, see KillWorker).
StopCompletes == pc[Main] = "joining" ~> pc[Main] \in {"idle", "deleted", "crashed"}

\* A worker that has taken leave gives its slot back.
SlotReturned ==
    \A c \in Conns :
        pc[c] \in FarewellEvents ~> (c \notin Listed \/ pc[Main] = "crashed")
=============================================================================
