------------------------------ MODULE S7Services ------------------------------
(***************************************************************************)
(* What the workers of the S7 server do with a request that is neither     *)
(* about data nor about blocks (PerformPDURequest, PerformPDUUsrData): the *)
(* partial lists, the diagnostic jobs, the control of the CPU and the      *)
(* services that keep nothing.  All of them share the server's state, and  *)
(* each one ends with an event in its queue.                               *)
(***************************************************************************)
EXTENDS SzlLists, DiagJobs, EventQueue

CONSTANTS
    Mixes,                  \* [workers, groups, full, memory]: which clients there are, what
                            \* they use, whether the queue is full before they come, and
                            \* what CpuStatus is before anybody sets it
    MaxTime                 \* bound on the clock

ASSUME ConnectionsAssumption == Connections = Workers
ASSUME MixesAssumption == \A m \in Mixes : m.workers \subseteq Workers

VARIABLES
    uses,                   \* one of the Mixes
    CpuStatus, LastCPUStateChange, DiagBuffer, now,
    control,                \* of each worker: the control that is answered and not carried out
    sent                    \* of each worker: the last of the lists it made up from the server's state

cpu == <<CpuStatus, LastCPUStateChange, DiagBuffer, now, control, sent>>
vars == <<szlVars, diagVars, queue, cpu, uses>>

Unset == -1
NothingSent == [id |-> "none"]

\* When the CPU already is in the state, the time stays what it was: for
\* SetCpuStatus in the constructor, that is memory nobody has set.
SetCpuStatus(before, state) ==
    /\ CpuStatus = state
    /\ LastCPUStateChange = IF before = state THEN Unset ELSE now

\* The newest item comes first, with the time.  There is one, SZL_DIAG_START.
AddDiagItem(items) == <<now>> \o items

MaxDiagBufferItems == 99
GetDiagItemCount == IF Len(DiagBuffer) > MaxDiagBufferItems THEN MaxDiagBufferItems ELSE Len(DiagBuffer)
CopyDiagBuffer == SubSeq(DiagBuffer, 1, GetDiagItemCount)

Init ==
    /\ SzlInit /\ DiagInit
    /\ uses \in Mixes
    /\ QueueInit(uses.full)
    /\ now = 0
    /\ DiagBuffer = AddDiagItem(<<>>)
    /\ SetCpuStatus(uses.memory, "run")
    /\ control = [w \in Workers |-> "none"]
    /\ sent = [w \in Workers |-> NothingSent]

Idle(w) == pc[w] = "idle" /\ at[w] = "idle" /\ control[w] = "none"

\* DoEvent: the sender is the address of the client's host.
Report(w, code, what) == Insert([sender |-> Host[w], code |-> code, what |-> what])

-----------------------------------------------------------------------------
(* The CPU *)

\* PerformFunctionControl answers and reports, whatever the client asks for ...
Controls == {"stop", "warm start", "cold start", "other"}

AnswerControl(w) ==
    /\ "control" \in uses.groups /\ Idle(w)
    /\ \E c \in Controls :
          /\ control' = [control EXCEPT ![w] = c]
          /\ Report(w, "Control", c)
    /\ UNCHANGED <<szlVars, diagVars, CpuStatus, LastCPUStateChange, DiagBuffer, now, sent, uses>>

\* ... and then sets CpuStatus, but not through SetCpuStatus.
CarryOut(w) ==
    /\ control[w] # "none"
    /\ CpuStatus' = CASE control[w] = "stop" -> "stop"
                      [] control[w] \in {"warm start", "cold start"} -> "run"
                      [] OTHER -> CpuStatus
    /\ control' = [control EXCEPT ![w] = "none"]
    /\ UNCHANGED <<szlVars, diagVars, queue, LastCPUStateChange, DiagBuffer, now, sent, uses>>

\* The lists that are not constant data: the state of the CPU, the length of the
\* connection's PDUs, the clock, and the diagnostic buffer.
SZL_ID124 == [id |-> "0124", status |-> CpuStatus, since |-> LastCPUStateChange]
SZL_ID424 == [id |-> "0424", status |-> CpuStatus, time |-> now]
SZL_ID131_IDX003 == [id |-> "0131"]
SZL_ID0132_IDX0008 == [id |-> "0132", time |-> now]
SZL_ID0A0 == [id |-> "00A0", items |-> CopyDiagBuffer]

ReadStatus(w) ==
    /\ "status" \in uses.groups /\ Idle(w)
    /\ \E list \in {SZL_ID124, SZL_ID424, SZL_ID131_IDX003, SZL_ID0132_IDX0008, SZL_ID0A0} :
          sent' = [sent EXCEPT ![w] = list]
    /\ Report(w, "ReadSZL", "done")
    /\ UNCHANGED <<szlVars, diagVars, CpuStatus, LastCPUStateChange, DiagBuffer, now, control, uses>>

\* FillTime reads the clock.
Tick ==
    /\ "status" \in uses.groups /\ now < MaxTime
    /\ now' = now + 1
    /\ UNCHANGED <<szlVars, diagVars, queue, CpuStatus, LastCPUStateChange, DiagBuffer, control, sent, uses>>

-----------------------------------------------------------------------------
(* The services that answer and report and keep nothing *)

\* What the place of evs on the stack can hold when nobody sets it.
ProgrammerEvents == {"RequestDiag", "ReadDiag", "RemoveDiag", "Static", "Blink"}
CyclicDataEvents == {"RequestData", "any other"}

ServiceEvents ==
    [code : {"GroupProgrammer"}, what : {"Static", "Blink"}]
        \cup [code : {"GroupCyclicData"}, what : CyclicDataEvents]
        \cup [code : {"Security"}, what : {"SetPassword", "ClrPassword", "Unknown"}]
        \cup [code : {"Clock"}, what : {"GetClock", "SetClock"}]
        \cup [code : {"PDUincoming"}, what : {"CannotHandlePDU", "InvalidGroupUData"}]

Serve(w) ==
    /\ "stateless" \in uses.groups /\ Idle(w)
    /\ \E e \in ServiceEvents : Report(w, e.code, e.what)
    /\ UNCHANGED <<szlVars, diagVars, cpu, uses>>

\* What is answered without an event: the system state, a subfunction of the
\* lists there is not, and one of the clock, which is not even answered.
SZLSystemState(w) ==
    /\ "stateless" \in uses.groups /\ Idle(w)
    /\ UNCHANGED vars

\* A VarTab, or a subfunction of the programmer there is not, does not set evs.
\* If it is what a request to remove a job has left there, a job is removed.
VarTab(w) ==
    /\ "jobs" \in uses.groups /\ Idle(w)
    /\ \E evs \in ProgrammerEvents :
          /\ IF evs = "RemoveDiag" THEN RemoveUnasked(w) ELSE UNCHANGED diagVars
          /\ IF evs = "ReadDiag" THEN UNCHANGED queue ELSE Report(w, "GroupProgrammer", evs)
    /\ UNCHANGED <<szlVars, cpu, uses>>

-----------------------------------------------------------------------------
(* The services with a state of their own *)

\* A list is reported when it is sent.
ReadLists(w) ==
    /\ "lists" \in uses.groups
    /\ pc[w] = "idle" => Idle(w)
    /\ PerformGroupSZL(w)
    /\ IF pc'[w] = "idle" THEN Report(w, "ReadSZL", "done") ELSE UNCHANGED queue
    /\ UNCHANGED <<diagVars, cpu, uses>>

\* A job is reported when it is in the table, or has been removed once.
UseJobs(w) ==
    /\ "jobs" \in uses.groups
    /\ at[w] = "idle" => Idle(w)
    /\ PerformGroupProgrammer(w)
    /\ CASE at[w] = "add" -> Report(w, "GroupProgrammer", "RequestDiag")
         [] at[w] = "remove" -> Report(w, "GroupProgrammer", "RemoveDiag")
         [] OTHER -> UNCHANGED queue
    /\ UNCHANGED <<szlVars, cpu, uses>>

NewConnection(w) ==
    /\ "lists" \in uses.groups /\ Idle(w)
    /\ Reconnect(w)
    /\ UNCHANGED <<diagVars, queue, cpu, uses>>

Worker(w) ==
    \/ AnswerControl(w) \/ CarryOut(w) \/ ReadStatus(w)
    \/ Serve(w) \/ SZLSystemState(w) \/ VarTab(w)
    \/ ReadLists(w)
    \/ UseJobs(w)

Next ==
    \/ \E w \in uses.workers : Worker(w) \/ NewConnection(w)
    \/ Tick

Spec == Init /\ [][Next]_vars

\* A worker that looks for a free id is running.
FairSpec ==
    /\ Spec
    /\ WF_vars(\E w \in Workers : Searching(w) /\ UNCHANGED <<szlVars, queue, cpu, uses>>)
=============================================================================
