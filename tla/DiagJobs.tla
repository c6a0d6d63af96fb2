------------------------------- MODULE DiagJobs -------------------------------
(***************************************************************************)
(* The diagnostic jobs of the S7 server.  A client requests one            *)
(* (SFun_ReqDiagT2), gets an id for it and removes it with the id later    *)
(* (SFun_RemoveDiag).  The table is the server's, under CSDiag; its keys   *)
(* are the address of the client's host and the id, and nothing takes a    *)
(* job out when its connection ends.                                       *)
(***************************************************************************)
EXTENDS Integers, FiniteSets

CONSTANTS
    Host,                   \* ClientHandle of each connection: the address of its client
    JobIds,                 \* a byte can hold 0 .. JobIds - 1
    DIAG_JOB_OFFSET,
    MaxJobs,                \* bound on the jobs ever requested
    NoJob, Nobody

ASSUME HostAssumption == IsFiniteSet(DOMAIN Host)
ASSUME JobIdsAssumption == JobIds \in Nat /\ DIAG_JOB_OFFSET \in 0 .. JobIds - 1
ASSUME MaxJobsAssumption == MaxJobs \in Nat
ASSUME NoJobAssumption == NoJob \notin Nat
ASSUME NobodyAssumption == Nobody \notin DOMAIN Host

VARIABLES
    diag_requests,          \* [host -> [id -> RequestDiag or NoJob]]
    CSDiag,                 \* who is inside
    at, job_id,             \* of each worker: its next step, the id it is at
    allocated,              \* RequestDiag objects ever made: 1 .. allocated
    freed,                  \* history: those deleted, and how often
    granted                 \* history: <<id, job>> a worker was given and did not give back

diagVars == <<diag_requests, CSDiag, at, job_id, allocated, freed, granted>>

Connections == DOMAIN Host
Hosts == {Host[w] : w \in Connections}
Ids == 0 .. JobIds - 1
Jobs == 1 .. MaxJobs

Taken(h, id) == diag_requests[h][id] # NoJob
Exhausted(h) == \A id \in Ids : Taken(h, id)

\* The only connection of its host.
Alone(w) == \A v \in Connections : Host[v] = Host[w] => v = w

DiagInit ==
    /\ diag_requests = [h \in Hosts |-> [id \in Ids |-> NoJob]]
    /\ CSDiag = Nobody
    /\ at = [w \in Connections |-> "idle"]
    /\ job_id = [w \in Connections |-> DIAG_JOB_OFFSET]
    /\ allocated = 0
    /\ freed = [j \in Jobs |-> 0]
    /\ granted = [w \in Connections |-> {}]

Move(w, label) == at' = [at EXCEPT ![w] = label]

-----------------------------------------------------------------------------
(* SFun_ReqDiagT2: AddDiagRequest *)

Requesting == {v \in Connections : at[v] \in {"search", "searching", "add"}}

RequestDiag(w) ==
    /\ at[w] = "idle"
    /\ allocated + Cardinality(Requesting) < MaxJobs
    /\ Move(w, "search")
    /\ UNCHANGED <<diag_requests, CSDiag, job_id, allocated, freed, granted>>

\* freeDiagJobID enters CSDiag.
SearchEnter(w) ==
    /\ at[w] = "search" /\ CSDiag = Nobody
    /\ CSDiag' = w
    /\ job_id' = [job_id EXCEPT ![w] = DIAG_JOB_OFFSET]
    /\ Move(w, "searching")
    /\ UNCHANGED <<diag_requests, allocated, freed, granted>>

\* Defect: the id does not wrap around.
SearchUpwards(w) ==
    /\ at[w] = "searching" /\ Taken(Host[w], job_id[w])
    /\ job_id' = [job_id EXCEPT ![w] = IF @ + 1 < JobIds THEN @ + 1 ELSE @]
    /\ UNCHANGED <<diag_requests, CSDiag, at, allocated, freed, granted>>

\* while (diag_requests.count(...)) job_id++;
SearchNext(w) ==
    /\ at[w] = "searching" /\ Taken(Host[w], job_id[w])
    /\ job_id' = [job_id EXCEPT ![w] = (@ + 1) % JobIds]
    /\ UNCHANGED <<diag_requests, CSDiag, at, allocated, freed, granted>>

\* Defect: the search does not go on to the next id.
SearchFirst(w) ==
    /\ at[w] = "searching"
    /\ CSDiag' = Nobody
    /\ Move(w, "add")
    /\ UNCHANGED <<diag_requests, job_id, allocated, freed, granted>>

SearchLeave(w) ==
    /\ at[w] = "searching" /\ ~Taken(Host[w], job_id[w])
    /\ CSDiag' = Nobody
    /\ Move(w, "add")
    /\ UNCHANGED <<diag_requests, job_id, allocated, freed, granted>>

\* The second critical section: what is in the table under the id is lost.
AddDiagRequest(w) ==
    /\ at[w] = "add" /\ CSDiag = Nobody
    /\ allocated' = allocated + 1
    /\ diag_requests' = [diag_requests EXCEPT ![Host[w]][job_id[w]] = allocated + 1]
    /\ granted' = [granted EXCEPT ![w] = @ \cup {<<job_id[w], allocated + 1>>}]
    /\ Move(w, "idle")
    /\ job_id' = [job_id EXCEPT ![w] = DIAG_JOB_OFFSET]
    /\ UNCHANGED <<CSDiag, freed>>

-----------------------------------------------------------------------------
(* SFun_RemoveDiag: RemoveDiagRequest before the answer, and again after it *)

\* Defect: the object is deleted and its entry stays.
RemoveDangling(w) ==
    LET job == diag_requests[Host[w]][job_id[w]]
    IN  /\ CSDiag = Nobody
        /\ freed' = IF job = NoJob THEN freed ELSE [freed EXCEPT ![job] = @ + 1]
        /\ UNCHANGED diag_requests

RemoveDiagRequest(w) ==
    LET job == diag_requests[Host[w]][job_id[w]]
    IN  /\ CSDiag = Nobody
        /\ freed' = IF job = NoJob THEN freed ELSE [freed EXCEPT ![job] = @ + 1]
        /\ diag_requests' = [diag_requests EXCEPT ![Host[w]][job_id[w]] = NoJob]

RemoveDiag(w) ==
    /\ at[w] = "idle"
    /\ \E id \in Ids : job_id' = [job_id EXCEPT ![w] = id]
    /\ Move(w, "remove")
    /\ UNCHANGED <<diag_requests, CSDiag, allocated, freed, granted>>

RemoveFirst(w) ==
    /\ at[w] = "remove"
    /\ RemoveDiagRequest(w)
    /\ granted' = [granted EXCEPT ![w] = {g \in @ : g[1] # job_id[w]}]
    /\ Move(w, "removeAgain")
    /\ UNCHANGED <<CSDiag, job_id, allocated>>

RemoveAgain(w) ==
    /\ at[w] = "removeAgain"
    /\ RemoveDiagRequest(w)
    /\ Move(w, "idle")
    /\ job_id' = [job_id EXCEPT ![w] = DIAG_JOB_OFFSET]
    /\ UNCHANGED <<CSDiag, allocated, granted>>

\* What happens when a request that sets neither evs nor job_id finds
\* evsGPRemoveDiag in evs: job 0 is removed, which nobody has asked for.
RemoveUnasked(w) ==
    /\ at[w] = "idle"
    /\ job_id' = [job_id EXCEPT ![w] = 0]
    /\ Move(w, "removeAgain")
    /\ UNCHANGED <<diag_requests, CSDiag, allocated, freed, granted>>

\* SFun_ReadDiag is acknowledged and that is all: nothing ever answers a job,
\* diag_responses is empty.
ReadDiag(w) ==
    /\ at[w] = "idle"
    /\ UNCHANGED diagVars

Searching(w) == SearchNext(w) \/ SearchLeave(w)

PerformGroupProgrammer(w) ==
    \/ RequestDiag(w) \/ SearchEnter(w) \/ Searching(w) \/ AddDiagRequest(w)
    \/ RemoveDiag(w) \/ RemoveFirst(w) \/ RemoveAgain(w)
    \/ ReadDiag(w)

-----------------------------------------------------------------------------
(* Properties *)

\* RemoveDiagRequest deletes what it finds, and RemoveDiag calls it twice: no
\* request is ever deleted twice, no entry leads to a deleted one, and no two
\* entries to the same, not even when two connections of one host race for an id.
NoDanglingJob ==
    /\ \A j \in Jobs : freed[j] <= 1
    /\ \A h \in Hosts, id \in Ids : Taken(h, id) => freed[diag_requests[h][id]] = 0
    /\ \A g, h \in Hosts, id, other \in Ids :
          Taken(g, id) /\ diag_requests[g][id] = diag_requests[h][other] => g = h /\ id = other

\* A client that is the only one of its host finds in the table what it was
\* given, each job under an id of its own, and nothing else: whatever the
\* clients of other hosts request and remove.  Id 0, the last that is given,
\* may have been removed unasked.
AloneKeeps ==
    \A w \in Connections :
        Alone(w) => {g \in granted[w] : g[1] # 0} =
                        {<<id, diag_requests[Host[w]][id]>> :
                            id \in {i \in Ids \ {0} : Taken(Host[w], i)}}

\* Who looks for a free id inside CSDiag comes out again, however the ids are
\* spread, unless its client has all of them.
SearchEnds == CSDiag # Nobody ~> CSDiag = Nobody \/ \E h \in Hosts : Exhausted(h)
=============================================================================
