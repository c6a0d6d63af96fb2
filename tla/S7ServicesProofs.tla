--------------------------- MODULE S7ServicesProofs ---------------------------
(***************************************************************************)
(* Proofs about S7Services: the event queue, the diagnostic jobs and the   *)
(* partial lists, for any number of connections and hosts, of job ids, of  *)
(* sequence numbers, of packets in a list, and of events the queue can     *)
(* hold, whatever the other services do.                                   *)
(***************************************************************************)
EXTENDS S7Services, SequenceTheorems, FiniteSetTheorems, TLAPS

-----------------------------------------------------------------------------
(* The event queue *)

\* Nobody takes out, so the queue is as long as the history.
QInv ==
    /\ IndexOut = 0
    /\ IndexIn \in 0 .. Max
    /\ Buffer = [k \in 0 .. Max |-> Buffer[k]]
    /\ \E S : happened \in Seq(S)
    /\ EarliestKept

\* A sequence stays one when an event that is not of its set is appended.
LEMMA AppendAny ==
    ASSUME NEW S, NEW s \in Seq(S), NEW e
    PROVE  /\ Append(s, e) \in Seq(S \cup {e})
           /\ Len(Append(s, e)) = Len(s) + 1
           /\ \A i \in 1 .. Len(s) : Append(s, e)[i] = s[i]
           /\ Append(s, e)[Len(s) + 1] = e
<1>1. s \in Seq(S \cup {e})
  OBVIOUS
<1>2. e \in S \cup {e}
  OBVIOUS
<1> QED
  BY <1>1, <1>2, AppendProperties

LEMMA InsertKeeps ==
    ASSUME QInv, NEW e, Insert(e)
    PROVE  QInv'
<1>0. /\ IndexOut = 0 /\ IndexIn \in 0 .. Max /\ Max \in Nat /\ Max > 0
      /\ IndexIn = Len(happened) /\ \A k \in 1 .. IndexIn : Buffer[k] = happened[k]
      /\ Buffer = [k \in 0 .. Max |-> Buffer[k]]
  BY CapacityAssumption DEF QInv, EarliestKept, Max
<1>1. IndexOut' = 0
  BY <1>0 DEF Insert
<1>2. PICK S : happened \in Seq(S)
  BY DEF QInv
<1>3. CASE Full
  <2>1. IndexIn = Max
    BY <1>0, <1>3 DEF Full
  <2>2. UNCHANGED <<Buffer, IndexIn, happened>>
    BY <1>0, <1>3, <2>1 DEF Insert
  <2> QED
    BY <1>1, <2>2 DEF QInv, EarliestKept
<1>4. CASE ~Full
  <2>1. IndexIn < Max
    BY <1>0, <1>4 DEF Full
  <2>2. IndexIn' = IndexIn + 1 /\ Buffer' = [Buffer EXCEPT ![IndexIn + 1] = e] /\ happened' = Append(happened, e)
    BY <1>0, <1>4, <2>1 DEF Insert
  <2>3. /\ happened' \in Seq(S \cup {e})
        /\ Len(happened') = IndexIn + 1
        /\ \A i \in 1 .. IndexIn : happened'[i] = happened[i]
        /\ happened'[IndexIn + 1] = e
    BY <1>0, <1>2, <2>2, AppendAny
  <2>4. IndexIn' \in 0 .. Max /\ Buffer' = [k \in 0 .. Max |-> Buffer'[k]]
    <3>1. IndexIn' \in 0 .. Max
      BY <1>0, <2>1, <2>2
    <3>2. DOMAIN Buffer = 0 .. Max
      BY <1>0
    <3>3. Buffer' = [k \in 0 .. Max |-> IF k = IndexIn + 1 THEN e ELSE Buffer[k]]
      BY <2>2, <3>2
    <3>4. \A k \in 0 .. Max : Buffer'[k] = IF k = IndexIn + 1 THEN e ELSE Buffer[k]
      BY <3>3
    <3>5. [k \in 0 .. Max |-> IF k = IndexIn + 1 THEN e ELSE Buffer[k]] = [k \in 0 .. Max |-> Buffer'[k]]
      BY <3>4
    <3> QED
      BY <3>1, <3>3, <3>5
  <2>5. EarliestKept'
    <3>1. ASSUME NEW k \in 1 .. IndexIn + 1 PROVE Buffer'[k] = happened'[k]
      <4>1. DOMAIN Buffer = 0 .. Max /\ k \in 0 .. Max
        BY <1>0, <2>1
      <4>2. CASE k = IndexIn + 1
        BY <2>2, <2>3, <4>1, <4>2
      <4>3. CASE k # IndexIn + 1
        <5>1. k \in 1 .. IndexIn
          BY <1>0, <4>3
        <5>2. Buffer'[k] = Buffer[k]
          BY <2>2, <4>1, <4>3
        <5> QED
          BY <1>0, <2>3, <5>1, <5>2
      <4> QED
        BY <4>2, <4>3
    <3> QED
      BY <2>2, <2>3, <3>1 DEF EarliestKept
  <2> QED
    BY <1>1, <2>3, <2>4, <2>5 DEF QInv
<1> QED
  BY <1>3, <1>4

\* Each service reports one event, or none.
LEMMA QueueStep ==
    ASSUME [Next]_vars
    PROVE  UNCHANGED queue \/ \E e : Insert(e)
<1>1. CASE UNCHANGED vars
  BY <1>1 DEF vars
<1>2. CASE Tick
  BY <1>2 DEF Tick
<1>3. ASSUME NEW w, AnswerControl(w) \/ ReadStatus(w) \/ Serve(w)
      PROVE  \E e : Insert(e)
  BY <1>3 DEF AnswerControl, ReadStatus, Serve, Report
<1>4. ASSUME NEW w, CarryOut(w) \/ SZLSystemState(w) \/ NewConnection(w)
      PROVE  UNCHANGED queue
  BY <1>4 DEF CarryOut, SZLSystemState, NewConnection, vars
<1>5. ASSUME NEW w, VarTab(w) PROVE UNCHANGED queue \/ \E e : Insert(e)
  BY <1>5 DEF VarTab, Report
<1>6. ASSUME NEW w, ReadLists(w) PROVE UNCHANGED queue \/ \E e : Insert(e)
  BY <1>6 DEF ReadLists, Report
<1>7. ASSUME NEW w, UseJobs(w) PROVE UNCHANGED queue \/ \E e : Insert(e)
  BY <1>7 DEF UseJobs, Report
<1> QED
  BY <1>1, <1>2, <1>3, <1>4, <1>5, <1>6, <1>7 DEF Next, Worker

LEMMA QueueInitial == Init => QInv
<1> SUFFICES ASSUME Init PROVE QInv
  OBVIOUS
<1>0. QueueInit(uses.full) /\ Max \in Nat
  BY CapacityAssumption DEF Init, Max
<1>1. CASE uses.full
  <2>1. happened = [k \in 1 .. Max |-> NoEvent]
    BY <1>0, <1>1 DEF QueueInit
  <2>2. happened \in Seq({NoEvent}) /\ Len(happened) = Max
    BY <1>0, <2>1
  <2>3. /\ IndexOut = 0 /\ IndexIn = Max
        /\ Buffer = [k \in 0 .. Max |-> NoEvent]
    BY <1>0, <1>1 DEF QueueInit
  <2>4. Buffer = [k \in 0 .. Max |-> Buffer[k]]
    <3>1. \A k \in 0 .. Max : Buffer[k] = NoEvent
      BY <2>3
    <3>2. [k \in 0 .. Max |-> NoEvent] = [k \in 0 .. Max |-> Buffer[k]]
      BY <3>1
    <3> QED
      BY <2>3, <3>2
  <2>5. EarliestKept
    BY <1>0, <2>1, <2>2, <2>3 DEF EarliestKept
  <2> QED
    BY <1>0, <2>2, <2>3, <2>4, <2>5 DEF QInv
<1>2. CASE ~uses.full
  <2>1. happened = <<>> /\ happened \in Seq({}) /\ Len(happened) = 0
    BY <1>0, <1>2, EmptySeq DEF QueueInit
  <2>2. /\ IndexOut = 0 /\ IndexIn = 0
        /\ Buffer = [k \in 0 .. Max |-> NoEvent]
    BY <1>0, <1>2 DEF QueueInit
  <2>3. Buffer = [k \in 0 .. Max |-> Buffer[k]]
    <3>1. \A k \in 0 .. Max : Buffer[k] = NoEvent
      BY <2>2
    <3>2. [k \in 0 .. Max |-> NoEvent] = [k \in 0 .. Max |-> Buffer[k]]
      BY <3>1
    <3> QED
      BY <2>2, <3>2
  <2>4. EarliestKept
    BY <2>1, <2>2 DEF EarliestKept
  <2> QED
    BY <1>0, <2>1, <2>2, <2>3, <2>4 DEF QInv
<1> QED
  BY <1>1, <1>2

-----------------------------------------------------------------------------
(* The diagnostic jobs *)

Labels == {"idle", "search", "searching", "add", "remove", "removeAgain"}

DiagTypeOK ==
    /\ uses \in Mixes
    /\ allocated \in Nat
    /\ diag_requests \in [Hosts -> [Ids -> (1 .. allocated) \cup {NoJob}]]
    /\ at \in [Connections -> Labels]
    /\ job_id \in [Connections -> Ids]
    /\ freed \in [Jobs -> Nat]
    /\ granted \in [Connections -> SUBSET (Ids \X Nat)]

\* A bound that was checked before the search still holds when the job is made.
WithinBound == allocated + Cardinality(Requesting) <= MaxJobs

Fresh == \A j \in Jobs : j > allocated => freed[j] = 0

\* Between its two critical sections nobody takes the id from a connection that
\* is alone, and what it has removed stays removed.
AloneFinds ==
    \A w \in Connections :
        Alone(w) =>
            /\ at[w] = "add" => ~Taken(Host[w], job_id[w])
            /\ at[w] = "removeAgain" /\ job_id[w] # 0 => ~Taken(Host[w], job_id[w])

\* AloneKeeps, by its elements.
AloneHolds ==
    \A w \in Connections :
        Alone(w) => \A id \in Ids \ {0}, job \in Nat :
                        <<id, job>> \in granted[w] <=> diag_requests[Host[w]][id] = job

JInv == DiagTypeOK /\ WithinBound /\ Fresh /\ NoDanglingJob /\ AloneFinds /\ AloneHolds

DiagStep(w) == PerformGroupProgrammer(w) \/ RemoveUnasked(w)

\* The other services leave the jobs alone.
LEMMA DiagOnly ==
    ASSUME uses \in Mixes, [Next]_vars
    PROVE  /\ uses' = uses
           /\ UNCHANGED diagVars \/ \E w \in Connections : DiagStep(w)
<1>1. CASE UNCHANGED vars
  BY <1>1 DEF vars
<1>2. CASE Tick
  BY <1>2 DEF Tick
<1>3. ASSUME NEW w \in uses.workers, Worker(w) \/ NewConnection(w)
      PROVE  uses' = uses /\ (UNCHANGED diagVars \/ DiagStep(w))
  <2>1. CASE AnswerControl(w) \/ CarryOut(w) \/ ReadStatus(w) \/ Serve(w) \/ SZLSystemState(w)
    BY <2>1 DEF AnswerControl, CarryOut, ReadStatus, Serve, SZLSystemState, vars
  <2>2. CASE VarTab(w)
    BY <2>2 DEF VarTab, DiagStep
  <2>3. CASE ReadLists(w) \/ NewConnection(w)
    BY <2>3 DEF ReadLists, NewConnection
  <2>4. CASE UseJobs(w)
    BY <2>4 DEF UseJobs, DiagStep
  <2> QED
    BY <1>3, <2>1, <2>2, <2>3, <2>4 DEF Worker
<1>4. uses.workers \subseteq Connections
  BY MixesAssumption, ConnectionsAssumption
<1> QED
  BY <1>1, <1>2, <1>3, <1>4 DEF Next

LEMMA HoldsIsKeeps ==
    ASSUME JInv
    PROVE  AloneKeeps
<1> SUFFICES ASSUME NEW w \in Connections, Alone(w)
             PROVE  {g \in granted[w] : g[1] # 0} =
                        {<<id, diag_requests[Host[w]][id]>> : id \in {i \in Ids \ {0} : Taken(Host[w], i)}}
  BY DEF AloneKeeps
<1> DEFINE table == diag_requests[Host[w]]
           given == granted[w]
<1>1. /\ table \in [Ids -> (1 .. allocated) \cup {NoJob}] /\ given \subseteq Ids \X Nat
      /\ allocated \in Nat /\ NoJob \notin Nat
      /\ \A id \in Ids \ {0}, job \in Nat : <<id, job>> \in given <=> table[id] = job
  BY NoJobAssumption DEF JInv, DiagTypeOK, AloneHolds, Hosts
<1>2. \A i \in Ids : Taken(Host[w], i) <=> table[i] # NoJob
  BY DEF Taken
<1> HIDE DEF table, given
<1>3. ASSUME NEW g \in given, g[1] # 0
      PROVE  \E id \in {i \in Ids \ {0} : table[i] # NoJob} : g = <<id, table[id]>>
  <2>1. g[1] \in Ids \ {0} /\ g[2] \in Nat /\ g = <<g[1], g[2]>>
    BY <1>1, <1>3
  <2>2. table[g[1]] = g[2]
    BY <1>1, <2>1
  <2> QED
    BY <1>1, <2>1, <2>2
<1>4. ASSUME NEW id \in Ids \ {0}, table[id] # NoJob
      PROVE  <<id, table[id]>> \in given
  <2>1. table[id] \in Nat
    BY <1>1, <1>4
  <2> QED
    BY <1>1, <2>1
<1>5. {g \in given : g[1] # 0} = {<<id, table[id]>> : id \in {i \in Ids \ {0} : table[i] # NoJob}}
  BY <1>3, <1>4
<1> QED
  BY <1>2, <1>5 DEF table, given

LEMMA RequestingFinite ==
    ASSUME NEW S, S \subseteq Connections
    PROVE  IsFiniteSet(S) /\ Cardinality(S) \in Nat
  BY HostAssumption, FS_Subset, FS_CardinalityType DEF Connections

\* A worker that changes neither the table nor what was granted.
LEMMA WalkStep ==
    ASSUME JInv, NEW w \in Connections, uses' = uses,
           \/ RequestDiag(w) \/ SearchEnter(w) \/ SearchNext(w) \/ SearchLeave(w)
           \/ RemoveDiag(w) \/ RemoveUnasked(w) \/ ReadDiag(w)
    PROVE  JInv'
<1>0. DiagTypeOK /\ WithinBound /\ AloneFinds /\ JobIds \in Nat /\ DIAG_JOB_OFFSET \in Ids
  BY JobIdsAssumption DEF JInv, Ids
<1>1. UNCHANGED <<diag_requests, allocated, freed, granted>>
  BY DEF RequestDiag, SearchEnter, SearchNext, SearchLeave, RemoveDiag, RemoveUnasked, ReadDiag, diagVars
<1>2. job_id' \in [Connections -> Ids]
  <2>1. 0 \in Ids
    BY <1>0 DEF Ids
  <2>2. CASE SearchNext(w)
    <3>1. job_id[w] \in 0 .. JobIds - 1
      BY <1>0 DEF DiagTypeOK, Ids
    <3>2. (job_id[w] + 1) % JobIds \in 0 .. JobIds - 1
      BY <1>0, <3>1
    <3> QED
      BY <1>0, <2>2, <3>2 DEF SearchNext, DiagTypeOK, Ids
  <2>3. CASE ~SearchNext(w)
    BY <1>0, <2>1, <2>3
       DEF RequestDiag, SearchEnter, SearchLeave, RemoveDiag, RemoveUnasked, ReadDiag, diagVars, DiagTypeOK
  <2> QED
    BY <2>2, <2>3
<1>3. at' \in [Connections -> Labels]
  BY <1>0 DEF RequestDiag, SearchEnter, SearchNext, SearchLeave, RemoveDiag, RemoveUnasked, ReadDiag,
              diagVars, DiagTypeOK, Move, Labels
<1>4. DiagTypeOK'
  BY <1>0, <1>1, <1>2, <1>3 DEF DiagTypeOK
<1>5. WithinBound'
  <2>1. IsFiniteSet(Requesting) /\ Cardinality(Requesting) \in Nat
    BY RequestingFinite DEF Requesting
  <2>2. CASE RequestDiag(w)
    <3>1. Requesting' = Requesting \cup {w} /\ w \notin Requesting
      BY <1>0, <2>2 DEF RequestDiag, Requesting, Move, DiagTypeOK
    <3>2. Cardinality(Requesting') = Cardinality(Requesting) + 1
      BY <2>1, <3>1, FS_AddElement
    <3> QED
      BY <1>0, <1>1, <2>1, <2>2, <3>2, MaxJobsAssumption DEF RequestDiag, WithinBound, DiagTypeOK
  <2>3. CASE ~RequestDiag(w)
    <3>1. Requesting' = Requesting
      BY <1>0, <2>3 DEF SearchEnter, SearchNext, SearchLeave, RemoveDiag, RemoveUnasked, ReadDiag,
                        diagVars, Requesting, Move, DiagTypeOK
    <3> QED
      BY <1>0, <1>1, <3>1 DEF WithinBound
  <2> QED
    BY <2>2, <2>3
<1>6. AloneFinds'
  <2> SUFFICES ASSUME NEW v \in Connections, Alone(v)
               PROVE  /\ at'[v] = "add" => ~Taken(Host[v], job_id'[v])
                      /\ at'[v] = "removeAgain" /\ job_id'[v] # 0 => ~Taken(Host[v], job_id'[v])
    BY <1>1 DEF AloneFinds, Alone, Taken
  <2>1. CASE v # w
    <3>1. at'[v] = at[v] /\ job_id'[v] = job_id[v]
      BY <1>0, <2>1 DEF RequestDiag, SearchEnter, SearchNext, SearchLeave, RemoveDiag, RemoveUnasked,
                        ReadDiag, diagVars, Move, DiagTypeOK
    <3> QED
      BY <1>0, <3>1 DEF AloneFinds
  <2>2. CASE v = w /\ (RequestDiag(w) \/ SearchEnter(w) \/ SearchNext(w) \/ RemoveDiag(w) \/ ReadDiag(w))
    <3>1. at'[w] \in {"search", "searching", "remove", "idle"}
      BY <1>0, <2>2 DEF RequestDiag, SearchEnter, SearchNext, RemoveDiag, ReadDiag, diagVars, Move, DiagTypeOK
    <3> QED
      BY <2>2, <3>1
  <2>3. CASE v = w /\ SearchLeave(w)
    BY <1>0, <2>3 DEF SearchLeave, Move, DiagTypeOK
  <2>4. CASE v = w /\ RemoveUnasked(w)
    BY <1>0, <2>4 DEF RemoveUnasked, Move, DiagTypeOK
  <2> QED
    BY <2>1, <2>2, <2>3, <2>4
<1>7. Fresh' /\ NoDanglingJob' /\ AloneHolds'
  BY <1>1 DEF JInv, Fresh, NoDanglingJob, AloneHolds, Taken
<1> QED
  BY <1>4, <1>5, <1>6, <1>7 DEF JInv

\* The new job has a number nobody has had, so no entry leads to it, and none
\* to one that is deleted; an entry it takes the place of leaves no other.
LEMMA AddStep ==
    ASSUME JInv, NEW w \in Connections, uses' = uses, AddDiagRequest(w)
    PROVE  JInv'
<1> DEFINE h == Host[w]
           id == job_id[w]
           job == allocated + 1
<1>0. /\ uses \in Mixes /\ allocated \in Nat /\ NoJob \notin Nat
      /\ diag_requests \in [Hosts -> [Ids -> (1 .. allocated) \cup {NoJob}]]
      /\ at \in [Connections -> Labels] /\ job_id \in [Connections -> Ids]
      /\ freed \in [Jobs -> Nat] /\ granted \in [Connections -> SUBSET (Ids \X Nat)]
      /\ h \in Hosts /\ id \in Ids /\ job \in Nat
  BY NoJobAssumption DEF JInv, DiagTypeOK, Hosts
<1>1. /\ at[w] = "add" /\ allocated' = job
      /\ at' = [at EXCEPT ![w] = "idle"] /\ job_id' = [job_id EXCEPT ![w] = DIAG_JOB_OFFSET]
      /\ diag_requests' = [diag_requests EXCEPT ![h][id] = job]
      /\ granted' = [granted EXCEPT ![w] = @ \cup {<<id, job>>}]
      /\ freed' = freed
  BY DEF AddDiagRequest, Move
<1>2. job <= MaxJobs /\ WithinBound'
  <2>1. IsFiniteSet(Requesting) /\ Cardinality(Requesting) \in Nat
    BY RequestingFinite DEF Requesting
  <2>2. w \in Requesting /\ Requesting' = Requesting \ {w}
    BY <1>0, <1>1 DEF Requesting
  <2>3. Cardinality(Requesting') = Cardinality(Requesting) - 1
    BY <2>1, <2>2, FS_RemoveElement
  <2>4. IsFiniteSet(Requesting') /\ Cardinality(Requesting') \in Nat
    BY <2>2, RequestingFinite DEF Requesting
  <2> QED
    BY <1>0, <1>1, <2>1, <2>3, <2>4, MaxJobsAssumption DEF JInv, WithinBound
<1>3. job \in Jobs /\ freed[job] = 0
  BY <1>0, <1>2, MaxJobsAssumption DEF JInv, Fresh, Jobs
<1>4. ASSUME NEW g \in Hosts, NEW i \in Ids
      PROVE  diag_requests'[g][i] = IF g = h /\ i = id THEN job ELSE diag_requests[g][i]
  BY <1>0, <1>1
<1>5. \A g \in Hosts, i \in Ids : diag_requests[g][i] \in (1 .. allocated) \cup {NoJob}
  BY <1>0
<1>6. DiagTypeOK'
  <2>1. diag_requests' \in [Hosts -> [Ids -> (1 .. job) \cup {NoJob}]]
    <3>1. diag_requests \in [Hosts -> [Ids -> (1 .. job) \cup {NoJob}]]
      <4>1. (1 .. allocated) \cup {NoJob} \subseteq (1 .. job) \cup {NoJob}
        BY <1>0
      <4> QED
        BY <1>0, <4>1
    <3>2. job \in (1 .. job) \cup {NoJob}
      BY <1>0
    <3> QED
      BY <1>0, <1>1, <3>1, <3>2
  <2>2. granted' \in [Connections -> SUBSET (Ids \X Nat)]
    BY <1>0, <1>1
  <2>3. at' \in [Connections -> Labels] /\ job_id' \in [Connections -> Ids]
    BY <1>0, <1>1, JobIdsAssumption DEF Labels, Ids
  <2> QED
    BY <1>0, <1>1, <2>1, <2>2, <2>3 DEF DiagTypeOK
<1>7. Fresh'
  BY <1>0, <1>1 DEF JInv, Fresh, Jobs
<1>8. NoDanglingJob'
  <2>1. \A j \in Jobs : freed'[j] <= 1
    BY <1>1 DEF JInv, NoDanglingJob
  <2>2. ASSUME NEW g \in Hosts, NEW i \in Ids, Taken(g, i)'
        PROVE  freed'[diag_requests'[g][i]] = 0
    <3>1. CASE g = h /\ i = id
      BY <1>1, <1>3, <1>4, <3>1
    <3>2. CASE ~(g = h /\ i = id)
      BY <1>1, <1>4, <2>2, <3>2 DEF JInv, NoDanglingJob, Taken
    <3> QED
      BY <3>1, <3>2
  <2>3. ASSUME NEW f \in Hosts, NEW g \in Hosts, NEW i \in Ids, NEW other \in Ids,
               Taken(f, i)', diag_requests'[f][i] = diag_requests'[g][other]
        PROVE  f = g /\ i = other
    <3>1. \A k \in Hosts, n \in Ids : diag_requests[k][n] # job
      BY <1>0, <1>5
    <3>2. CASE ~(f = h /\ i = id) /\ ~(g = h /\ other = id)
      BY <1>4, <2>3, <3>2 DEF JInv, NoDanglingJob, Taken
    <3>3. CASE (f = h /\ i = id) \/ (g = h /\ other = id)
      BY <1>4, <2>3, <3>1, <3>3
    <3> QED
      BY <3>2, <3>3
  <2> QED
    BY <2>1, <2>2, <2>3 DEF NoDanglingJob
<1>9. ASSUME NEW v \in Connections, Alone(v), v # w
      PROVE  /\ Host[v] # h /\ Host[v] \in Hosts
             /\ at'[v] = at[v] /\ job_id'[v] = job_id[v] /\ granted'[v] = granted[v]
             /\ \A i \in Ids : diag_requests'[Host[v]][i] = diag_requests[Host[v]][i]
  <2>1. Host[v] # h /\ Host[v] \in Hosts
    BY <1>9 DEF Alone, Hosts
  <2> QED
    BY <1>0, <1>1, <1>4, <1>9, <2>1
<1>10. AloneFinds'
  <2> SUFFICES ASSUME NEW v \in Connections, Alone(v)
               PROVE  /\ at'[v] = "add" => diag_requests'[Host[v]][job_id'[v]] = NoJob
                      /\ at'[v] = "removeAgain" /\ job_id'[v] # 0 => diag_requests'[Host[v]][job_id'[v]] = NoJob
    BY DEF AloneFinds, Alone, Taken
  <2>1. CASE v = w
    BY <1>0, <1>1, <2>1
  <2>2. CASE v # w
    BY <1>0, <1>9, <2>2 DEF JInv, AloneFinds, Taken
  <2> QED
    BY <2>1, <2>2
<1>11. AloneHolds'
  <2> SUFFICES ASSUME NEW v \in Connections, Alone(v), NEW i \in Ids \ {0}, NEW j \in Nat
               PROVE  <<i, j>> \in granted'[v] <=> diag_requests'[Host[v]][i] = j
    BY DEF AloneHolds, Alone
  <2>1. <<i, j>> \in granted[v] <=> diag_requests[Host[v]][i] = j
    BY DEF JInv, AloneHolds
  <2>2. CASE v # w
    BY <1>9, <2>1, <2>2
  <2>3. CASE v = w /\ i # id
    BY <1>0, <1>1, <1>4, <2>1, <2>3
  <2>4. CASE v = w /\ i = id
    <3>1. diag_requests[h][id] = NoJob
      BY <1>1, <2>4 DEF JInv, AloneFinds, Taken
    <3>2. \A n \in Nat : <<id, n>> \notin granted[w]
      BY <1>0, <2>4, <3>1 DEF JInv, AloneHolds
    <3> QED
      BY <1>0, <1>1, <1>4, <2>4, <3>2
  <2> QED
    BY <2>2, <2>3, <2>4
<1> QED
  BY <1>2, <1>6, <1>7, <1>8, <1>10, <1>11 DEF JInv

\* What is deleted is deleted for the first time, and was in no other entry; of
\* two calls for one id, the second finds nothing.
LEMMA RemoveStep ==
    ASSUME JInv, NEW w \in Connections, uses' = uses, RemoveFirst(w) \/ RemoveAgain(w)
    PROVE  JInv'
<1> DEFINE h == Host[w]
           id == job_id[w]
           job == diag_requests[h][id]
<1>0. /\ uses \in Mixes /\ allocated \in Nat /\ NoJob \notin Nat
      /\ diag_requests \in [Hosts -> [Ids -> (1 .. allocated) \cup {NoJob}]]
      /\ at \in [Connections -> Labels] /\ job_id \in [Connections -> Ids]
      /\ freed \in [Jobs -> Nat] /\ granted \in [Connections -> SUBSET (Ids \X Nat)]
      /\ h \in Hosts /\ id \in Ids
  BY NoJobAssumption DEF JInv, DiagTypeOK, Hosts
<1>1. /\ at[w] \in {"remove", "removeAgain"} /\ allocated' = allocated
      /\ at' = [at EXCEPT ![w] = IF RemoveFirst(w) THEN "removeAgain" ELSE "idle"]
      /\ job_id' = [job_id EXCEPT ![w] = IF RemoveFirst(w) THEN @ ELSE DIAG_JOB_OFFSET]
      /\ diag_requests' = [diag_requests EXCEPT ![h][id] = NoJob]
      /\ freed' = IF job = NoJob THEN freed ELSE [freed EXCEPT ![job] = @ + 1]
  BY <1>0 DEF RemoveFirst, RemoveAgain, RemoveDiagRequest, Move
<1>2. granted' = [granted EXCEPT ![w] = IF RemoveFirst(w) THEN {g \in @ : g[1] # id} ELSE @]
  BY <1>0 DEF RemoveFirst, RemoveAgain
<1>3. job # NoJob => job \in 1 .. allocated /\ job \in Jobs /\ freed[job] = 0
  <2>1. allocated <= MaxJobs
    <3>1. Cardinality(Requesting) \in Nat
      BY RequestingFinite DEF Requesting
    <3> QED
      BY <1>0, <3>1, MaxJobsAssumption DEF JInv, WithinBound
  <2> QED
    BY <1>0, <2>1, MaxJobsAssumption DEF JInv, NoDanglingJob, Taken, Jobs
<1>4. ASSUME NEW g \in Hosts, NEW i \in Ids
      PROVE  diag_requests'[g][i] = IF g = h /\ i = id THEN NoJob ELSE diag_requests[g][i]
  BY <1>0, <1>1
<1> HIDE DEF job
<1>5. \A j \in Jobs : freed'[j] = IF j = job THEN 1 ELSE freed[j]
  <2>1. CASE job = NoJob
    BY <1>0, <1>1, <2>1 DEF Jobs
  <2>2. CASE job # NoJob
    BY <1>0, <1>1, <1>3, <2>2
  <2> QED
    BY <2>1, <2>2
<1>6. DiagTypeOK'
  <2>1. diag_requests' \in [Hosts -> [Ids -> (1 .. allocated) \cup {NoJob}]]
    BY <1>0, <1>1
  <2>2. at' \in [Connections -> Labels] /\ job_id' \in [Connections -> Ids]
    BY <1>0, <1>1, JobIdsAssumption DEF Labels, Ids
  <2>3. granted' \in [Connections -> SUBSET (Ids \X Nat)]
    BY <1>0, <1>2
  <2>4. freed' \in [Jobs -> Nat]
    BY <1>0, <1>1, <1>3
  <2> QED
    BY <1>0, <1>1, <2>1, <2>2, <2>3, <2>4 DEF DiagTypeOK
<1>7. WithinBound'
  <2>1. Requesting' = Requesting
    BY <1>0, <1>1 DEF Requesting
  <2> QED
    BY <1>1, <2>1 DEF JInv, WithinBound
<1>8. Fresh'
  BY <1>0, <1>1, <1>3, <1>5 DEF JInv, Fresh
<1>9. NoDanglingJob'
  <2>1. \A j \in Jobs : freed'[j] <= 1
    BY <1>5 DEF JInv, NoDanglingJob
  <2>2. ASSUME NEW g \in Hosts, NEW i \in Ids, Taken(g, i)'
        PROVE  freed'[diag_requests'[g][i]] = 0
    <3>1. ~(g = h /\ i = id) /\ diag_requests'[g][i] = diag_requests[g][i] /\ Taken(g, i)
      BY <1>4, <2>2 DEF Taken
    <3>2. freed[diag_requests[g][i]] = 0 /\ diag_requests[g][i] # job
      BY <1>0, <3>1 DEF JInv, NoDanglingJob, job
    <3>3. freed'[diag_requests[g][i]] = freed[diag_requests[g][i]]
      BY <1>0, <1>1, <3>2
    <3> QED
      BY <3>1, <3>2, <3>3
  <2>3. ASSUME NEW f \in Hosts, NEW g \in Hosts, NEW i \in Ids, NEW other \in Ids,
               Taken(f, i)', diag_requests'[f][i] = diag_requests'[g][other]
        PROVE  f = g /\ i = other
    BY <1>4, <2>3 DEF JInv, NoDanglingJob, Taken
  <2> QED
    BY <2>1, <2>2, <2>3 DEF NoDanglingJob
<1>10. ASSUME NEW v \in Connections, Alone(v), v # w
      PROVE  /\ Host[v] # h /\ Host[v] \in Hosts
             /\ at'[v] = at[v] /\ job_id'[v] = job_id[v] /\ granted'[v] = granted[v]
             /\ \A i \in Ids : diag_requests'[Host[v]][i] = diag_requests[Host[v]][i]
  <2>1. Host[v] # h /\ Host[v] \in Hosts
    BY <1>10 DEF Alone, Hosts
  <2> QED
    BY <1>0, <1>1, <1>2, <1>4, <1>10, <2>1
<1>11. AloneFinds'
  <2> SUFFICES ASSUME NEW v \in Connections, Alone(v)
               PROVE  /\ at'[v] = "add" => diag_requests'[Host[v]][job_id'[v]] = NoJob
                      /\ at'[v] = "removeAgain" /\ job_id'[v] # 0 => diag_requests'[Host[v]][job_id'[v]] = NoJob
    BY DEF AloneFinds, Alone, Taken
  <2>1. CASE v = w
    BY <1>0, <1>1, <1>4, <2>1
  <2>2. CASE v # w
    BY <1>0, <1>10, <2>2 DEF JInv, AloneFinds, Taken
  <2> QED
    BY <2>1, <2>2
<1>12. AloneHolds'
  <2> SUFFICES ASSUME NEW v \in Connections, Alone(v), NEW i \in Ids \ {0}, NEW j \in Nat
               PROVE  <<i, j>> \in granted'[v] <=> diag_requests'[Host[v]][i] = j
    BY DEF AloneHolds, Alone
  <2>1. <<i, j>> \in granted[v] <=> diag_requests[Host[v]][i] = j
    BY DEF JInv, AloneHolds
  <2>2. CASE v # w
    BY <1>10, <2>1, <2>2
  <2>3. CASE v = w /\ i # id
    BY <1>0, <1>2, <1>4, <2>1, <2>3
  <2>4. CASE v = w /\ i = id /\ RemoveFirst(w)
    BY <1>0, <1>2, <1>4, <2>4
  <2>5. CASE v = w /\ i = id /\ ~RemoveFirst(w)
    <3>1. at[w] = "removeAgain" /\ diag_requests[h][id] = NoJob
      BY <2>5 DEF JInv, AloneFinds, Taken, RemoveAgain
    <3> QED
      BY <1>0, <1>2, <1>4, <2>1, <2>5, <3>1
  <2> QED
    BY <2>2, <2>3, <2>4, <2>5
<1> QED
  BY <1>6, <1>7, <1>8, <1>9, <1>11, <1>12 DEF JInv

LEMMA JobsStep ==
    ASSUME JInv, [Next]_vars
    PROVE  JInv'
<1>1. /\ uses' = uses
      /\ UNCHANGED diagVars \/ \E w \in Connections : DiagStep(w)
  BY DiagOnly DEF JInv, DiagTypeOK
<1>2. CASE UNCHANGED diagVars
  BY <1>1, <1>2 DEF diagVars, JInv, DiagTypeOK, WithinBound, Requesting, Fresh, NoDanglingJob, AloneFinds,
                    AloneHolds, Alone, Taken
<1>3. ASSUME NEW w \in Connections, DiagStep(w) PROVE JInv'
  BY <1>1, <1>3, WalkStep, AddStep, RemoveStep DEF DiagStep, PerformGroupProgrammer, Searching
<1> QED
  BY <1>1, <1>2, <1>3

LEMMA JobsInitial == Init => JInv
<1> SUFFICES ASSUME Init PROVE JInv
  OBVIOUS
<1>0. DiagInit /\ uses \in Mixes
  BY DEF Init
<1>1. DiagTypeOK
  BY <1>0, JobIdsAssumption DEF DiagInit, DiagTypeOK, Labels, Ids
<1>2. WithinBound
  <2>1. Requesting = {}
    BY <1>0 DEF DiagInit, Requesting
  <2> QED
    BY <1>0, <2>1, FS_EmptySet, MaxJobsAssumption DEF DiagInit, WithinBound
<1>3. Fresh /\ NoDanglingJob
  BY <1>0 DEF DiagInit, Fresh, NoDanglingJob, Taken
<1>4. \A w \in Connections, id \in Ids : diag_requests[Host[w]][id] = NoJob
  BY <1>0 DEF DiagInit, Hosts
<1>5. AloneFinds /\ AloneHolds
  BY <1>0, <1>4, NoJobAssumption DEF DiagInit, AloneFinds, AloneHolds
<1> QED
  BY <1>1, <1>2, <1>3, <1>5 DEF JInv

-----------------------------------------------------------------------------
(* Theorems *)

\* The queue nobody empties (snap_tcpsrvr.cpp:52-96) keeps the first events of
\* the server in their order and drops the later ones, whatever its capacity.
THEOREM EarliestEventsKept == Spec => []EarliestKept
<1>1. QInv /\ [Next]_vars => QInv'
  <2> SUFFICES ASSUME QInv, [Next]_vars PROVE QInv'
    OBVIOUS
  <2>1. CASE UNCHANGED queue
    BY <2>1 DEF queue, QInv, EarliestKept
  <2>2. ASSUME NEW e, Insert(e) PROVE QInv'
    BY <2>2, InsertKeeps
  <2> QED
    BY <2>1, <2>2, QueueStep
<1>2. QInv => EarliestKept
  BY DEF QInv
<1> QED
  BY <1>1, <1>2, QueueInitial, PTL DEF Spec

\* The invariant of the diagnostic jobs is inductive.
THEOREM JobsInductive == Spec => []JInv
<1>1. JInv /\ [Next]_vars => JInv'
  BY JobsStep
<1> QED
  BY <1>1, JobsInitial, PTL DEF Spec

\* RemoveDiagRequest (s7_server.cpp:2846-2856) never deletes a request twice and
\* leaves no pointer to a deleted one, though SFun_RemoveDiag calls it twice,
\* and connections of one host race for ids between the two critical sections.
THEOREM NoJobDangles == Spec => []NoDanglingJob
<1>1. JInv => NoDanglingJob
  BY DEF JInv
<1> QED
  BY <1>1, JobsInductive, PTL

\* A client that is the only one of its host has in the table just the jobs it
\* was given and has not removed, whatever the clients of other hosts do: the
\* race for an id (s7_server.cpp:2824-2843) is one within a host.
THEOREM AloneKeepsJobs == Spec => []AloneKeeps
  BY JobsInductive, HoldsIsKeeps, PTL

-----------------------------------------------------------------------------
(* The partial lists *)

SzlPlaces == {"idle", "load", "store", "test", "restart", "take", "cut",
    "decrease", "decrLoad", "decrStore", "unit", "send"}

SzlTypeOK ==
    /\ abandoned \in Nat /\ overlapped \in BOOLEAN
    /\ counter = [c \in Counters |-> counter[c]]
    /\ pc \in [Workers -> SzlPlaces] /\ counting \in [Workers -> Counters]
    /\ reg = [w \in Workers |-> reg[w]] /\ sequence = [w \in Workers |-> sequence[w]]
    /\ packet = [w \in Workers |-> packet[w]] /\ answer = [w \in Workers |-> answer[w]]
    /\ FragmentMap = [w \in Workers |-> [s \in Numbers |-> FragmentMap[w][s]]]

\* The number of the list under way: each list that was abandoned has kept one.
Current == abandoned + 1

\* The rest of the list under way is in the map of w, or nothing is.
Entry(w, list, n) ==
    \A s \in Numbers : FragmentMap[w][s] = IF s = Current THEN Fragments(list, n) ELSE NoFragments
NoEntry(w) == \A s \in Numbers : FragmentMap[w][s] = NoFragments

\* w has no list under way,
Resting(w) == pc[w] = "idle" /\ NoEntry(w) /\ answer[w].last

\* has sent a packet of one that is not the last,
HasSent(w) ==
    /\ answer[w].list \in Lists /\ answer[w].n \in 1 .. Packets(answer[w].list) - 1
    /\ ~answer[w].last /\ answer[w].Seq = Current
    /\ Entry(w, answer[w].list, answer[w].n + 1)

Pausing(w) == pc[w] = "idle" /\ HasSent(w) /\ counter["sequence_nr"] = Current

\* takes a number for one,
Beginning(w) ==
    /\ pc[w] \in {"load", "store", "test", "take", "cut"} /\ counting[w] = "sequence_nr"
    /\ \E l \in Lists : Packets(l) > 1 /\ packet[w] = Packet(l, 1)
    /\ NoEntry(w)
    /\ counter["sequence_nr"] = IF pc[w] \in {"load", "store"} THEN abandoned ELSE Current
    /\ pc[w] = "store" => reg[w] = abandoned
    /\ pc[w] = "cut" => sequence[w] = Current

\* makes the first packet of it,
Opening(w) ==
    /\ pc[w] \in {"load", "store", "test", "restart", "take", "send"} /\ counting[w] = "DURN"
    /\ \E l \in Lists :
          /\ Packets(l) > 1
          /\ packet[w] = [Packet(l, 1) EXCEPT !.Seq = Current, !.durn = packet[w].durn]
          /\ Entry(w, l, 2)
    /\ sequence[w] = Current /\ counter["sequence_nr"] = Current

\* or a later one.
Continuing(w) ==
    /\ pc[w] \in {"decrease", "decrLoad", "decrStore", "unit", "send"}
    /\ HasSent(w)
    /\ packet[w] = [Packet(answer[w].list, answer[w].n + 1)
                       EXCEPT !.Seq = Current, !.durn = packet[w].durn]
    /\ pc[w] \in {"decrease", "decrLoad", "decrStore"} => packet[w].last
    /\ pc[w] = "decrStore" => reg[w] = Current
    /\ sequence[w] = Current
    /\ counter["sequence_nr"] =
          IF packet[w].last /\ pc[w] \in {"unit", "send"} THEN abandoned ELSE Current

Phase(w) == Resting(w) \/ Pausing(w) \/ Beginning(w) \/ Opening(w) \/ Continuing(w)

\* As long as the numbers hold, one list is under way at most.
OneList ==
    Reliable =>
        /\ \A w \in Workers : Phase(w)
        /\ \A v, w \in Workers : Resting(v) \/ Resting(w) \/ v = w
        /\ (\A w \in Workers : Resting(w)) => counter["sequence_nr"] = abandoned

LInv == SzlTypeOK /\ OneList

\* A list under way shows, in the code's terms or in those of the invariant.
LEMMA UnderWayIs ==
    ASSUME SzlTypeOK, Reliable, OneList, NEW w \in Workers
    PROVE  UnderWay(w) <=> ~Resting(w)
<1>1. Current \in Numbers
  BY SeqMaxAssumption DEF SzlTypeOK, Reliable, Current, Numbers
<1>2. \A list, n : n # 0 => Fragments(list, n) # NoFragments
  BY DEF Fragments, NoFragments
<1>3. Phase(w)
  BY DEF OneList
<1>4. CASE Resting(w)
  BY <1>4 DEF Resting, UnderWay, NoEntry
<1>5. CASE Pausing(w)
  <2>1. answer[w].n + 1 # 0
    BY <1>5, PacketsAssumption DEF Pausing, HasSent
  <2>2. FragmentMap[w][Current] # NoFragments
    BY <1>1, <1>2, <1>5, <2>1 DEF Pausing, HasSent, Entry
  <2> QED
    BY <1>1, <2>2 DEF UnderWay, Resting, NoEntry
<1>6. CASE Beginning(w) \/ Opening(w) \/ Continuing(w)
  BY <1>6 DEF Beginning, Opening, Continuing, UnderWay, Resting
<1> QED
  BY <1>3, <1>4, <1>5, <1>6 DEF Phase

\* A step of the worker that is at the list leaves the others at rest.
LEMMA ListStep ==
    ASSUME LInv, NEW w \in Workers, SzlTypeOK',
           abandoned' = abandoned, Reliable' => Reliable,
           Reliable => ~Resting(w) \/ \A v \in Workers : Resting(v),
           \A v \in Workers \ {w} :
              pc'[v] = pc[v] /\ FragmentMap'[v] = FragmentMap[v] /\ answer'[v] = answer[v],
           Reliable' => Phase(w)' /\ (Resting(w)' => counter'["sequence_nr"] = abandoned)
    PROVE  LInv'
<1> SUFFICES ASSUME Reliable'
             PROVE  OneList'
  BY DEF LInv, OneList
<1>1. \A v \in Workers \ {w} : Resting(v)
  BY DEF LInv, OneList
<1>2. \A v \in Workers \ {w} : Resting(v)'
  BY <1>1 DEF Resting, NoEntry
<1> QED
  BY <1>2 DEF OneList, Phase

\* Counting goes on under the same number.
LEMMA CountingSteps ==
    ASSUME LInv, NEW w \in Workers,
           Load(w) \/ Store(w) \/ Test(w) \/ Restart(w) \/ Take(w)
    PROVE  LInv'
<1> USE DEF LInv
<1>1. /\ abandoned \in Nat /\ SeqMax \in Nat /\ SeqMax > 1
      /\ pc[w] \in {"load", "store", "test", "restart", "take"} /\ counting[w] \in Counters
      /\ UNCHANGED <<counting, FragmentMap, answer, overlapped, abandoned>>
      /\ pc = [v \in Workers |-> pc[v]]
  BY SeqMaxAssumption DEF Load, Store, Test, Restart, Take, SzlTypeOK
<1>2. \A v \in Workers \ {w} : pc'[v] = pc[v]
  BY <1>1 DEF Load, Store, Test, Restart, Take, Return, Goto
<1>3. SzlTypeOK'
  <2>1. pc' \in [Workers -> SzlPlaces]
    <3>1. \E l \in {"store", "test", "restart", "take", "cut", "send"} : pc' = [pc EXCEPT ![w] = l]
      BY DEF Load, Store, Test, Restart, Take, Return, Goto
    <3> QED
      BY <3>1 DEF SzlTypeOK, SzlPlaces
  <2>2. /\ counter' = [c \in Counters |-> counter'[c]]
        /\ reg' = [v \in Workers |-> reg'[v]]
    BY DEF Load, Store, Test, Restart, Take, SzlTypeOK
  <2>3. /\ sequence' = [v \in Workers |-> sequence'[v]]
        /\ packet' = [v \in Workers |-> packet'[v]]
    BY DEF Load, Store, Test, Restart, Take, Return, SzlTypeOK
  <2> QED
    BY <1>1, <2>1, <2>2, <2>3 DEF SzlTypeOK
<1>4. ~Resting(w) /\ ~Pausing(w) /\ ~Continuing(w)
  BY <1>1 DEF Resting, Pausing, Continuing
<1>5. (Reliable' <=> Reliable) /\ Current' = Current
  BY <1>1 DEF Reliable, Current
<1>6. ASSUME Reliable, Beginning(w)
      PROVE  Beginning(w)'
  <2> DEFINE nr == counter["sequence_nr"]
  <2>1. PICK l \in Lists : Packets(l) > 1 /\ packet[w] = Packet(l, 1)
    BY <1>6 DEF Beginning
  <2>2. /\ nr = IF pc[w] \in {"load", "store"} THEN abandoned ELSE Current
        /\ pc[w] = "store" => reg[w] = abandoned
        /\ counting[w] = "sequence_nr" /\ NoEntry(w)
        /\ pc[w] # "restart"
    BY <1>6 DEF Beginning
  <2>3. Current < SeqMax /\ Current % (SeqMax + 1) = Current
    BY <1>1, <1>6 DEF Reliable, Current
  <2>4. NoEntry(w)' /\ packet'[w] = packet[w] /\ counting'[w] = "sequence_nr"
    BY <1>1, <2>2 DEF NoEntry, Load, Store, Test, Restart, Take, Return
  <2>5. CASE Load(w)
    BY <1>1, <2>1, <2>2, <2>4, <2>5 DEF Load, Beginning, Goto, SzlTypeOK
  <2>6. CASE Store(w)
    <3>1. counter'["sequence_nr"] = (abandoned + 1) % (SeqMax + 1) /\ pc'[w] = "test"
      BY <2>2, <2>6 DEF Store, Goto, SzlTypeOK, Counters
    <3> QED
      BY <2>1, <2>3, <2>4, <3>1, <1>5 DEF Beginning, Current
  <2>7. CASE Test(w)
    <3>1. pc'[w] = "take" /\ counter' = counter /\ pc[w] = "test"
      BY <1>1, <2>2, <2>3, <2>7 DEF Test, Goto
    <3> QED
      BY <1>5, <2>1, <2>2, <2>4, <3>1 DEF Beginning
  <2>8. CASE Take(w)
    <3>1. pc'[w] = "cut" /\ counter' = counter /\ sequence'[w] = counter["sequence_nr"]
      BY <1>1, <2>2, <2>8 DEF Take, Return, Goto, SzlTypeOK
    <3> QED
      BY <1>5, <2>1, <2>2, <2>4, <2>8, <3>1 DEF Beginning, Take
  <2> QED
    BY <2>2, <2>5, <2>6, <2>7, <2>8 DEF Restart
<1>7. ASSUME Reliable, Opening(w)
      PROVE  Opening(w)'
  <2>1. PICK l \in Lists : /\ Packets(l) > 1 /\ Entry(w, l, 2)
                           /\ packet[w] = [Packet(l, 1) EXCEPT !.Seq = Current,
                                                               !.durn = packet[w].durn]
    BY <1>7 DEF Opening
  <2>2. counting[w] = "DURN" /\ sequence[w] = Current /\ counter["sequence_nr"] = Current
    BY <1>7 DEF Opening
  <2>3. sequence' = sequence /\ counter'["sequence_nr"] = counter["sequence_nr"]
    BY <2>2 DEF Load, Store, Test, Restart, Take, Return, SzlTypeOK, Counters
  <2>4. pc'[w] \in {"load", "store", "test", "restart", "take", "send"}
    BY <1>1, <2>2 DEF Load, Store, Test, Restart, Take, Return, Goto
  <2>5. \E d : packet'[w] = [Packet(l, 1) EXCEPT !.Seq = Current, !.durn = d]
    <3>1. packet'[w] = packet[w] \/ \E n : packet' = [packet EXCEPT ![w].durn = n]
      BY <2>2 DEF Load, Store, Test, Restart, Take, Return
    <3>2. ASSUME NEW n, packet' = [packet EXCEPT ![w].durn = n]
          PROVE  packet'[w] = [Packet(l, 1) EXCEPT !.Seq = Current, !.durn = n]
      <4>1. packet'[w] = [packet[w] EXCEPT !.durn = n]
        BY <3>2 DEF SzlTypeOK
      <4> QED
        BY <2>1, <4>1 DEF Packet
    <3> QED
      BY <2>1, <3>1, <3>2
  <2>6. packet'[w] = [Packet(l, 1) EXCEPT !.Seq = Current', !.durn = packet'[w].durn]
    BY <1>5, <2>5 DEF Packet
  <2>7. Entry(w, l, 2)'
    BY <1>1, <1>5, <2>1 DEF Entry
  <2> QED
    BY <1>1, <1>5, <2>1, <2>2, <2>3, <2>4, <2>6, <2>7 DEF Opening
<1>8. Reliable => Phase(w)'
  BY <1>4, <1>6, <1>7 DEF OneList, Phase
<1>9. ~Resting(w)'
  <2>1. pc'[w] # "idle"
    BY <1>1 DEF Load, Store, Test, Restart, Take, Return, Goto
  <2> QED
    BY <2>1 DEF Resting
<1> QED
  BY <1>1, <1>2, <1>3, <1>4, <1>5, <1>8, <1>9, ListStep

\* A new list begins, alone or not.
LEMMA ReadLongStep ==
    ASSUME LInv, NEW w \in Workers, ReadLong(w)
    PROVE  LInv'
<1> USE DEF LInv
<1>1. /\ pc[w] = "idle" /\ pc' = [pc EXCEPT ![w] = "load"]
      /\ counting' = [counting EXCEPT ![w] = "sequence_nr"]
      /\ UNCHANGED <<counter, reg, sequence, FragmentMap, abandoned>>
      /\ overlapped' = (overlapped \/ \E v \in Workers : UnderWay(v))
      /\ answer' = IF overlapped' THEN [v \in Workers |-> NoPacket] ELSE answer
  BY DEF ReadLong, StartCounting, Goto
<1>2. PICK l \in Lists : Packets(l) > 1 /\ packet' = [packet EXCEPT ![w] = Packet(l, 1)]
  BY DEF ReadLong
<1>3. SzlTypeOK'
  <2>1. overlapped' \in BOOLEAN /\ answer' = [v \in Workers |-> answer'[v]]
    BY <1>1 DEF SzlTypeOK
  <2>2. pc' \in [Workers -> SzlPlaces] /\ counting' \in [Workers -> Counters]
    BY <1>1 DEF SzlTypeOK, SzlPlaces, Counters
  <2> QED
    BY <1>1, <1>2, <2>1, <2>2 DEF SzlTypeOK
<1>4. ASSUME Reliable'
      PROVE  Reliable /\ \A v \in Workers : Resting(v)
  <2>1. Reliable
    BY <1>1, <1>4 DEF Reliable
  <2> QED
    BY <1>1, <1>4, <2>1, UnderWayIs DEF Reliable
<1> SUFFICES ASSUME Reliable'
             PROVE  OneList'
  BY <1>3 DEF OneList
<1>5. answer' = answer
  BY <1>1 DEF Reliable
<1>6. Beginning(w)'
  <2>1. pc'[w] = "load" /\ counting'[w] = "sequence_nr" /\ packet'[w] = Packet(l, 1)
    BY <1>1, <1>2 DEF SzlTypeOK
  <2>2. counter["sequence_nr"] = abandoned /\ NoEntry(w)
    BY <1>4 DEF OneList, Resting
  <2> QED
    BY <1>1, <1>2, <2>1, <2>2 DEF Beginning, NoEntry
<1>7. \A v \in Workers \ {w} : Resting(v)'
  BY <1>1, <1>4, <1>5 DEF Resting, NoEntry, SzlTypeOK
<1>8. ~Resting(w)'
  BY <1>6 DEF Beginning, Resting
<1> QED
  BY <1>6, <1>7, <1>8 DEF OneList, Phase

\* The rest of the list goes into the map under the number of the packet.
LEMMA SendAnswerStep ==
    ASSUME LInv, NEW w \in Workers, SZLSendAnswer(w)
    PROVE  LInv'
<1> USE DEF LInv
<1>1. /\ pc[w] = "cut" /\ pc' = [pc EXCEPT ![w] = "load"]
      /\ counting' = [counting EXCEPT ![w] = "DURN"]
      /\ FragmentMap' = [FragmentMap EXCEPT ![w][sequence[w]] = Fragments(packet[w].list, 2)]
      /\ packet' = [packet EXCEPT ![w].Seq = counter["sequence_nr"]]
      /\ UNCHANGED <<counter, reg, sequence, answer, overlapped, abandoned>>
  BY DEF SZLSendAnswer, StartCounting, Goto
<1>2. SzlTypeOK'
  <2>1. pc' \in [Workers -> SzlPlaces] /\ counting' \in [Workers -> Counters]
    BY <1>1 DEF SzlTypeOK, SzlPlaces, Counters
  <2>2. FragmentMap' = [v \in Workers |-> [s \in Numbers |-> FragmentMap'[v][s]]]
    BY <1>1 DEF SzlTypeOK
  <2> QED
    BY <1>1, <2>1, <2>2 DEF SzlTypeOK
<1>3. ~Resting(w) /\ (Reliable' <=> Reliable)
  BY <1>1 DEF Resting, Reliable
<1>4. \A v \in Workers \ {w} :
         pc'[v] = pc[v] /\ FragmentMap'[v] = FragmentMap[v] /\ answer'[v] = answer[v]
  BY <1>1 DEF SzlTypeOK
<1>5. ASSUME Reliable
      PROVE  Opening(w)'
  <2>1. Beginning(w)
    BY <1>1, <1>5 DEF OneList, Phase, Resting, Pausing, Opening, Continuing
  <2>2. PICK l \in Lists : Packets(l) > 1 /\ packet[w] = Packet(l, 1)
    BY <2>1 DEF Beginning
  <2>3. sequence[w] = Current /\ counter["sequence_nr"] = Current /\ NoEntry(w) /\ Current' = Current
    BY <1>1, <2>1 DEF Beginning, Current
  <2>4. Current \in Numbers
    BY <1>5, SeqMaxAssumption DEF SzlTypeOK, Reliable, Current, Numbers
  <2>5. pc'[w] = "load" /\ counting'[w] = "DURN"
    BY <1>1 DEF SzlTypeOK
  <2>6. packet'[w] = [Packet(l, 1) EXCEPT !.Seq = Current]
    BY <1>1, <2>2, <2>3 DEF SzlTypeOK
  <2>7. packet'[w] = [Packet(l, 1) EXCEPT !.Seq = Current', !.durn = packet'[w].durn]
    BY <2>3, <2>6 DEF Packet
  <2>8. Entry(w, l, 2)'
    <3>1. packet[w].list = l
      BY <2>2 DEF Packet
    <3>2. FragmentMap'[w] = [FragmentMap[w] EXCEPT ![Current] = Fragments(l, 2)]
      BY <1>1, <2>3, <3>1 DEF SzlTypeOK
    <3>3. DOMAIN FragmentMap[w] = Numbers
      BY DEF SzlTypeOK
    <3> QED
      BY <2>3, <3>2, <3>3 DEF NoEntry, Entry
  <2> QED
    BY <1>1, <2>2, <2>3, <2>5, <2>7, <2>8 DEF Opening
<1>6. ~Resting(w)'
  BY <1>1 DEF Resting, SzlTypeOK
<1> QED
  BY <1>1, <1>2, <1>3, <1>4, <1>5, <1>6, ListStep DEF Phase

\* The client asks for the next packet under the number it was given.
LEMMA ContinuationStep ==
    ASSUME LInv, NEW w \in Workers, pc[w] = "idle", NEW s \in Numbers, SZLSendContinuation(w, s)
    PROVE  LInv'
<1> USE DEF LInv
<1> DEFINE f == FragmentMap[w][s]
           new == [Packet(f.list, f.next) EXCEPT !.Seq = counter["sequence_nr"]]
<1>1. /\ f # NoFragments
      /\ pc' = [pc EXCEPT ![w] = IF packet'[w].last THEN "decrease" ELSE "unit"]
      /\ sequence' = [sequence EXCEPT ![w] = s]
      /\ packet' = [packet EXCEPT ![w] = new]
      /\ UNCHANGED <<counter, counting, reg, FragmentMap, answer, overlapped, abandoned>>
  BY DEF SZLSendContinuation, Goto
<1>2. SzlTypeOK'
  <2>1. pc' \in [Workers -> SzlPlaces]
    BY <1>1 DEF SzlTypeOK, SzlPlaces
  <2> HIDE DEF new
  <2> QED
    BY <1>1, <2>1 DEF SzlTypeOK
<1>3. (Reliable' <=> Reliable) /\ (Reliable => ~Resting(w))
  BY <1>1 DEF Resting, NoEntry, Reliable
<1>4. \A v \in Workers \ {w} :
         pc'[v] = pc[v] /\ FragmentMap'[v] = FragmentMap[v] /\ answer'[v] = answer[v]
  BY <1>1 DEF SzlTypeOK
<1>5. ASSUME Reliable
      PROVE  Continuing(w)'
  <2>1. Pausing(w)
    BY <1>3, <1>5 DEF OneList, Phase, Beginning, Opening, Continuing
  <2>2. counter["sequence_nr"] = Current /\ HasSent(w) /\ Current' = Current
    BY <1>1, <2>1 DEF Pausing, Current
  <2>3. s = Current /\ f = Fragments(answer[w].list, answer[w].n + 1)
    BY <1>1, <2>2 DEF HasSent, Entry
  <2>4. packet'[w] = [Packet(answer[w].list, answer[w].n + 1) EXCEPT !.Seq = Current]
    <3>1. f.list = answer[w].list /\ f.next = answer[w].n + 1
      BY <2>3 DEF Fragments
    <3>2. packet'[w] = new
      BY <1>1 DEF SzlTypeOK
    <3> QED
      BY <2>2, <3>1, <3>2
  <2>5. packet'[w] = [Packet(answer'[w].list, answer'[w].n + 1)
                         EXCEPT !.Seq = Current', !.durn = packet'[w].durn]
    <3>1. answer' = answer
      BY <1>1
    <3> HIDE DEF f, new
    <3> QED
      BY <2>2, <2>4, <3>1 DEF Packet
  <2>6. HasSent(w)'
    BY <1>1, <2>2 DEF HasSent, Entry
  <2>7. /\ pc'[w] \in {"decrease", "unit"} /\ (pc'[w] = "unit" <=> ~packet'[w].last)
        /\ sequence'[w] = Current
    BY <1>1, <2>3 DEF SzlTypeOK
  <2> QED
    BY <1>1, <2>2, <2>5, <2>6, <2>7 DEF Continuing
<1>6. ~Resting(w)'
  BY <1>1 DEF Resting, SzlTypeOK
<1> QED
  BY <1>1, <1>2, <1>3, <1>4, <1>5, <1>6, ListStep DEF Phase

\* The number is given back with the last packet.
LEMMA DecreaseSteps ==
    ASSUME LInv, NEW w \in Workers, DecrTest(w) \/ DecrLoad(w) \/ DecrStore(w)
    PROVE  LInv'
<1> USE DEF LInv
<1>1. /\ abandoned \in Nat /\ SeqMax \in Nat /\ SeqMax > 1
      /\ pc[w] \in {"decrease", "decrLoad", "decrStore"}
      /\ UNCHANGED <<counting, sequence, packet, FragmentMap, answer, overlapped, abandoned>>
  BY SeqMaxAssumption DEF DecrTest, DecrLoad, DecrStore, SzlTypeOK
<1>2. PICK l \in {"decrLoad", "decrStore", "unit"} : pc' = [pc EXCEPT ![w] = l]
  BY DEF DecrTest, DecrLoad, DecrStore, Goto
<1>3. SzlTypeOK'
  <2>1. /\ counter' = [c \in Counters |-> counter'[c]]
        /\ reg' = [v \in Workers |-> reg'[v]]
    BY DEF DecrTest, DecrLoad, DecrStore, SzlTypeOK
  <2>2. pc' \in [Workers -> SzlPlaces]
    BY <1>2 DEF SzlTypeOK, SzlPlaces
  <2> QED
    BY <1>1, <2>1, <2>2 DEF SzlTypeOK
<1>4. pc'[w] = l /\ \A v \in Workers \ {w} : pc'[v] = pc[v]
  BY <1>2 DEF SzlTypeOK
<1>5. (Reliable' <=> Reliable) /\ Current' = Current /\ ~Resting(w) /\ ~Resting(w)'
  BY <1>1, <1>4 DEF Reliable, Current, Resting
<1>6. ASSUME Reliable
      PROVE  Continuing(w)'
  <2>1. Continuing(w)
    BY <1>1, <1>6 DEF OneList, Phase, Resting, Pausing, Beginning, Opening
  <2>2. /\ HasSent(w) /\ packet[w].last /\ sequence[w] = Current
        /\ counter["sequence_nr"] = Current /\ (pc[w] = "decrStore" => reg[w] = Current)
    BY <1>1, <2>1 DEF Continuing
  <2>3. HasSent(w)'
    BY <1>1, <1>5, <2>2 DEF HasSent, Entry
  <2>4. packet'[w] = [Packet(answer'[w].list, answer'[w].n + 1)
                         EXCEPT !.Seq = Current', !.durn = packet'[w].durn]
    BY <1>1, <1>5, <2>1 DEF Continuing
  <2>5. CASE DecrTest(w)
    <3>1. l = "decrLoad" /\ counter' = counter
      BY <1>1, <1>4, <2>2, <2>5 DEF DecrTest, Goto, Current, SzlTypeOK
    <3> QED
      BY <1>1, <1>4, <1>5, <2>2, <2>3, <2>4, <3>1 DEF Continuing
  <2>6. CASE DecrLoad(w)
    <3>1. l = "decrStore" /\ counter' = counter /\ reg'[w] = Current
      BY <1>1, <1>4, <2>2, <2>6 DEF DecrLoad, Goto, SzlTypeOK
    <3> QED
      BY <1>1, <1>4, <1>5, <2>2, <2>3, <2>4, <3>1 DEF Continuing
  <2>7. CASE DecrStore(w)
    <3>1. l = "unit" /\ counter'["sequence_nr"] = (Current - 1) % (SeqMax + 1)
      BY <1>1, <1>4, <2>2, <2>7 DEF DecrStore, Goto, SzlTypeOK, Counters
    <3>2. (Current - 1) % (SeqMax + 1) = abandoned
      BY <1>1, <1>6 DEF Reliable, Current
    <3> QED
      BY <1>1, <1>4, <1>5, <2>2, <2>3, <2>4, <3>1, <3>2 DEF Continuing
  <2> QED
    BY <2>5, <2>6, <2>7
<1> QED
  BY <1>1, <1>3, <1>4, <1>5, <1>6, ListStep DEF Phase

\* The data unit reference goes into a later packet.
LEMMA CurrentUnitStep ==
    ASSUME LInv, NEW w \in Workers, CurrentDURN(w)
    PROVE  LInv'
<1> USE DEF LInv
<1>1. /\ pc[w] = "unit" /\ pc' = [pc EXCEPT ![w] = "send"]
      /\ packet' = [packet EXCEPT ![w].durn = counter["DURN"]]
      /\ UNCHANGED <<counter, counting, reg, sequence, FragmentMap, answer, overlapped, abandoned>>
  BY DEF CurrentDURN, Goto
<1>2. SzlTypeOK'
  <2>1. pc' \in [Workers -> SzlPlaces]
    BY <1>1 DEF SzlTypeOK, SzlPlaces
  <2> QED
    BY <1>1, <2>1 DEF SzlTypeOK
<1>3. pc'[w] = "send" /\ \A v \in Workers \ {w} : pc'[v] = pc[v]
  BY <1>1 DEF SzlTypeOK
<1>4. (Reliable' <=> Reliable) /\ Current' = Current /\ ~Resting(w) /\ ~Resting(w)'
  BY <1>1, <1>3 DEF Reliable, Current, Resting
<1>5. ASSUME Reliable
      PROVE  Continuing(w)'
  <2>1. Continuing(w)
    BY <1>1, <1>5 DEF OneList, Phase, Resting, Pausing, Beginning, Opening
  <2>2. HasSent(w)'
    BY <1>1, <1>4, <2>1 DEF Continuing, HasSent, Entry
  <2>3. packet'[w] = [packet[w] EXCEPT !.durn = counter["DURN"]]
    BY <1>1 DEF SzlTypeOK
  <2>4. /\ packet'[w] = [Packet(answer[w].list, answer[w].n + 1)
                           EXCEPT !.Seq = Current, !.durn = counter["DURN"]]
        /\ packet'[w].last = packet[w].last /\ packet'[w].durn = counter["DURN"]
    BY <2>1, <2>3 DEF Continuing, Packet
  <2> QED
    BY <1>1, <1>3, <1>4, <2>1, <2>2, <2>4 DEF Continuing
<1> QED
  BY <1>1, <1>2, <1>3, <1>4, <1>5, ListStep DEF Phase

\* A packet is sent, and what is left of the list stays under its number.
LEMMA SendStep ==
    ASSUME LInv, NEW w \in Workers, Send(w)
    PROVE  LInv'
<1> USE DEF LInv
<1> DEFINE left == IF packet[w].last THEN NoFragments
                   ELSE Fragments(FragmentMap[w][sequence[w]].list, packet[w].n + 1)
<1>1. /\ pc[w] = "send" /\ pc' = [pc EXCEPT ![w] = "idle"]
      /\ answer' = IF overlapped THEN answer ELSE [answer EXCEPT ![w] = packet[w]]
      /\ FragmentMap' = [FragmentMap EXCEPT ![w][sequence[w]] = left]
      /\ packet' = [packet EXCEPT ![w] = NoPacket] /\ sequence' = [sequence EXCEPT ![w] = 0]
      /\ counting' = [counting EXCEPT ![w] = "sequence_nr"]
      /\ UNCHANGED <<counter, reg, overlapped, abandoned>>
  BY DEF Send, Goto, Forget
<1>2. SzlTypeOK'
  <2> HIDE DEF left
  <2>1. pc' \in [Workers -> SzlPlaces] /\ counting' \in [Workers -> Counters]
    BY <1>1 DEF SzlTypeOK, SzlPlaces, Counters
  <2>2. FragmentMap' = [v \in Workers |-> [s \in Numbers |-> FragmentMap'[v][s]]]
    BY <1>1 DEF SzlTypeOK
  <2>3. answer' = [v \in Workers |-> answer'[v]] /\ packet' = [v \in Workers |-> packet'[v]]
    BY <1>1 DEF SzlTypeOK
  <2>4. sequence' = [v \in Workers |-> sequence'[v]]
    BY <1>1 DEF SzlTypeOK
  <2> QED
    BY <1>1, <2>1, <2>2, <2>3, <2>4 DEF SzlTypeOK
<1>3. pc'[w] = "idle" /\ \A v \in Workers \ {w} :
         pc'[v] = pc[v] /\ FragmentMap'[v] = FragmentMap[v] /\ answer'[v] = answer[v]
  <2> HIDE DEF left
  <2> QED
    BY <1>1 DEF SzlTypeOK
<1>4. (Reliable' <=> Reliable) /\ Current' = Current /\ ~Resting(w)
  BY <1>1 DEF Reliable, Current, Resting
<1>5. ASSUME Reliable
      PROVE  Phase(w)' /\ (Resting(w)' => counter'["sequence_nr"] = abandoned)
  <2>1. Opening(w) \/ Continuing(w)
    BY <1>1, <1>5 DEF OneList, Phase, Resting, Pausing, Beginning
  <2>2. PICK l \in Lists, n \in Nat :
           /\ n \in 1 .. Packets(l)
           /\ packet[w] = [Packet(l, n) EXCEPT !.Seq = Current, !.durn = packet[w].durn]
           /\ n = 1 => Packets(l) > 1
           /\ \E k : Entry(w, l, k)
           /\ counter["sequence_nr"] = IF packet[w].last THEN abandoned ELSE Current
    <3>1. CASE Opening(w)
      <4>1. PICK l \in Lists :
               /\ Packets(l) > 1 /\ Entry(w, l, 2)
               /\ packet[w] = [Packet(l, 1) EXCEPT !.Seq = Current, !.durn = packet[w].durn]
        BY <3>1 DEF Opening
      <4>2. ~packet[w].last
        <5>1. packet[w].last = (1 = Packets(l))
          BY <4>1 DEF Packet
        <5>2. 1 # Packets(l)
          BY <4>1, PacketsAssumption
        <5> QED
          BY <5>1, <5>2
      <4>3. counter["sequence_nr"] = Current /\ 1 \in 1 .. Packets(l)
        BY <3>1, <4>1, PacketsAssumption DEF Opening
      <4>4. counter["sequence_nr"] = IF packet[w].last THEN abandoned ELSE Current
        <5>1. counter["sequence_nr"] = Current
          BY <4>3
        <5> QED
          BY <4>2, <5>1
      <4>5. 1 \in Nat /\ \E k : Entry(w, l, k)
        BY <4>1
      <4> HIDE DEF Entry, Packet, Current
      <4> QED
        BY <4>1, <4>3, <4>4, <4>5
    <3>2. CASE Continuing(w)
      <4> DEFINE l == answer[w].list
                 n == answer[w].n + 1
      <4>1. l \in Lists /\ n \in Nat /\ n \in 1 .. Packets(l) /\ n # 1
        BY <3>2, PacketsAssumption DEF Continuing, HasSent
      <4>2. /\ packet[w] = [Packet(l, n) EXCEPT !.Seq = Current, !.durn = packet[w].durn]
            /\ Entry(w, l, n)
            /\ counter["sequence_nr"] = IF packet[w].last THEN abandoned ELSE Current
        BY <1>1, <3>2 DEF Continuing, HasSent
      <4> HIDE DEF l, n
      <4> QED
        BY <4>1, <4>2
    <3> QED
      BY <2>1, <3>1, <3>2
  <2>3. /\ packet[w].list = l /\ packet[w].n = n /\ packet[w].Seq = Current
        /\ packet[w].last = (n = Packets(l)) /\ sequence[w] = Current
    BY <2>1, <2>2 DEF Packet, Opening, Continuing
  <2>4. answer'[w] = packet[w]
    BY <1>1, <1>5 DEF Reliable, SzlTypeOK
  <2>5. Current \in Numbers
    BY <1>5, SeqMaxAssumption DEF SzlTypeOK, Reliable, Current, Numbers
  <2>6. /\ FragmentMap[w][sequence[w]].list = l
        /\ left = IF n = Packets(l) THEN NoFragments ELSE Fragments(l, n + 1)
    <3>1. \E k : FragmentMap[w][Current] = Fragments(l, k)
      BY <2>2, <2>5 DEF Entry
    <3>2. FragmentMap[w][sequence[w]].list = l
      BY <2>3, <3>1 DEF Fragments
    <3> QED
      BY <2>3, <3>2
  <2>7. \A s \in Numbers : FragmentMap'[w][s] = IF s = Current THEN left ELSE NoFragments
    <3> HIDE DEF left
    <3>1. FragmentMap'[w] = [FragmentMap[w] EXCEPT ![Current] = left]
      BY <1>1, <2>3 DEF SzlTypeOK
    <3>2. DOMAIN FragmentMap[w] = Numbers
      BY DEF SzlTypeOK
    <3> QED
      BY <2>2, <3>1, <3>2 DEF Entry
  <2> HIDE DEF left
  <2>8. CASE n = Packets(l)
    <3>1. NoEntry(w)' /\ answer'[w].last
      BY <2>3, <2>4, <2>6, <2>7, <2>8 DEF NoEntry
    <3> QED
      BY <1>1, <1>3, <2>2, <2>3, <2>8, <3>1 DEF Resting, Phase
  <2>9. CASE n # Packets(l)
    <3>1. n \in 1 .. Packets(l) - 1
      BY <2>2, <2>9, PacketsAssumption
    <3>2. Entry(w, l, n + 1)'
      BY <1>4, <2>6, <2>7, <2>9 DEF Entry
    <3>3. HasSent(w)'
      BY <1>4, <2>3, <2>4, <2>9, <3>1, <3>2 DEF HasSent
    <3>4. counter'["sequence_nr"] = Current' /\ ~Resting(w)'
      BY <1>1, <1>4, <2>2, <2>3, <2>4, <2>9 DEF Resting
    <3> QED
      BY <1>3, <3>3, <3>4 DEF Pausing, Phase
  <2> QED
    BY <2>8, <2>9
<1> QED
  BY <1>1, <1>2, <1>3, <1>4, <1>5, ListStep

\* Another connection takes the slot, and the list under way is abandoned.
LEMMA ReconnectStep ==
    ASSUME LInv, NEW w \in Workers, Reconnect(w)
    PROVE  LInv'
<1> USE DEF LInv
<1>1. /\ pc[w] = "idle"
      /\ abandoned' = IF UnderWay(w) THEN abandoned + 1 ELSE abandoned
      /\ FragmentMap' = [FragmentMap EXCEPT ![w] = [s \in Numbers |-> NoFragments]]
      /\ answer' = [answer EXCEPT ![w] = NoPacket]
      /\ UNCHANGED <<counter, pc, counting, reg, sequence, packet, overlapped>>
  BY DEF Reconnect
<1>2. SzlTypeOK'
  <2>1. abandoned' \in Nat
    BY <1>1 DEF SzlTypeOK
  <2>2. FragmentMap' = [v \in Workers |-> [s \in Numbers |-> FragmentMap'[v][s]]]
    BY <1>1 DEF SzlTypeOK
  <2> QED
    BY <1>1, <2>1, <2>2 DEF SzlTypeOK
<1>3. FragmentMap'[w] = [s \in Numbers |-> NoFragments] /\ answer'[w] = NoPacket
      /\ \A v \in Workers \ {w} : FragmentMap'[v] = FragmentMap[v] /\ answer'[v] = answer[v]
  BY <1>1 DEF SzlTypeOK
<1>4. Resting(w)'
  BY <1>1, <1>3 DEF Resting, NoEntry, NoPacket
<1>5. SUFFICES ASSUME Reliable'
               PROVE  OneList'
  BY <1>2 DEF OneList
<1>6. Reliable
  BY <1>1, <1>5, SeqMaxAssumption DEF Reliable, SzlTypeOK
<1>7. CASE Resting(w)
  <2>1. abandoned' = abandoned /\ Current' = Current
    BY <1>1, <1>6, <1>7, UnderWayIs DEF Current
  <2>2. ASSUME NEW v \in Workers \ {w}
        PROVE  Phase(v)' /\ (Resting(v)' <=> Resting(v))
    <3>1. HasSent(v)' <=> HasSent(v)
      BY <1>3, <2>1 DEF HasSent, Entry
    <3>2. (Resting(v)' <=> Resting(v)) /\ (Pausing(v)' <=> Pausing(v))
      BY <1>1, <1>3, <2>1, <3>1 DEF Resting, Pausing, NoEntry
    <3>3. Beginning(v)' <=> Beginning(v)
      BY <1>1, <1>3, <2>1 DEF Beginning, NoEntry
    <3>4. Opening(v)' <=> Opening(v)
      BY <1>1, <1>3, <2>1 DEF Opening, Entry
    <3>5. Continuing(v)' <=> Continuing(v)
      BY <1>1, <1>3, <2>1, <3>1 DEF Continuing
    <3> QED
      BY <1>6, <3>2, <3>3, <3>4, <3>5 DEF OneList, Phase
  <2> QED
    BY <1>1, <1>4, <1>6, <1>7, <2>1, <2>2 DEF OneList, Phase
<1>8. CASE ~Resting(w)
  <2>1. Pausing(w)
    BY <1>1, <1>6, <1>8 DEF OneList, Phase, Beginning, Opening, Continuing
  <2>2. abandoned' = Current /\ counter'["sequence_nr"] = Current
    BY <1>1, <1>6, <1>8, <2>1, UnderWayIs DEF Current, Pausing
  <2>3. \A v \in Workers \ {w} : Resting(v)'
    <3>1. \A v \in Workers \ {w} : Resting(v)
      BY <1>6, <1>8 DEF OneList
    <3> QED
      BY <1>1, <1>3, <3>1 DEF Resting, NoEntry
  <2> QED
    BY <1>4, <2>2, <2>3 DEF OneList, Phase
<1> QED
  BY <1>7, <1>8

\* What the other services do leaves the lists alone.
LEMMA ListsStep ==
    ASSUME LInv, uses \in Mixes, [Next]_vars
    PROVE  LInv' /\ uses' \in Mixes
<1>0. uses' = uses
  BY DEF Next, Worker, NewConnection, Tick, AnswerControl, CarryOut, ReadStatus, Serve,
         SZLSystemState, VarTab, ReadLists, UseJobs, vars, cpu
<1> SUFFICES LInv'
  BY <1>0
<1>1. CASE UNCHANGED szlVars
  <2>1. UNCHANGED <<counter, pc, counting, reg, sequence, packet, FragmentMap, answer,
                    overlapped, abandoned>>
    BY <1>1 DEF szlVars
  <2>2. SzlTypeOK' /\ (Reliable' <=> Reliable)
    BY <2>1 DEF LInv, SzlTypeOK, Reliable
  <2>3. ASSUME NEW w \in Workers
        PROVE  (Resting(w)' <=> Resting(w)) /\ (Phase(w)' <=> Phase(w))
    <3>1. HasSent(w)' <=> HasSent(w)
      BY <2>1 DEF HasSent, Entry, Current
    <3>2. (Resting(w)' <=> Resting(w)) /\ (Pausing(w)' <=> Pausing(w))
      BY <2>1, <3>1 DEF Resting, Pausing, NoEntry, Current
    <3>3. Beginning(w)' <=> Beginning(w)
      BY <2>1 DEF Beginning, NoEntry, Current
    <3>4. Opening(w)' <=> Opening(w)
      BY <2>1 DEF Opening, Entry, Current
    <3>5. Continuing(w)' <=> Continuing(w)
      BY <2>1, <3>1 DEF Continuing, Current
    <3> QED
      BY <3>2, <3>3, <3>4, <3>5 DEF Phase
  <2> QED
    <3>1. ASSUME Reliable'
          PROVE  OneList'
      <4>1. OneList /\ Reliable
        BY <2>2, <3>1 DEF LInv
      <4> HIDE DEF OneList, Phase, Resting
      <4> QED
        BY <2>1, <2>3, <4>1 DEF OneList
    <3> QED
      BY <2>2, <3>1 DEF LInv, OneList
<1>2. ASSUME NEW w \in Workers, PerformGroupSZL(w)
      PROVE  LInv'
  <2>1. CASE ReadShort(w) \/ ReadAbsent(w)
    BY <1>1, <2>1 DEF ReadShort, ReadAbsent
  <2>2. CASE ReadNext(w)
    <3>1. pc[w] = "idle"
      BY <2>2 DEF ReadNext
    <3>2. PICK s \in Numbers : SZLSendContinuation(w, s) \/ WrongNumber(w, s)
      BY <2>2 DEF ReadNext
    <3> QED
      BY <1>1, <3>1, <3>2, ContinuationStep DEF WrongNumber
  <2> QED
    BY <1>2, <2>1, <2>2, ReadLongStep, CountingSteps, SendAnswerStep, DecreaseSteps,
       CurrentUnitStep, SendStep DEF PerformGroupSZL
<1>3. ASSUME NEW w \in uses.workers, w \in Workers, Worker(w) \/ NewConnection(w)
      PROVE  LInv'
  <2>1. CASE AnswerControl(w) \/ CarryOut(w) \/ ReadStatus(w) \/ Serve(w) \/ SZLSystemState(w)
             \/ VarTab(w) \/ UseJobs(w)
    BY <1>1, <2>1 DEF AnswerControl, CarryOut, ReadStatus, Serve, SZLSystemState, VarTab, UseJobs, vars
  <2>2. CASE ReadLists(w)
    BY <1>2, <1>3, <2>2 DEF ReadLists
  <2>3. CASE NewConnection(w)
    BY <1>3, <2>3, ReconnectStep DEF NewConnection
  <2> QED
    BY <1>3, <2>1, <2>2, <2>3 DEF Worker
<1>4. CASE Tick
  BY <1>1, <1>4 DEF Tick
<1>5. CASE UNCHANGED vars
  BY <1>1, <1>5 DEF vars
<1>6. uses.workers \subseteq Workers
  BY MixesAssumption
<1> QED
  BY <1>3, <1>4, <1>5, <1>6 DEF Next

\* Nobody has asked for a list.
LEMMA ListsInitial ==
    ASSUME Init
    PROVE  LInv
<1>1. SzlTypeOK
  BY DEF Init, SzlInit, SzlTypeOK, SzlPlaces, Counters
<1>2. \A w \in Workers : Resting(w)
  BY DEF Init, SzlInit, Resting, NoEntry, NoPacket
<1>3. counter["sequence_nr"] = abandoned
  BY DEF Init, SzlInit, Counters
<1> QED
  BY <1>1, <1>2, <1>3 DEF LInv, OneList, Phase

\* What is known of the partial lists stays true.
THEOREM ListsInductive == Spec => [](LInv /\ uses \in Mixes)
<1>1. Init => LInv /\ uses \in Mixes
  BY ListsInitial DEF Init
<1>2. LInv /\ uses \in Mixes /\ [Next]_vars => (LInv /\ uses \in Mixes)'
  BY ListsStep
<1> QED
  BY <1>1, <1>2, PTL DEF Spec

\* As long as one list is read at a time and the abandoned ones have not used up
\* the byte, the number a packet carries leads to the next fragment of its list
\* (SZLSendAnswer, SZLPrepareAnswerHeader).
THEOREM ListsGoOn == Spec => []Continues
<1>1. LInv => Continues
  <2> SUFFICES ASSUME LInv, Reliable, NEW w \in Workers, pc[w] = "idle", ~answer[w].last
               PROVE  FragmentMap[w][answer[w].Seq] = Fragments(answer[w].list, answer[w].n + 1)
    BY DEF Continues
  <2>1. HasSent(w)
    BY DEF LInv, OneList, Phase, Resting, Pausing, Beginning, Opening, Continuing
  <2>2. Current \in Numbers
    BY SeqMaxAssumption DEF LInv, SzlTypeOK, Reliable, Current, Numbers
  <2> QED
    BY <2>1, <2>2 DEF HasSent, Entry
<1> QED
  BY <1>1, ListsInductive, PTL

\* The packets of a list are sent in order and under one number, and only the
\* last one says that it is the last (SZLSendContinuation).
THEOREM PacketsInTurn == Spec => []InTurn
<1>1. LInv => InTurn
  <2> SUFFICES ASSUME LInv, Reliable, NEW w \in Workers, pc[w] = "send", packet[w].n > 1
               PROVE  packet[w] = [Packet(answer[w].list, answer[w].n + 1)
                                      EXCEPT !.Seq = answer[w].Seq, !.durn = packet[w].durn]
    BY DEF InTurn
  <2>1. ~Opening(w)
    <3>1. Opening(w) => packet[w].n = 1
      BY DEF Opening, Packet
    <3> QED
      BY <3>1
  <2>2. Continuing(w)
    BY <2>1 DEF LInv, OneList, Phase, Resting, Pausing, Beginning
  <2> QED
    BY <2>2 DEF Continuing, HasSent
<1> QED
  BY <1>1, ListsInductive, PTL
=============================================================================
