----------------------------- MODULE SqlHelper ------------------------------
(***************************************************************************)
(* SqlHelper of src/PagodaTree/src/indi/hiro/pagoda/SqlHelper.java: the    *)
(* terminal threads and the detector put SQL statements in a queue, one    *)
(* thread takes them out and executes them on a connection it opens when   *)
(* there is work and closes when there has been none for a while.          *)
(*                                                                         *)
(* enqueue is two steps, the append and the notify, so that the notify can *)
(* come while the thread is not waiting and be lost.  The monitor itself   *)
(* is never held from one step to the next.                                *)
(***************************************************************************)
EXTENDS Naturals, Sequences

CONSTANTS
    Producers,      \* threads that call enqueue
    MaxStatements   \* how many statements each of them sends (a bound)

ASSUME StatementsAssumption == MaxStatements \in Nat

VARIABLES
    SYSTEM_RUNNING,
    halted,         \* System.exit has ended the process
    producer,       \* [Producers -> {"idle", "notify"}]
    sent,           \* [Producers -> number of statements sent]
    sqlQueue,
    pc,             \* where the SqlConnection thread is
    sql,            \* <<>>, or the statement in its hands: <<s>>
    firstLoop,
    connection,     \* "null", "open" or "closed"
    statement,      \* "null", "open" or "closed"
    added, done     \* history: statements as enqueued, and as executed

vars == <<SYSTEM_RUNNING, halted, producer, sent, sqlQueue, pc, sql, firstLoop,
          connection, statement, added, done>>

system == <<SYSTEM_RUNNING, halted>>
producers == <<producer, sent, added>>
session == <<connection, statement>>
work == <<sqlQueue, sql, firstLoop, done>>

Statements == Producers \X (1 .. MaxStatements)
Outcomes == {"executed", "failed"}
Labels == {"test", "lock", "waiting", "poll", "execute", "close", "bye", "ended"}

Init ==
    /\ SYSTEM_RUNNING = TRUE
    /\ halted = FALSE
    /\ producer = [p \in Producers |-> "idle"]
    /\ sent = [p \in Producers |-> 0]
    /\ sqlQueue = <<>>
    /\ pc = "test"
    /\ sql = <<>>
    /\ firstLoop = FALSE
    /\ connection = "null"
    /\ statement = "null"
    /\ added = <<>>
    /\ done = <<>>

-----------------------------------------------------------------------------
(* enqueue *)

Add(p) ==
    /\ ~halted
    /\ producer[p] = "idle"
    /\ sent[p] < MaxStatements
    /\ LET s == <<p, sent[p] + 1>>
       IN  sqlQueue' = Append(sqlQueue, s) /\ added' = Append(added, s)
    /\ sent' = [sent EXCEPT ![p] = @ + 1]
    /\ producer' = [producer EXCEPT ![p] = "notify"]
    /\ UNCHANGED <<pc, sql, firstLoop, done, system, session>>

\* Without a waiting thread a notify is lost.
Notify(p) ==
    /\ ~halted
    /\ producer[p] = "notify"
    /\ producer' = [producer EXCEPT ![p] = "idle"]
    /\ IF pc = "waiting"
       THEN pc' = "poll" /\ firstLoop' = TRUE
       ELSE UNCHANGED <<pc, firstLoop>>
    /\ UNCHANGED <<sent, added, sqlQueue, sql, done, system, session>>

-----------------------------------------------------------------------------
(* The SqlConnection thread *)

\* while (Terminal.SYSTEM_RUNNING)
Test ==
    /\ pc = "test"
    /\ pc' = IF SYSTEM_RUNNING THEN "lock" ELSE "bye"
    /\ UNCHANGED <<system, producers, session, work>>

\* synchronized (lock) { lock.wait(30000) }: nobody looks at sqlQueue here.
Wait ==
    /\ pc = "lock"
    /\ pc' = "waiting"
    /\ UNCHANGED <<system, producers, session, work>>

\* Defect: wait() instead of wait(30000).
NeverTimeout == FALSE /\ UNCHANGED vars

WaitTimeout ==
    /\ pc = "waiting"
    /\ pc' = "poll"
    /\ firstLoop' = TRUE
    /\ UNCHANGED <<sqlQueue, sql, done, system, producers, session>>

\* Defect: the statement is looked at and stays in the queue.
Peek ==
    /\ pc = "poll"
    /\ sqlQueue # <<>>
    /\ sql' = <<Head(sqlQueue)>>
    /\ firstLoop' = FALSE
    /\ pc' = "execute"
    /\ UNCHANGED <<sqlQueue, done, system, producers, session>>

Poll ==
    /\ pc = "poll"
    /\ sqlQueue # <<>>
    /\ sql' = <<Head(sqlQueue)>>
    /\ sqlQueue' = Tail(sqlQueue)
    /\ firstLoop' = FALSE
    /\ pc' = "execute"
    /\ UNCHANGED <<done, system, producers, session>>

\* Defect: the connection is kept when there is nothing to do.
PollEmptyIdle ==
    /\ pc = "poll"
    /\ sqlQueue = <<>>
    /\ pc' = "test"
    /\ UNCHANGED <<system, producers, session, work>>

PollEmpty ==
    /\ pc = "poll"
    /\ sqlQueue = <<>>
    /\ pc' = IF firstLoop THEN "close" ELSE "test"
    /\ UNCHANGED <<system, producers, session, work>>

Executed(outcome) ==
    /\ done' = Append(done, <<sql[1], outcome>>)
    /\ sql' = <<>>
    /\ pc' = "poll"
    /\ UNCHANGED <<sqlQueue, firstLoop, system, producers>>

\* executeSql: connect if need be, then a statement if need be, then execute.
\* Each may throw SQLException, and the statement is given up.
Disconnected == connection # "open"

ConnectFails ==
    /\ pc = "execute"
    /\ Disconnected
    /\ Executed("failed")
    /\ UNCHANGED session

CreateStatementFails ==
    /\ pc = "execute"
    /\ Disconnected \/ statement # "open"
    /\ connection' = "open"
    /\ Executed("failed")
    /\ UNCHANGED statement

\* The server refuses the statement, or is lost: the driver then closes the
\* connection and with it the statement.
ExecuteFails ==
    /\ pc = "execute"
    /\ \/ connection' = "open" /\ statement' = "open"
       \/ connection' = "closed" /\ statement' = "closed"
    /\ Executed("failed")

ExecuteSql ==
    /\ pc = "execute"
    /\ connection' = "open"
    /\ statement' = "open"
    /\ Executed("executed")

\* Defect: only the connection is closed, and the statement not replaced.
CloseConnectionOnly ==
    /\ pc \in {"close", "bye"}
    /\ connection' = IF connection = "open" THEN "closed" ELSE connection
    /\ pc' = IF pc = "close" THEN "test" ELSE "ended"
    /\ UNCHANGED <<statement, system, producers, work>>

CloseConnection ==
    /\ pc \in {"close", "bye"}
    /\ statement' = "null"
    /\ connection' = IF connection = "open" THEN "closed" ELSE connection
    /\ pc' = IF pc = "close" THEN "test" ELSE "ended"
    /\ UNCHANGED <<system, producers, work>>

\* statement.close() throws, or connection.close() does.
CloseFails ==
    /\ pc \in {"close", "bye"}
    /\ \/ statement = "open" /\ UNCHANGED statement
       \/ connection = "open" /\ statement' = "null"
    /\ pc' = IF pc = "close" THEN "test" ELSE "ended"
    /\ UNCHANGED <<connection, system, producers, work>>

SqlThread ==
    /\ ~halted
    /\ \/ Test
       \/ Wait
       \/ WaitTimeout
       \/ Poll
       \/ PollEmpty
       \/ ConnectFails
       \/ CreateStatementFails
       \/ ExecuteFails
       \/ ExecuteSql
       \/ CloseConnection
       \/ CloseFails

-----------------------------------------------------------------------------
(* Terminal.exit, called by the thread of a terminal *)

Exit ==
    /\ SYSTEM_RUNNING
    /\ SYSTEM_RUNNING' = FALSE
    /\ UNCHANGED <<halted, pc, producers, session, work>>

\* System.exit(0), three seconds later.
Halt ==
    /\ ~SYSTEM_RUNNING
    /\ ~halted
    /\ halted' = TRUE
    /\ UNCHANGED <<SYSTEM_RUNNING, pc, producers, session, work>>

Next ==
    \/ SqlThread
    \/ \E p \in Producers : Add(p) \/ Notify(p)
    \/ Exit
    \/ Halt

Spec == Init /\ [][Next]_vars

\* The thread runs, its timer runs out, and an idle connection can be closed
\* at one of the attempts.
Fairness ==
    /\ WF_vars(SqlThread)
    /\ \A p \in Producers : WF_vars(Notify(p))
    /\ SF_vars(~halted /\ CloseConnection)

FairSpec == Spec /\ Fairness

-----------------------------------------------------------------------------
(* Properties *)

\* Every variable keeps its type.
TypeOK ==
    /\ SYSTEM_RUNNING \in BOOLEAN /\ halted \in BOOLEAN /\ firstLoop \in BOOLEAN
    /\ producer \in [Producers -> {"idle", "notify"}]
    /\ sent \in [Producers -> 0 .. MaxStatements]
    /\ sqlQueue \in Seq(Statements)
    /\ pc \in Labels
    /\ sql \in {<<>>} \cup {<<s>> : s \in Statements}
    /\ connection \in {"null", "open", "closed"}
    /\ statement \in {"null", "open", "closed"}
    /\ added \in Seq(Statements)
    /\ done \in Seq(Statements \X Outcomes)

\* A statement that executeSql takes for usable belongs to an open connection,
\* whichever of the calls before has failed.
StatementUsable == statement = "open" => connection = "open"

\* Each statement is executed or given up once and in the order of enqueue:
\* none is lost between the queue and the database, or overtakes another.
InOrder == added = [i \in DOMAIN done |-> done[i][1]] \o sql \o sqlQueue

Waiting(p) == \E i \in DOMAIN sqlQueue : sqlQueue[i][1] = p

\* What a thread has sent never stays in the queue: where its notify is lost,
\* the timeout of wait finds it (exit may leave it).
Drained == \A p \in Producers : Waiting(p) ~> (~Waiting(p) \/ ~SYSTEM_RUNNING)

\* "else if (firstLoop) closeConnection()" (SqlHelper.java:100): a connection
\* nobody needs is not kept for ever.
Disconnects == []<>(connection # "open" \/ ~SYSTEM_RUNNING)
=============================================================================
