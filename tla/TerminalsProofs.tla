--------------------------- MODULE TerminalsProofs ---------------------------
(***************************************************************************)
(* Proofs about SqlHelper, for any number of threads and statements and    *)
(* any failures of JDBC, and about the process it runs in, for any         *)
(* terminals, pipes and lines: what is proved of the SqlHelper alone is    *)
(* carried over to the process, which takes the SqlHelper's own steps.     *)
(* Then the lines that cross the pipes, and the numbers of the terminals.  *)
(***************************************************************************)
EXTENDS Terminals, SequenceTheorems, TLAPS

-----------------------------------------------------------------------------
(* Sequences *)

\* Taking the head of one sequence to the end of another changes nothing in
\* the two together.
LEMMA MoveHead ==
    ASSUME NEW S, NEW s \in Seq(S), NEW t \in Seq(S), t # <<>>
    PROVE  s \o t = (s \o <<Head(t)>>) \o Tail(t)
<1>1. /\ Head(t) \in S /\ Tail(t) \in Seq(S) /\ Len(Tail(t)) = Len(t) - 1
      /\ \A i \in 1 .. Len(Tail(t)) : Tail(t)[i] = t[i + 1]
  BY HeadTailProperties
<1>2. t = <<Head(t)>> \o Tail(t)
  <2>1. <<Head(t)>> \in Seq(S) /\ Len(<<Head(t)>>) = 1 /\ Len(t) \in Nat \ {0}
    BY <1>1, EmptySeq
  <2>2. Len(<<Head(t)>> \o Tail(t)) = Len(t)
    BY <1>1, <2>1, ConcatProperties
  <2>3. ASSUME NEW i \in 1 .. Len(t) PROVE t[i] = (<<Head(t)>> \o Tail(t))[i]
    BY <1>1, <2>1, ConcatProperties
  <2> QED
    BY <1>1, <2>1, <2>2, <2>3, ConcatProperties, SeqEqual
<1> QED
  BY <1>1, <1>2, ConcatAssociative

-----------------------------------------------------------------------------
(* The inductive invariant *)

Handled == [i \in DOMAIN done |-> done[i][1]]

\* The thread has a statement in its hands exactly when it is to execute it.
Hands == sql # <<>> <=> pc = "execute"

IInv == TypeOK /\ StatementUsable /\ InOrder /\ Hands

\* A statement that is executed moves from the hands to the history.
LEMMA HandledAppend ==
    ASSUME TypeOK, NEW s \in Statements, NEW o \in Outcomes,
           done' = Append(done, <<s, o>>)
    PROVE  Handled' = Handled \o <<s>>
<1>1. done \in Seq(Statements \X Outcomes) /\ <<s, o>> \in Statements \X Outcomes
  BY DEF TypeOK
<1>2. /\ Len(done') = Len(done) + 1 /\ Len(done) \in Nat
      /\ DOMAIN done' = 1 .. Len(done) + 1 /\ DOMAIN done = 1 .. Len(done)
      /\ \A i \in 1 .. Len(done) : done'[i] = done[i]
      /\ done'[Len(done) + 1] = <<s, o>>
  BY <1>1, AppendProperties, LenProperties
<1>3. Handled \in Seq(Statements)
  <2>1. \A i \in 1 .. Len(done) : done[i] \in Statements \X Outcomes
    BY <1>1, <1>2, ElementOfSeq
  <2> QED
    BY <1>2, <2>1 DEF Handled
<1>4. Len(Handled) = Len(done)
  BY <1>2 DEF Handled
<1>5. Handled' = [i \in 1 .. Len(done) + 1 |-> done'[i][1]]
  BY <1>2 DEF Handled
<1>6. <<s>> \in Seq(Statements) /\ Len(<<s>>) = 1 /\ <<s>>[1] = s
  OBVIOUS
<1>7. /\ Handled \o <<s>> \in Seq(Statements)
      /\ Len(Handled \o <<s>>) = Len(done) + 1
      /\ \A i \in 1 .. Len(done) : (Handled \o <<s>>)[i] = done[i][1]
      /\ (Handled \o <<s>>)[Len(done) + 1] = s
  <2>1. \A i \in 1 .. Len(Handled) : Handled[i] = done[i][1]
    BY <1>2, <1>4 DEF Handled
  <2>2. /\ Handled \o <<s>> \in Seq(Statements)
        /\ Len(Handled \o <<s>>) = Len(Handled) + Len(<<s>>)
        /\ \A i \in 1 .. Len(Handled) + Len(<<s>>) : (Handled \o <<s>>)[i] =
               IF i <= Len(Handled) THEN Handled[i] ELSE <<s>>[i - Len(Handled)]
    BY <1>3, <1>6, ConcatProperties
  <2> QED
    BY <1>2, <1>4, <1>6, <2>1, <2>2
<1>8. Handled \o <<s>> = [i \in 1 .. Len(done) + 1 |-> (Handled \o <<s>>)[i]]
  BY <1>2, <1>7, LenProperties
<1>9. ASSUME NEW i \in 1 .. Len(done) + 1 PROVE (Handled \o <<s>>)[i] = done'[i][1]
  BY <1>2, <1>7
<1> QED
  BY <1>5, <1>8, <1>9

LEMMA HandledType ==
    ASSUME TypeOK
    PROVE  Handled \in Seq(Statements)
<1>1. done \in Seq(Statements \X Outcomes)
  BY DEF TypeOK
<1>2. DOMAIN done = 1 .. Len(done) /\ Len(done) \in Nat
  BY <1>1, LenProperties
<1>3. \A i \in 1 .. Len(done) : done[i] \in Statements \X Outcomes
  BY <1>1, <1>2, ElementOfSeq
<1> QED
  BY <1>2, <1>3 DEF Handled

-----------------------------------------------------------------------------
(* Each step keeps the invariant *)

\* executeSql, whatever comes of it: one outcome for the statement in hand, and
\* no usable statement object without its connection.
Executing == ConnectFails \/ CreateStatementFails \/ ExecuteFails \/ ExecuteSql

LEMMA ExecutingStep ==
    ASSUME IInv, Executing
    PROVE  /\ pc = "execute"
           /\ \E o \in Outcomes : Executed(o)
           /\ connection' \in {"null", "open", "closed"}
           /\ statement' \in {"null", "open", "closed"}
           /\ StatementUsable'
<1> USE DEF IInv, TypeOK, StatementUsable, Outcomes
<1>1. CASE ConnectFails
  BY <1>1 DEF ConnectFails, session
<1>2. CASE CreateStatementFails
  BY <1>2 DEF CreateStatementFails
<1>3. CASE ExecuteFails
  BY <1>3 DEF ExecuteFails
<1>4. CASE ExecuteSql
  BY <1>4 DEF ExecuteSql
<1> QED
  BY <1>1, <1>2, <1>3, <1>4 DEF Executing

\* The statement in hand, and what becomes of it.
LEMMA ExecutedHead ==
    ASSUME IInv, pc = "execute", NEW o \in Outcomes, Executed(o)
    PROVE  /\ sql[1] \in Statements /\ sql = <<sql[1]>>
           /\ done' \in Seq(Statements \X Outcomes)
           /\ Handled' = Handled \o sql
<1>1. sql[1] \in Statements /\ sql = <<sql[1]>>
  BY DEF IInv, TypeOK, Hands
<1>2. done' = Append(done, <<sql[1], o>>) /\ done \in Seq(Statements \X Outcomes)
  BY DEF Executed, IInv, TypeOK
<1>3. Handled' = Handled \o <<sql[1]>>
  BY <1>1, <1>2, HandledAppend DEF IInv
<1>4. <<sql[1], o>> \in Statements \X Outcomes
  BY <1>1
<1> QED
  BY <1>1, <1>2, <1>3, <1>4, AppendProperties

LEMMA TypeStep ==
    ASSUME IInv, [Next]_vars
    PROVE  TypeOK'
<1> USE DEF system, producers, session, work
<1>0. TypeOK /\ MaxStatements \in Nat
  BY StatementsAssumption DEF IInv
<1>1. CASE UNCHANGED vars
  BY <1>0, <1>1 DEF TypeOK, vars
<1>2. ASSUME NEW p \in Producers, Add(p) PROVE TypeOK'
  <2>1. sent[p] + 1 \in 1 .. MaxStatements
    BY <1>0, <1>2 DEF Add, TypeOK
  <2>2. <<p, sent[p] + 1>> \in Statements
    BY <2>1 DEF Statements
  <2>3. sqlQueue' \in Seq(Statements) /\ added' \in Seq(Statements)
    BY <1>0, <1>2, <2>2, AppendProperties DEF Add, TypeOK
  <2>4. sent' \in [Producers -> 0 .. MaxStatements] /\ producer' \in [Producers -> {"idle", "notify"}]
    BY <1>0, <1>2, <2>1 DEF Add, TypeOK
  <2> QED
    BY <1>0, <1>2, <2>3, <2>4 DEF Add, TypeOK
<1>3. ASSUME NEW p \in Producers, Notify(p) PROVE TypeOK'
  BY <1>0, <1>3 DEF Notify, TypeOK, Labels
<1>4. CASE Test \/ Wait \/ WaitTimeout \/ PollEmpty \/ CloseConnection \/ CloseFails
  BY <1>0, <1>4 DEF Test, Wait, WaitTimeout, PollEmpty, CloseConnection, CloseFails, TypeOK, Labels
<1>5. CASE Poll
  <2>1. Head(sqlQueue) \in Statements /\ Tail(sqlQueue) \in Seq(Statements)
    BY <1>0, <1>5, HeadTailProperties DEF Poll, TypeOK
  <2> QED
    BY <1>0, <1>5, <2>1 DEF Poll, TypeOK, Labels
<1>6. CASE Executing
  <2>1. PICK o \in Outcomes : Executed(o)
    BY <1>6, ExecutingStep
  <2>2. done' \in Seq(Statements \X Outcomes)
    BY <1>6, <2>1, ExecutingStep, ExecutedHead
  <2>3. connection' \in {"null", "open", "closed"} /\ statement' \in {"null", "open", "closed"}
    BY <1>6, ExecutingStep
  <2> QED
    BY <1>0, <2>1, <2>2, <2>3 DEF Executed, TypeOK, Labels
<1>7. CASE Exit \/ Halt
  BY <1>0, <1>7 DEF Exit, Halt, TypeOK
<1> QED
  BY <1>1, <1>2, <1>3, <1>4, <1>5, <1>6, <1>7 DEF Next, SqlThread, Executing

LEMMA UsableStep ==
    ASSUME IInv, [Next]_vars
    PROVE  StatementUsable' /\ Hands'
<1> USE DEF system, producers, session, work
<1>0. TypeOK /\ StatementUsable /\ Hands
  BY DEF IInv
<1>1. CASE UNCHANGED vars
  BY <1>0, <1>1 DEF StatementUsable, Hands, vars
<1>2. ASSUME NEW p \in Producers, Add(p) \/ Notify(p) PROVE StatementUsable' /\ Hands'
  BY <1>0, <1>2 DEF Add, Notify, StatementUsable, Hands
<1>3. CASE Test \/ Wait \/ WaitTimeout \/ PollEmpty \/ Exit \/ Halt
  BY <1>0, <1>3 DEF Test, Wait, WaitTimeout, PollEmpty, Exit, Halt, StatementUsable, Hands
<1>4. CASE CloseConnection \/ CloseFails
  BY <1>0, <1>4 DEF CloseConnection, CloseFails, StatementUsable, Hands
<1>5. CASE Poll
  BY <1>0, <1>5 DEF Poll, StatementUsable, Hands
<1>6. CASE Executing
  <2>1. PICK o \in Outcomes : Executed(o)
    BY <1>6, ExecutingStep
  <2>2. Hands'
    BY <2>1 DEF Executed, Hands
  <2> QED
    BY <1>6, <2>2, ExecutingStep
<1> QED
  BY <1>1, <1>2, <1>3, <1>4, <1>5, <1>6 DEF Next, SqlThread, Executing

LEMMA OrderStep ==
    ASSUME IInv, [Next]_vars
    PROVE  InOrder'
<1> USE DEF system, producers, session, work
<1>0. /\ added = (Handled \o sql) \o sqlQueue /\ Hands
      /\ Handled \in Seq(Statements) /\ sql \in Seq(Statements) /\ sqlQueue \in Seq(Statements)
      /\ added \in Seq(Statements)
  <2>1. TypeOK /\ InOrder /\ Hands
    BY DEF IInv
  <2>2. sqlQueue \in Seq(Statements) /\ added \in Seq(Statements)
    BY <2>1 DEF TypeOK
  <2>3. sql \in Seq(Statements)
    <3>1. CASE sql = <<>>
      BY <3>1, EmptySeq
    <3>2. ASSUME NEW s \in Statements, sql = <<s>> PROVE sql \in Seq(Statements)
      BY <3>2
    <3> QED
      BY <2>1, <3>1, <3>2 DEF TypeOK
  <2> QED
    BY <2>1, <2>2, <2>3, HandledType DEF InOrder, Handled
<1>1. SUFFICES added' = (Handled' \o sql') \o sqlQueue'
  BY DEF InOrder, Handled
<1>2. CASE UNCHANGED <<added, done, sql, sqlQueue>>
  BY <1>0, <1>2 DEF Handled
<1>3. ASSUME NEW p \in Producers, Add(p) PROVE added' = (Handled' \o sql') \o sqlQueue'
  <2> DEFINE s == <<p, sent[p] + 1>>
  <2>1. s \in Statements
    <3>1. sent[p] + 1 \in 1 .. MaxStatements
      BY <1>3, StatementsAssumption DEF Add, IInv, TypeOK
    <3> QED
      BY <3>1 DEF Statements
  <2>2. /\ added' = Append(added, s) /\ sqlQueue' = Append(sqlQueue, s)
        /\ Handled' = Handled /\ sql' = sql
    BY <1>3 DEF Add, Handled
  <2> HIDE DEF s
  <2>3. added' = added \o <<s>> /\ sqlQueue' = sqlQueue \o <<s>>
    BY <1>0, <2>1, <2>2, AppendIsConcat
  <2>4. Handled \o sql \in Seq(Statements) /\ <<s>> \in Seq(Statements)
    BY <1>0, <2>1, ConcatProperties
  <2>5. ((Handled \o sql) \o sqlQueue) \o <<s>> = (Handled \o sql) \o (sqlQueue \o <<s>>)
    BY <1>0, <2>4, ConcatAssociative
  <2> QED
    BY <1>0, <2>2, <2>3, <2>5
<1>4. CASE Poll
  <2>1. sql = <<>> /\ sqlQueue # <<>> /\ UNCHANGED <<added, Handled>>
    BY <1>0, <1>4 DEF Poll, Hands, Handled
  <2>2. sql' = <<Head(sqlQueue)>> /\ sqlQueue' = Tail(sqlQueue)
    BY <1>4 DEF Poll
  <2>3. Handled \o sql = Handled
    BY <1>0, <2>1, ConcatEmptySeq
  <2>4. Handled \o sqlQueue = (Handled \o <<Head(sqlQueue)>>) \o Tail(sqlQueue)
    BY <1>0, <2>1, MoveHead
  <2> QED
    BY <1>0, <2>1, <2>2, <2>3, <2>4
<1>5. CASE Executing
  <2>1. PICK o \in Outcomes : Executed(o)
    BY <1>5, ExecutingStep
  <2>2. Handled' = Handled \o sql
    BY <1>5, <2>1, ExecutingStep, ExecutedHead
  <2>3. sql' = <<>> /\ UNCHANGED <<added, sqlQueue>>
    BY <2>1 DEF Executed
  <2>4. (Handled \o sql) \o <<>> = Handled \o sql
    BY <1>0, ConcatProperties, ConcatEmptySeq
  <2> QED
    BY <1>0, <2>2, <2>3, <2>4
<1> QED
  <2>1. Test \/ Wait \/ WaitTimeout \/ PollEmpty => UNCHANGED <<added, done, sql, sqlQueue>>
    BY DEF Test, Wait, WaitTimeout, PollEmpty
  <2>2. CloseConnection \/ CloseFails \/ Exit \/ Halt => UNCHANGED <<added, done, sql, sqlQueue>>
    BY DEF CloseConnection, CloseFails, Exit, Halt
  <2>3. (\E p \in Producers : Notify(p)) => UNCHANGED <<added, done, sql, sqlQueue>>
    BY DEF Notify
  <2>4. UNCHANGED vars => UNCHANGED <<added, done, sql, sqlQueue>>
    BY DEF vars
  <2> QED
    BY <1>2, <1>3, <1>4, <1>5, <2>1, <2>2, <2>3, <2>4 DEF Next, SqlThread, Executing

LEMMA InitInvariant == Init => IInv
<1> SUFFICES ASSUME Init PROVE IInv
  OBVIOUS
<1>1. TypeOK
  <2>1. <<>> \in Seq(Statements) /\ <<>> \in Seq(Statements \X Outcomes)
    BY EmptySeq
  <2>2. producer \in [Producers -> {"idle", "notify"}] /\ sent \in [Producers -> 0 .. MaxStatements]
    BY StatementsAssumption DEF Init
  <2> QED
    BY <2>1, <2>2 DEF Init, TypeOK, Labels
<1>2. StatementUsable /\ Hands
  BY DEF Init, StatementUsable, Hands
<1>3. Handled = <<>>
  BY DEF Init, Handled
<1>4. Handled \o sql = <<>> /\ <<>> \o sqlQueue = <<>>
  BY <1>3 DEF Init
<1>5. InOrder
  BY <1>3, <1>4 DEF Init, InOrder, Handled
<1> QED
  BY <1>1, <1>2, <1>5 DEF IInv

-----------------------------------------------------------------------------
(* Theorems *)

\* The invariant is inductive.
THEOREM Inductive == Spec => []IInv
<1>1. IInv /\ [Next]_vars => IInv'
  BY TypeStep, UsableStep, OrderStep DEF IInv
<1> QED
  BY <1>1, InitInvariant, PTL DEF Spec

\* Every variable of SqlHelper.java keeps its type.
THEOREM TypeCorrect == Spec => []TypeOK
<1>1. IInv => TypeOK
  BY DEF IInv
<1> QED
  BY <1>1, Inductive, PTL

\* A statement object that executeSql goes on to use (SqlHelper.java:116) is one
\* of an open connection, whichever JDBC calls have failed before.
THEOREM StatementsUsable == Spec => []StatementUsable
<1>1. IInv => StatementUsable
  BY DEF IInv
<1> QED
  BY <1>1, Inductive, PTL

\* What the terminals put in with enqueue is executed or given up once and in
\* that order, whenever notifies are lost, waits time out and calls fail.
THEOREM OrderKept == Spec => []InOrder
<1>1. IInv => InOrder
  BY DEF IInv
<1> QED
  BY <1>1, Inductive, PTL

-----------------------------------------------------------------------------
(* The process *)

\* What the thread of a terminal does is a step of the SqlHelper's environment,
\* an enqueue or an exit, or is nothing the SqlHelper sees.
LEMMA ThreadStep ==
    ASSUME NEW t \in Terminal, Thread(t)
    PROVE  [Next]_vars
<1>0. t \in Producers
  BY TerminalsAssumption
<1>1. CASE EnqueueAdd(t)
  BY <1>0, <1>1 DEF EnqueueAdd, Next
<1>2. CASE EnqueueNotify(t)
  BY <1>0, <1>2 DEF EnqueueNotify, Next
<1>3. CASE ExitCommand(t)
  BY <1>3 DEF ExitCommand, Next
<1>4. CASE Loop(t) \/ ReadLine(t) \/ ReadNull(t)
  BY <1>4 DEF Loop, ReadLine, ReadNull
<1>5. CASE Enter(t) \/ OutOfBounds(t) \/ Write(t) \/ NewLine(t) \/ Flush(t)
  BY <1>5 DEF Enter, OutOfBounds, Write, NewLine, Buffer, Flush
<1>6. CASE Exec(t) \/ ExecFails(t) \/ AddTerminal(t)
  BY <1>6 DEF Exec, ExecFails, AddTerminal
<1> QED
  BY <1>1, <1>2, <1>3, <1>4, <1>5, <1>6 DEF Thread

\* The processes at the other ends of the pipes do not touch the SqlHelper.
LEMMA ProcessStep ==
    ASSUME NEW t \in Terminal, PrintLine(t) \/ ReadInput(t) \/ End(t)
    PROVE  UNCHANGED vars
  BY DEF PrintLine, ReadInput, End

\* Every step of the process maps to a step of SqlHelper or to a stutter.
LEMMA PagodaStep ==
    ASSUME [PagodaNext]_pagoda
    PROVE  [Next]_vars
<1>1. CASE UNCHANGED pagoda
  BY <1>1 DEF pagoda
<1>2. CASE \E t \in Terminal : Thread(t) \/ (~halted /\ (PrintLine(t) \/ ReadInput(t) \/ End(t)))
  BY <1>2, ThreadStep, ProcessStep
<1>3. CASE Helper
  BY <1>3 DEF Helper, Next
<1>4. CASE Detector
  <2>1. PICK p \in Producers : Add(p) \/ Notify(p)
    BY <1>4 DEF Detector
  <2> QED
    BY <2>1 DEF Next
<1>5. CASE SystemExit
  BY <1>5 DEF SystemExit, Next
<1> QED
  BY <1>1, <1>2, <1>3, <1>4, <1>5 DEF PagodaNext

\* By construction: Terminals takes the steps of SqlHelper as they are.  It is
\* what carries the theorems about SqlHelper over to the process.
LEMMA ProcessUsesSqlHelper == PagodaSpec => Spec
<1>1. PagodaInit => Init
  BY DEF PagodaInit
<1>2. [PagodaNext]_pagoda => [Next]_vars
  BY PagodaStep
<1> QED
  BY <1>1, <1>2, PTL DEF PagodaSpec, Spec

-----------------------------------------------------------------------------
(* The inductive invariant *)

Steps == {"none", "loop", "read", "ended", "enqueue", "notify", "enter", "write", "newLine",
          "flush", "exec", "add", "exit", "sleep"}
InMonitor == {"write", "newLine", "flush"}
Units == {"text", "newline"}
WholeLine == <<"text", "newline">>

Whole(s) ==
    /\ s \in Seq(Units)
    /\ Len(s) % 2 = 0
    /\ \A i \in DOMAIN s : s[i] = IF i % 2 = 1 THEN "text" ELSE "newline"

PagodaTypeOK ==
    /\ mix \in Mixes
    /\ TERMINALS \in Seq(Terminal)
    /\ monitor \in Terminal \cup {Nobody}
    /\ thread \in [Terminal -> Steps]
    /\ index \in [Terminal -> Int]
    /\ target \in [Terminal -> Terminal \cup {Nobody}]
    /\ running \subseteq Terminal
    /\ stdOut \in [Terminal -> Seq(Lines)]
    /\ stdIn \in [Terminal -> Seq(Units)]
    /\ writer \in [Terminal -> Seq(Units)]
    /\ announced \in Seq([terminal : Terminal, index : Nat])

\* One thread writes at a time, and it is the one that holds the monitor.
Inside == \A t \in Terminal : thread[t] \in InMonitor <=> monitor = t

\* A thread that writes or adds knows the terminal it does it for.
Aimed == \A t \in Terminal : thread[t] \in InMonitor \cup {"add"} => target[t] \in Terminal

\* The buffers are empty but for the line that is being written.
Unfinished(step) ==
    CASE step = "newLine" -> <<"text">>
      [] step = "flush" -> WholeLine
      [] OTHER -> <<>>

Buffered ==
    \A c \in Terminal :
        writer[c] = IF monitor # Nobody /\ target[monitor] = c THEN Unfinished(thread[monitor]) ELSE <<>>

PipesWhole == \A c \in Terminal : Whole(stdIn[c])

PInv == PagodaTypeOK /\ Inside /\ Aimed /\ Buffered /\ PipesWhole /\ Numbered

LEMMA NobodyIsNone == Nobody \notin Terminal /\ Console \in Terminal /\ Children \subseteq Terminal
  BY TerminalsAssumption DEF Nobody, Terminal, Children, Console

\* Whole lines and one more are whole lines.
LEMMA WholeAppend ==
    ASSUME NEW s, Whole(s)
    PROVE  Whole(s \o WholeLine)
<1>1. /\ WholeLine \in Seq(Units) /\ Len(WholeLine) = 2
      /\ WholeLine[1] = "text" /\ WholeLine[2] = "newline"
  BY DEF WholeLine, Units
<1>2. s \in Seq(Units) /\ Len(s) \in Nat /\ DOMAIN s = 1 .. Len(s)
  BY LenProperties DEF Whole
<1>3. /\ s \o WholeLine \in Seq(Units)
      /\ Len(s \o WholeLine) = Len(s) + 2
      /\ \A i \in 1 .. Len(s) + 2 :
             (s \o WholeLine)[i] = IF i <= Len(s) THEN s[i] ELSE WholeLine[i - Len(s)]
  <2>1. /\ s \o WholeLine \in Seq(Units)
        /\ Len(s \o WholeLine) = Len(s) + Len(WholeLine)
        /\ \A i \in 1 .. Len(s) + Len(WholeLine) :
               (s \o WholeLine)[i] = IF i <= Len(s) THEN s[i] ELSE WholeLine[i - Len(s)]
    BY <1>1, <1>2, ConcatProperties
  <2> QED
    BY <1>1, <1>2, <2>1
<1>4. DOMAIN (s \o WholeLine) = 1 .. Len(s) + 2
  BY <1>3, LenProperties
<1>5. ASSUME NEW i \in 1 .. Len(s) + 2
      PROVE  (s \o WholeLine)[i] = IF i % 2 = 1 THEN "text" ELSE "newline"
  <2>1. CASE i <= Len(s)
    BY <1>2, <1>3, <2>1 DEF Whole
  <2>2. CASE i = Len(s) + 1
    BY <1>1, <1>2, <1>3, <2>2 DEF Whole
  <2>3. CASE i = Len(s) + 2
    BY <1>1, <1>2, <1>3, <2>3 DEF Whole
  <2>4. i <= Len(s) \/ i = Len(s) + 1 \/ i = Len(s) + 2
    BY <1>2
  <2> QED
    BY <2>1, <2>2, <2>3, <2>4
<1>6. Len(s \o WholeLine) % 2 = 0
  BY <1>2, <1>3 DEF Whole
<1> QED
  BY <1>3, <1>4, <1>5, <1>6 DEF Whole

\* A line taken from the front leaves whole lines.
LEMMA WholeDrop ==
    ASSUME NEW s, Whole(s), Len(s) > 1
    PROVE  Whole(SubSeq(s, 3, Len(s)))
<1>1. s \in Seq(Units) /\ Len(s) \in Nat /\ DOMAIN s = 1 .. Len(s)
  BY LenProperties DEF Whole
<1>2. /\ SubSeq(s, 3, Len(s)) \in Seq(Units)
      /\ Len(SubSeq(s, 3, Len(s))) = Len(s) - 2
      /\ \A i \in 1 .. Len(s) - 2 : SubSeq(s, 3, Len(s))[i] = s[i + 2]
  BY <1>1
<1>3. DOMAIN SubSeq(s, 3, Len(s)) = 1 .. Len(s) - 2
  BY <1>2, LenProperties
<1>4. ASSUME NEW i \in 1 .. Len(s) - 2
      PROVE  s[i + 2] = IF i % 2 = 1 THEN "text" ELSE "newline"
  <2>1. i + 2 \in DOMAIN s /\ (i + 2) % 2 = i % 2
    BY <1>1
  <2> QED
    BY <2>1 DEF Whole
<1>5. Len(SubSeq(s, 3, Len(s))) % 2 = 0
  <2>1. Len(s) % 2 = 0
    BY DEF Whole
  <2>2. (Len(s) - 2) % 2 = 0
    BY <1>1, <2>1
  <2> QED
    BY <1>2, <2>2
<1>6. \A i \in DOMAIN SubSeq(s, 3, Len(s)) :
          SubSeq(s, 3, Len(s))[i] = IF i % 2 = 1 THEN "text" ELSE "newline"
  <2> SUFFICES ASSUME NEW i \in 1 .. Len(s) - 2
               PROVE  SubSeq(s, 3, Len(s))[i] = IF i % 2 = 1 THEN "text" ELSE "newline"
    BY <1>3
  <2>1. SubSeq(s, 3, Len(s))[i] = s[i + 2]
    BY <1>2
  <2> QED
    BY <1>4, <2>1
<1> DEFINE rest == SubSeq(s, 3, Len(s))
<1>7. /\ rest \in Seq(Units) /\ Len(rest) % 2 = 0
      /\ \A i \in DOMAIN rest : rest[i] = IF i % 2 = 1 THEN "text" ELSE "newline"
  BY <1>2, <1>5, <1>6
<1> HIDE DEF rest
<1>8. Whole(rest)
  BY <1>7 DEF Whole
<1> QED
  BY <1>8 DEF rest

-----------------------------------------------------------------------------
(* Each step keeps the invariant *)

\* A thread goes on to something that is neither writing nor adding.
LEMMA QuietStep ==
    ASSUME PInv, NEW t \in Terminal, NEW step \in Steps \ (InMonitor \cup {"add"}),
           thread[t] \notin InMonitor \cup {"add"},
           Goto(t, step),
           index' \in [Terminal -> Int], stdOut' \in [Terminal -> Seq(Lines)],
           UNCHANGED <<mix, TERMINALS, monitor, target, running, writer, stdIn, announced>>
    PROVE  PInv'
<1>0. thread \in [Terminal -> Steps] /\ thread' = [thread EXCEPT ![t] = step] /\ monitor # t
  BY DEF PInv, PagodaTypeOK, Inside, Goto
<1>1. PagodaTypeOK'
  BY <1>0 DEF PInv, PagodaTypeOK
<1>2. Inside' /\ Aimed'
  BY <1>0 DEF PInv, Inside, Aimed
<1>3. Buffered'
  <2>1. monitor # Nobody => thread'[monitor] = thread[monitor]
    BY <1>0 DEF PInv, PagodaTypeOK
  <2> QED
    BY <2>1 DEF PInv, Buffered
<1>4. PipesWhole'
  BY DEF PInv, PipesWhole
<1>5. Numbered'
  BY <1>0 DEF PInv, PagodaTypeOK, Numbered
<1> QED
  BY <1>1, <1>2, <1>3, <1>4, <1>5 DEF PInv

\* A line that is read is one that somebody has printed, and has an index.
LEMMA ReadLineStep ==
    ASSUME PInv, NEW t \in Terminal, ReadLine(t)
    PROVE  PInv'
<1>1. stdOut[t] \in Seq(Lines) /\ stdOut[t] # <<>> /\ thread[t] = "read"
  BY DEF PInv, PagodaTypeOK, ReadLine
<1>2. Head(stdOut[t]) \in Lines /\ Tail(stdOut[t]) \in Seq(Lines)
  BY <1>1, HeadTailProperties
<1>3. Head(stdOut[t]).index \in Int
  <2>1. CASE Head(stdOut[t]) \in [to : Names, index : {0}]
    BY <2>1
  <2>2. CASE Head(stdOut[t]) \in [to : {"terminal"}, index : Indices]
    BY <2>2, IndicesAssumption
  <2> QED
    BY <1>2, <2>1, <2>2 DEF Lines
<1>4. index' \in [Terminal -> Int] /\ stdOut' \in [Terminal -> Seq(Lines)]
  BY <1>2, <1>3 DEF PInv, PagodaTypeOK, ReadLine
<1>5. Route(Head(stdOut[t])) \in Steps \ (InMonitor \cup {"add"})
  BY DEF Route, Steps, InMonitor
<1>6. UNCHANGED <<mix, TERMINALS, monitor, target, running, writer, stdIn, announced>>
  BY DEF ReadLine
<1>7. Goto(t, Route(Head(stdOut[t])))
  BY DEF ReadLine
<1>8. thread[t] \notin InMonitor \cup {"add"}
  BY <1>1 DEF InMonitor
<1> HIDE DEF PInv
<1> QED
  BY <1>4, <1>5, <1>6, <1>7, <1>8, QuietStep

LEMMA OtherQuietSteps ==
    ASSUME PInv, NEW t \in Terminal,
           \/ Loop(t) \/ ReadNull(t) \/ EnqueueAdd(t) \/ EnqueueNotify(t)
           \/ OutOfBounds(t) \/ ExecFails(t) \/ ExitCommand(t)
    PROVE  PInv'
<1>1. PICK step \in Steps \ (InMonitor \cup {"add"}) : Goto(t, step)
  BY DEF Loop, ReadNull, EnqueueAdd, EnqueueNotify, OutOfBounds, ExecFails, ExitCommand, Steps, InMonitor
<1>2. thread[t] \notin InMonitor \cup {"add"}
  BY DEF Loop, ReadNull, EnqueueAdd, EnqueueNotify, OutOfBounds, ExecFails, ExitCommand, InMonitor
<1>3. UNCHANGED <<mix, TERMINALS, monitor, target, running, writer, stdIn, announced, index, stdOut>>
  BY DEF Loop, ReadNull, EnqueueAdd, EnqueueNotify, OutOfBounds, ExecFails, ExitCommand, pipes
<1>4. index' \in [Terminal -> Int] /\ stdOut' \in [Terminal -> Seq(Lines)]
  BY <1>3 DEF PInv, PagodaTypeOK
<1> QED
  BY <1>1, <1>2, <1>3, <1>4, QuietStep

\* The thread that gets the monitor has yet to write: the buffers are empty.
LEMMA EnterStep ==
    ASSUME PInv, NEW t \in Terminal, Enter(t)
    PROVE  PInv'
<1>0. /\ thread \in [Terminal -> Steps] /\ thread' = [thread EXCEPT ![t] = "write"]
      /\ target \in [Terminal -> Terminal \cup {Nobody}]
      /\ thread[t] = "enter" /\ monitor = Nobody /\ monitor' = t
  BY DEF PInv, PagodaTypeOK, Enter, Goto
<1>1. TERMINALS[index[t] + 1] \in Terminal
  BY ElementOfSeq, LenProperties DEF PInv, PagodaTypeOK, Enter
<1>2. target' = [target EXCEPT ![t] = TERMINALS[index[t] + 1]]
  BY DEF Enter
<1>3. UNCHANGED <<mix, TERMINALS, index, running, stdOut, writer, stdIn, announced>>
  BY DEF Enter, pipes
<1>4. \A u \in Terminal : thread[u] \notin InMonitor
  BY <1>0, NobodyIsNone DEF PInv, Inside
<1>5. PagodaTypeOK'
  BY <1>0, <1>1, <1>2, <1>3 DEF PInv, PagodaTypeOK, Steps
<1>6. Inside'
  BY <1>0, <1>4 DEF Inside, InMonitor
<1>7. Aimed'
  BY <1>0, <1>1, <1>2 DEF PInv, Aimed
<1>8. Buffered'
  BY <1>0, <1>3 DEF PInv, Buffered, Unfinished
<1>9. PipesWhole' /\ Numbered'
  BY <1>0, <1>2, <1>3 DEF PInv, PipesWhole, Numbered
<1> QED
  BY <1>5, <1>6, <1>7, <1>8, <1>9 DEF PInv

\* Write and newLine put the two halves of one line into an empty buffer.
LEMMA BufferStep ==
    ASSUME PInv, NEW t \in Terminal, Write(t) \/ NewLine(t)
    PROVE  PInv'
<1> DEFINE from == IF Write(t) THEN "write" ELSE "newLine"
           unit == IF Write(t) THEN "text" ELSE "newline"
           to == IF Write(t) THEN "newLine" ELSE "flush"
<1>0. Buffer(t, from, unit, to)
  BY DEF Write, NewLine
<1>1. /\ thread[t] = from /\ from \in InMonitor /\ to \in InMonitor \cap Steps /\ unit \in Units
      /\ Append(Unfinished(from), unit) = Unfinished(to)
  <2>1. /\ thread[t] = from /\ from \in InMonitor /\ to \in InMonitor \cap Steps /\ unit \in Units
    BY <1>0 DEF Buffer, InMonitor, Steps, Units
  <2>2. /\ Unfinished("write") = <<>> /\ Unfinished("newLine") = <<"text">>
        /\ Unfinished("flush") = <<"text", "newline">>
    BY DEF Unfinished, WholeLine
  <2>3. Append(<<>>, "text") = <<"text">> /\ Append(<<"text">>, "newline") = <<"text", "newline">>
    <3>1. Append(<<>>, "text") = <<"text">>
      BY SMT
    <3>2. Append(<<"text">>, "newline") = <<"text", "newline">>
      <4>1. <<"text">> \in Seq(Units) /\ <<"text", "newline">> \in Seq(Units) /\ "newline" \in Units
        BY DEF Units
      <4>2. /\ Append(<<"text">>, "newline") \in Seq(Units)
            /\ Len(Append(<<"text">>, "newline")) = 2
            /\ Append(<<"text">>, "newline")[1] = "text"
            /\ Append(<<"text">>, "newline")[2] = "newline"
        BY <4>1, AppendProperties
      <4>3. \A i \in 1 .. 2 : Append(<<"text">>, "newline")[i] = <<"text", "newline">>[i]
        BY <4>2
      <4> QED
        BY <4>1, <4>2, <4>3, SeqEqual
    <3> QED
      BY <3>1, <3>2
  <2>4. Append(Unfinished(from), unit) = Unfinished(to)
    <3>1. CASE Write(t)
      BY <2>2, <2>3, <3>1
    <3>2. CASE ~Write(t)
      BY <2>2, <2>3, <3>2
    <3> QED
      BY <3>1, <3>2
  <2> QED
    BY <2>1, <2>4
<1> HIDE DEF from, unit, to
<1>2. /\ thread \in [Terminal -> Steps] /\ thread' = [thread EXCEPT ![t] = to]
      /\ writer \in [Terminal -> Seq(Units)]
      /\ writer' = [writer EXCEPT ![target[t]] = Append(@, unit)]
      /\ UNCHANGED <<mix, TERMINALS, monitor, index, target, running, stdOut, stdIn, announced>>
  BY <1>0 DEF PInv, PagodaTypeOK, Buffer, Goto
<1>3. monitor = t /\ monitor # Nobody /\ target[t] \in Terminal
  BY <1>1, NobodyIsNone DEF PInv, Inside, Aimed
<1>4. writer[target[t]] = Unfinished(from)
  BY <1>1, <1>3 DEF PInv, Buffered
<1>5. writer'[target[t]] = Unfinished(to) /\ Append(writer[target[t]], unit) \in Seq(Units)
  BY <1>1, <1>2, <1>3, <1>4, AppendProperties
<1>6. PagodaTypeOK'
  BY <1>1, <1>2, <1>5 DEF PInv, PagodaTypeOK
<1>7. Inside' /\ Aimed'
  BY <1>1, <1>2, <1>3 DEF PInv, Inside, Aimed
<1>8. Buffered'
  <2>1. thread'[t] = to
    BY <1>2
  <2>2. ASSUME NEW c \in Terminal, c # target[t] PROVE writer'[c] = <<>>
    BY <1>2, <1>3, <2>2 DEF PInv, Buffered
  <2> QED
    BY <1>2, <1>3, <1>5, <2>1, <2>2 DEF Buffered
<1>9. PipesWhole' /\ Numbered'
  <2>1. \A u \in Terminal : thread[u] = "add" => thread'[u] = "add"
    BY <1>1, <1>2 DEF InMonitor
  <2> QED
    BY <1>2, <2>1 DEF PInv, PipesWhole, Numbered
<1> QED
  BY <1>6, <1>7, <1>8, <1>9 DEF PInv

\* Flush moves a whole line from the buffer to the pipe, and leaves the monitor.
LEMMA FlushStep ==
    ASSUME PInv, NEW t \in Terminal, Flush(t)
    PROVE  PInv'
<1> DEFINE c == target[t]
<1>0. /\ thread \in [Terminal -> Steps] /\ thread' = [thread EXCEPT ![t] = "loop"] /\ thread[t] = "flush"
      /\ target \in [Terminal -> Terminal \cup {Nobody}] /\ target' = [target EXCEPT ![t] = Nobody]
      /\ stdIn \in [Terminal -> Seq(Units)] /\ writer \in [Terminal -> Seq(Units)]
      /\ stdIn' = [stdIn EXCEPT ![c] = IF c \in running THEN @ \o writer[c] ELSE <<>>]
      /\ writer' = [writer EXCEPT ![c] = <<>>]
      /\ monitor' = Nobody
      /\ UNCHANGED <<mix, TERMINALS, index, running, stdOut, announced>>
  BY DEF PInv, PagodaTypeOK, Flush, Goto
<1>1. monitor = t /\ monitor # Nobody /\ c \in Terminal
  BY <1>0, NobodyIsNone DEF PInv, Inside, Aimed, InMonitor
<1>2. writer[c] = WholeLine
  BY <1>0, <1>1 DEF PInv, Buffered, Unfinished
<1>3. stdIn'[c] = IF c \in running THEN stdIn[c] \o WholeLine ELSE <<>>
  BY <1>0, <1>1, <1>2
<1>4. Whole(stdIn'[c])
  <2>1. Whole(stdIn[c] \o WholeLine)
    BY <1>1, WholeAppend DEF PInv, PipesWhole
  <2>2. Whole(<<>>)
    BY EmptySeq DEF Whole
  <2> QED
    BY <1>3, <2>1, <2>2
<1>5. PipesWhole'
  BY <1>0, <1>1, <1>4 DEF PInv, PipesWhole
<1>6. stdIn' \in [Terminal -> Seq(Units)]
  BY <1>0, <1>1, <1>4 DEF Whole
<1>7. PagodaTypeOK'
  BY <1>0, <1>6, EmptySeq DEF PInv, PagodaTypeOK, Steps
<1>8. Inside' /\ Aimed'
  BY <1>0, <1>1, NobodyIsNone DEF PInv, Inside, Aimed, InMonitor
<1>9. Buffered'
  BY <1>0, <1>1 DEF PInv, Buffered
<1>10. Numbered'
  <2>1. \A u \in Terminal : thread[u] = "add" => thread'[u] = "add" /\ target'[u] = target[u]
    BY <1>0
  <2>2. UNCHANGED <<announced, TERMINALS, running>>
    BY <1>0
  <2>3. Numbered
    BY DEF PInv
  <2> QED
    BY <2>1, <2>2, <2>3 DEF Numbered
<1> QED
  BY <1>5, <1>7, <1>8, <1>9, <1>10 DEF PInv

\* A process that is started is in the hands of the thread that will add it.
LEMMA ExecStep ==
    ASSUME PInv, NEW t \in Terminal, Exec(t)
    PROVE  PInv'
<1>0. PICK c \in Children :
          /\ thread[c] = "none"
          /\ thread' = [thread EXCEPT ![t] = "add", ![c] = "loop"]
          /\ target' = [target EXCEPT ![t] = c]
          /\ running' = running \cup {c}
  BY DEF Exec
<1>1. /\ thread \in [Terminal -> Steps] /\ thread[t] = "exec" /\ c \in Terminal /\ c # t
      /\ target \in [Terminal -> Terminal \cup {Nobody}]
      /\ UNCHANGED <<mix, TERMINALS, monitor, index, stdOut, writer, stdIn, announced>>
  BY <1>0, NobodyIsNone DEF PInv, PagodaTypeOK, Exec
<1>2. monitor # t /\ monitor # c
  BY <1>0, <1>1 DEF PInv, Inside, InMonitor
<1>3. PagodaTypeOK'
  BY <1>0, <1>1 DEF PInv, PagodaTypeOK, Steps
<1>4. Inside' /\ Aimed'
  BY <1>0, <1>1, <1>2 DEF PInv, Inside, Aimed, InMonitor
<1>5. Buffered'
  <2>1. monitor # Nobody => monitor \in Terminal /\ thread'[monitor] = thread[monitor] /\ target'[monitor] = target[monitor]
    BY <1>0, <1>1, <1>2 DEF PInv, PagodaTypeOK
  <2> QED
    BY <1>1, <2>1 DEF PInv, Buffered
<1>6. PipesWhole'
  BY <1>1 DEF PInv, PipesWhole
<1>7. Numbered'
  <2>1. \A u \in Terminal : thread[u] = "add" => thread'[u] = "add" /\ target'[u] = target[u]
    BY <1>0, <1>1
  <2>2. thread'[t] = "add" /\ target'[t] = c
    BY <1>0, <1>1
  <2> QED
    BY <1>0, <1>1, <2>1, <2>2 DEF PInv, Numbered
<1> QED
  BY <1>3, <1>4, <1>5, <1>6, <1>7 DEF PInv

\* The terminal gets the number under which it stands in the list.
LEMMA AddTerminalStep ==
    ASSUME PInv, NEW t \in Terminal, AddTerminal(t)
    PROVE  PInv'
<1> DEFINE entry == [terminal |-> target[t], index |-> Len(TERMINALS)]
<1>0. /\ thread \in [Terminal -> Steps] /\ thread' = [thread EXCEPT ![t] = "loop"] /\ thread[t] = "add"
      /\ target \in [Terminal -> Terminal \cup {Nobody}] /\ target' = [target EXCEPT ![t] = Nobody]
      /\ TERMINALS \in Seq(Terminal) /\ TERMINALS' = Append(TERMINALS, target[t])
      /\ announced \in Seq([terminal : Terminal, index : Nat]) /\ announced' = Append(announced, entry)
      /\ monitor = Nobody
      /\ UNCHANGED <<mix, monitor, index, running, stdOut, writer, stdIn>>
  BY DEF PInv, PagodaTypeOK, AddTerminal, Goto, pipes
<1>1. target[t] \in Terminal /\ Len(TERMINALS) \in Nat /\ entry \in [terminal : Terminal, index : Nat]
  BY <1>0, LenProperties DEF PInv, Aimed
<1>2. /\ TERMINALS' \in Seq(Terminal) /\ Len(TERMINALS') = Len(TERMINALS) + 1
      /\ \A i \in 1 .. Len(TERMINALS) : TERMINALS'[i] = TERMINALS[i]
      /\ TERMINALS'[Len(TERMINALS) + 1] = target[t]
  BY <1>0, <1>1, AppendProperties
<1>3. /\ announced' \in Seq([terminal : Terminal, index : Nat]) /\ Len(announced) \in Nat
      /\ DOMAIN announced = 1 .. Len(announced) /\ DOMAIN announced' = 1 .. Len(announced) + 1
      /\ \A i \in 1 .. Len(announced) : announced'[i] = announced[i]
      /\ announced'[Len(announced) + 1] = entry
  BY <1>0, <1>1, AppendProperties, LenProperties
<1>4. PagodaTypeOK'
  BY <1>0, <1>2, <1>3 DEF PInv, PagodaTypeOK, Steps
<1>5. Inside' /\ Aimed'
  BY <1>0, NobodyIsNone DEF PInv, Inside, Aimed, InMonitor
<1>6. Buffered' /\ PipesWhole'
  BY <1>0 DEF PInv, Buffered, PipesWhole
<1>7. ASSUME NEW k \in DOMAIN announced'
      PROVE  /\ announced'[k].index < Len(TERMINALS')
             /\ TERMINALS'[announced'[k].index + 1] = announced'[k].terminal
  <2>1. CASE k \in DOMAIN announced
    <3>1. announced[k] \in [terminal : Terminal, index : Nat]
      BY <1>0, <1>3, <2>1, ElementOfSeq
    <3>2. announced[k].index < Len(TERMINALS) /\ TERMINALS[announced[k].index + 1] = announced[k].terminal
      BY <2>1 DEF PInv, Numbered
    <3>3. announced'[k] = announced[k]
      BY <1>3, <2>1
    <3>4. announced[k].index + 1 \in 1 .. Len(TERMINALS)
      BY <1>1, <3>1, <3>2
    <3>5. TERMINALS'[announced[k].index + 1] = announced[k].terminal
      BY <1>2, <3>2, <3>4
    <3>6. announced[k].index < Len(TERMINALS')
      BY <1>1, <1>2, <3>1, <3>4
    <3> QED
      BY <3>3, <3>5, <3>6
  <2>2. CASE k = Len(announced) + 1
    BY <1>1, <1>2, <1>3, <2>2
  <2> QED
    BY <1>3, <2>1, <2>2
<1>8. ASSUME NEW c \in running' \ {Console}
      PROVE  \/ \E k \in DOMAIN announced' : announced'[k].terminal = c
             \/ \E u \in Terminal : thread'[u] = "add" /\ target'[u] = c
  <2>1. CASE \E k \in DOMAIN announced : announced[k].terminal = c
    BY <1>3, <2>1
  <2>2. ASSUME NEW u \in Terminal, thread[u] = "add", target[u] = c, u # t
        PROVE  thread'[u] = "add" /\ target'[u] = c
    BY <1>0, <2>2
  <2>3. CASE target[t] = c
    BY <1>3, <2>3
  <2> QED
    BY <1>0, <2>1, <2>2, <2>3 DEF PInv, Numbered
<1> QED
  BY <1>4, <1>5, <1>6, <1>7, <1>8 DEF PInv, Numbered

\* A process prints, takes whole lines from its standard input, or ends.
LEMMA ProcessKeeps ==
    ASSUME PInv, NEW t \in Terminal, PrintLine(t) \/ ReadInput(t) \/ End(t)
    PROVE  PInv'
<1>0. UNCHANGED <<mix, threads, writer, announced>>
  BY DEF PrintLine, ReadInput, End
<1>1. running' \subseteq running
  BY DEF PrintLine, ReadInput, End
<1>2. stdOut' \in [Terminal -> Seq(Lines)]
  <2>1. CASE PrintLine(t)
    <3>1. PICK line \in (IF t = Console THEN mix.typed ELSE mix.printed) :
              stdOut' = [stdOut EXCEPT ![t] = Append(@, line)]
      BY <2>1 DEF PrintLine
    <3>2. mix \in [typed : SUBSET Lines, atMost : Nat, processes : Nat,
                      printed : SUBSET Lines, each : Nat]
      BY MixesAssumption DEF PInv, PagodaTypeOK
    <3>3. line \in Lines
      BY <3>2
    <3>4. stdOut \in [Terminal -> Seq(Lines)] /\ Append(stdOut[t], line) \in Seq(Lines)
      BY <3>3, AppendProperties DEF PInv, PagodaTypeOK
    <3> QED
      BY <3>1, <3>4
  <2>2. CASE ReadInput(t) \/ End(t)
    BY <2>2 DEF PInv, PagodaTypeOK, ReadInput, End
  <2> QED
    BY <2>1, <2>2
<1>3. stdIn \in [Terminal -> Seq(Units)] /\ \A c \in Terminal : Whole(stdIn[c])
  BY DEF PInv, PagodaTypeOK, PipesWhole
<1>4. stdIn' \in [Terminal -> Seq(Units)] /\ \A c \in Terminal : Whole(stdIn'[c])
  <2>1. CASE PrintLine(t)
    BY <1>3, <2>1 DEF PrintLine
  <2>2. CASE ReadInput(t)
    <3>1. Whole(SubSeq(stdIn[t], 3, Len(stdIn[t])))
      BY <1>3, <2>2, WholeDrop DEF ReadInput
    <3>2. SubSeq(stdIn[t], 3, Len(stdIn[t])) \in Seq(Units)
      BY <3>1 DEF Whole
    <3> QED
      BY <1>3, <2>2, <3>1, <3>2 DEF ReadInput
  <2>3. CASE End(t)
    <3>1. Whole(<<>>) /\ <<>> \in Seq(Units)
      BY EmptySeq DEF Whole
    <3> QED
      BY <1>3, <2>3, <3>1 DEF End
  <2> QED
    BY <2>1, <2>2, <2>3
<1>5. PagodaTypeOK'
  BY <1>0, <1>1, <1>2, <1>4 DEF PInv, PagodaTypeOK, threads
<1>6. Inside' /\ Aimed' /\ Buffered'
  BY <1>0 DEF PInv, Inside, Aimed, Buffered, threads
<1>7. PipesWhole'
  BY <1>4 DEF PipesWhole
<1>8. Numbered'
  BY <1>0, <1>1 DEF PInv, Numbered, threads
<1> QED
  BY <1>5, <1>6, <1>7, <1>8 DEF PInv

LEMMA PInvStep ==
    ASSUME PInv, [PagodaNext]_pagoda
    PROVE  PInv'
<1>1. CASE UNCHANGED Others
  BY <1>1 DEF Others, threads, pipes, PInv, PagodaTypeOK, Inside, Aimed, Buffered, PipesWhole, Numbered
<1>2. UNCHANGED pagoda \/ Helper \/ Detector \/ SystemExit => UNCHANGED Others
  BY DEF pagoda, Helper, Detector, SystemExit, Others
<1>3. ASSUME NEW t \in Terminal, Thread(t) PROVE PInv'
  BY <1>3, ReadLineStep, OtherQuietSteps, EnterStep, BufferStep, FlushStep, ExecStep, AddTerminalStep
     DEF Thread
<1>4. ASSUME NEW t \in Terminal, PrintLine(t) \/ ReadInput(t) \/ End(t) PROVE PInv'
  BY <1>4, ProcessKeeps
<1> HIDE DEF PInv
<1> QED
  BY <1>1, <1>2, <1>3, <1>4 DEF PagodaNext

LEMMA PInvInit == PagodaInit => PInv
<1> SUFFICES ASSUME PagodaInit PROVE PInv
  OBVIOUS
<1>1. <<>> \in Seq(Lines) /\ <<>> \in Seq(Units) /\ <<>> \in Seq([terminal : Terminal, index : Nat])
  BY EmptySeq
<1>2. Console \in Terminal /\ Nobody \notin Terminal
  BY NobodyIsNone
<1>3. <<Console>> \in Seq(Terminal)
  BY <1>2
<1>4. PagodaTypeOK
  BY <1>1, <1>2, <1>3 DEF PagodaInit, PagodaTypeOK, Steps
<1>5. Inside /\ Aimed /\ Buffered
  BY <1>2 DEF PagodaInit, Inside, Aimed, Buffered, InMonitor
<1>6. PipesWhole
  BY <1>1 DEF PagodaInit, PipesWhole, Whole
<1>7. Numbered
  BY DEF PagodaInit, Numbered
<1> QED
  BY <1>4, <1>5, <1>6, <1>7 DEF PInv

-----------------------------------------------------------------------------
(* Theorems *)

\* Nothing a terminal, a process or the exit does can lose, repeat or reorder
\* the statements the terminals and the detector have handed to SqlHelper.java.
THEOREM OrderKeptInProcess == PagodaSpec => []InOrder
  BY ProcessUsesSqlHelper, OrderKept, PTL

\* The invariant of the terminals is inductive.
THEOREM PagodaInductive == PagodaSpec => []PInv
<1>1. PInv /\ [PagodaNext]_pagoda => PInv'
  BY PInvStep
<1> QED
  BY <1>1, PInvInit, PTL DEF PagodaSpec

\* What handleMessage writes to a terminal (Terminal.java:79-81) arrives as whole
\* lines, whichever threads write to it at once, and however often the process
\* reads or ends.
THEOREM LinesStayWhole == PagodaSpec => []LinesWhole
<1>1. PInv => LinesWhole
  BY DEF PInv, PipesWhole, Whole, LinesWhole
<1> QED
  BY <1>1, PagodaInductive, PTL

\* The number that executeCommand announces (Terminal.java:102-106) leads to the
\* process it was announced for ever after, however many threads start
\* processes at once.
THEOREM NumbersLead == PagodaSpec => []Numbered
<1>1. PInv => Numbered
  BY DEF PInv
<1> QED
  BY <1>1, PagodaInductive, PTL
=============================================================================
