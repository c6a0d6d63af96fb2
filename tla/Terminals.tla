------------------------------ MODULE Terminals ------------------------------
(***************************************************************************)
(* The process of PagodaTree (Terminal.java) with the SqlHelper in it.     *)
(* A terminal is the console or a child process; a thread of its own reads *)
(* what it prints, line by line, and passes each line on to what stands    *)
(* after its '@': the SqlHelper, the detector, the command interpreter or  *)
(* the standard input of the terminal with that index.                     *)
(*                                                                         *)
(* A line is one of                                                        *)
(*   "SQL", "IDS", "nobody",                                               *)
(*   "run", "blank", "exit"          commands: one to execute, none, exit  *)
(*   "terminal"                      with an index                         *)
(* The detector is modelled in IdsWorker; here it is a thread that         *)
(* enqueues statements.  The pipes are the system's.  Of the programs at   *)
(* their other ends, cap and plc, it is told when they print and when they *)
(* read: a program that prints is one that does not read, unless it has a  *)
(* thread for each.                                                        *)
(***************************************************************************)
EXTENDS SqlHelper, Integers, FiniteSets

CONSTANTS
    Processes,      \* how many may be started
    Indices,        \* the numbers that stand after an '@', any the parser takes
    PipeSize,       \* lines that fit into a pipe
    Mixes           \* bounds: what the operator types, [typed, atMost], how
                    \* many processes are started, and what each of them
                    \* prints, [printed, each]

Console == 0
Children == 1 .. Processes              \* in the order they are started
Terminal == Children \cup {Console}
Nobody == -1

ASSUME TerminalsAssumption == Processes \in Nat /\ Terminal \subseteq Producers
ASSUME IndicesAssumption == Indices \subseteq Int
ASSUME PipeAssumption == PipeSize \in Nat \ {0}

VARIABLES
    mix,            \* one of the Mixes
    TERMINALS,      \* the list, and who is inside its monitor
    monitor,
    thread,         \* of each terminal: what its thread is about to do
    index,          \* the index in the line it has read
    target,         \* the terminal it writes to, or adds
    running,        \* the processes that run
    phase,          \* what each of them does with its pipes, one of Phases
    printed,        \* how many lines each terminal has printed
    stdOut,         \* the lines its thread has not read yet
    writer,         \* what is in its BufferedWriter
    stdIn,          \* what it has not read yet
    announced       \* history: "New process added as terminal ..."

threads == <<TERMINALS, monitor, thread, index, target>>
pipes == <<running, phase, printed, stdOut, writer, stdIn>>
pagoda == <<vars, mix, threads, pipes, announced>>

Names == {"SQL", "IDS", "nobody", "run", "blank", "exit"}
Lines == [to : Names, index : {0}] \cup [to : {"terminal"}, index : Indices]

\* One thread prints, or waits for an answer; one reads while others print;
\* nobody reads any more.
Phases == {"prompt", "answer", "work", "deaf"}

ASSUME MixesAssumption ==
    Mixes \subseteq [typed : SUBSET Lines, atMost : Nat, processes : Nat,
                    printed : SUBSET Lines, each : Nat]

PagodaInit ==
    /\ Init
    /\ mix \in Mixes
    /\ TERMINALS = <<Console>> /\ monitor = Nobody
    /\ thread = [t \in Terminal |-> IF t = Console THEN "loop" ELSE "none"]
    /\ index = [t \in Terminal |-> 0]
    /\ target = [t \in Terminal |-> Nobody]
    /\ running = {Console}
    /\ phase = [t \in Terminal |-> IF t = Console THEN "work" ELSE "prompt"]
    /\ printed = [t \in Terminal |-> 0]
    /\ stdOut = [t \in Terminal |-> <<>>]
    /\ writer = [t \in Terminal |-> <<>>]
    /\ stdIn = [t \in Terminal |-> <<>>]
    /\ announced = <<>>

Goto(t, label) == thread' = [thread EXCEPT ![t] = label]

-----------------------------------------------------------------------------
(* The processes at the other ends of the pipes *)

Bound(t) == IF t = Console THEN mix.atMost ELSE mix.each

Become(t, phases) == \E next \in phases : phase' = [phase EXCEPT ![t] = next]

\* AskForUserId, selectDevice and startCapture print a line, and another or
\* read the answer; then another thread is started that reads ("PLC:Started",
\* CreateThread).  The last line of the bound is not followed by another.
AfterPrint(t) ==
    IF phase[t] # "prompt" THEN {phase[t]}
    ELSE {"answer", "work"} \cup (IF printed[t] + 1 < mix.each THEN {"prompt"} ELSE {})

\* std::cout << ... << std::endl; the console's lines are typed by the operator.
PrintLine(t) ==
    /\ t \in running /\ phase[t] # "answer"
    /\ printed[t] < Bound(t)
    /\ Len(stdOut[t]) < PipeSize
    /\ \E line \in IF t = Console THEN mix.typed ELSE mix.printed :
          stdOut' = [stdOut EXCEPT ![t] = Append(@, line)]
    /\ printed' = [printed EXCEPT ![t] = @ + 1]
    /\ Become(t, AfterPrint(t))
    /\ UNCHANGED <<vars, mix, threads, running, writer, stdIn, announced>>

\* std::cin >> index skips a blank line, and after a word that is no number
\* std::cin gives nothing any more: selectDevice prints its prompt for ever,
\* and in plc std::cin.get() is never 'q'.  while (std::cin.get() != 'q') ends
\* with the 'q'; the process then stops, which takes it prints or a sleep.
\* The console is shown to the operator.
AfterRead(t) ==
    CASE t = Console -> {"work"}
      [] t # Console /\ phase[t] = "answer" ->
            {"answer", "deaf", IF printed[t] < mix.each THEN "prompt" ELSE "work"}
      [] OTHER -> {"work", "deaf"}

ReadInput(t) ==
    /\ t \in running /\ phase[t] \in {"answer", "work"}
    /\ Len(stdIn[t]) > 1
    /\ stdIn' = [stdIn EXCEPT ![t] = SubSeq(@, 3, Len(@))]
    /\ Become(t, AfterRead(t))
    /\ UNCHANGED <<vars, mix, threads, running, printed, stdOut, writer, announced>>

\* A process ends, by 'q' or otherwise.
End(t) ==
    /\ t \in running \ {Console}
    /\ running' = running \ {t}
    /\ stdIn' = [stdIn EXCEPT ![t] = <<>>]
    /\ Become(t, {"deaf"})
    /\ UNCHANGED <<vars, mix, threads, printed, stdOut, writer, announced>>

-----------------------------------------------------------------------------
(* The thread of a terminal *)

\* while (SYSTEM_RUNNING)
Loop(t) ==
    /\ thread[t] = "loop"
    /\ Goto(t, IF SYSTEM_RUNNING THEN "read" ELSE "ended")
    /\ UNCHANGED <<vars, mix, TERMINALS, monitor, index, target, pipes, announced>>

\* handleMessage: where a line goes.  A blank command makes exec throw an
\* IllegalArgumentException, which nothing catches: the thread ends.
Route(line) ==
    CASE line.to = "SQL" -> "enqueue"
      [] line.to = "terminal" -> "enter"
      [] line.to = "run" -> "exec"
      [] line.to = "exit" -> "exit"
      [] line.to = "blank" -> "ended"
      [] OTHER -> "loop"

ReadLine(t) ==
    LET line == Head(stdOut[t])
    IN  /\ thread[t] = "read"
        /\ stdOut[t] # <<>>
        /\ Goto(t, Route(line))
        /\ index' = [index EXCEPT ![t] = line.index]
        /\ stdOut' = [stdOut EXCEPT ![t] = Tail(@)]
        /\ UNCHANGED <<vars, mix, TERMINALS, monitor, target, running, phase, printed, writer, stdIn, announced>>

\* null, at once and again and again, when the process has ended.
ReadNull(t) ==
    /\ thread[t] = "read"
    /\ stdOut[t] = <<>> /\ t \notin running
    /\ Goto(t, "loop")
    /\ UNCHANGED <<vars, mix, TERMINALS, monitor, index, target, pipes, announced>>

\* SQL_HELPER.enqueue.
EnqueueAdd(t) ==
    /\ thread[t] = "enqueue"
    /\ Add(t)
    /\ Goto(t, "notify")
    /\ UNCHANGED <<mix, TERMINALS, monitor, index, target, pipes, announced>>

EnqueueNotify(t) ==
    /\ thread[t] = "notify"
    /\ Notify(t)
    /\ Goto(t, "loop")
    /\ UNCHANGED <<mix, TERMINALS, monitor, index, target, pipes, announced>>

-----------------------------------------------------------------------------
(* A line for another terminal *)

\* Defect: only get(index) is synchronized.
EnterUnlocked(t) ==
    /\ thread[t] = "enter" /\ monitor = Nobody
    /\ index[t] + 1 \in DOMAIN TERMINALS
    /\ target' = [target EXCEPT ![t] = TERMINALS[index[t] + 1]]
    /\ Goto(t, "write")
    /\ UNCHANGED <<vars, mix, TERMINALS, monitor, index, pipes, announced>>

\* synchronized (TERMINALS) and get(index).
Enter(t) ==
    /\ thread[t] = "enter" /\ monitor = Nobody
    /\ index[t] + 1 \in DOMAIN TERMINALS
    /\ monitor' = t
    /\ target' = [target EXCEPT ![t] = TERMINALS[index[t] + 1]]
    /\ Goto(t, "write")
    /\ UNCHANGED <<vars, mix, TERMINALS, index, pipes, announced>>

\* "Terminal index out of bounds".
OutOfBounds(t) ==
    /\ thread[t] = "enter" /\ monitor = Nobody
    /\ index[t] + 1 \notin DOMAIN TERMINALS
    /\ Goto(t, "loop")
    /\ UNCHANGED <<vars, mix, TERMINALS, monitor, index, target, pipes, announced>>

\* terminalWriter.write and newLine.
Buffer(t, from, unit, to) ==
    /\ thread[t] = from
    /\ writer' = [writer EXCEPT ![target[t]] = Append(@, unit)]
    /\ Goto(t, to)
    /\ UNCHANGED <<vars, mix, TERMINALS, monitor, index, target, running, phase, printed, stdOut, stdIn, announced>>

Write(t) == Buffer(t, "write", "text", "newLine")
NewLine(t) == Buffer(t, "newLine", "newline", "flush")

\* Defect: an exception leaves the monitor locked, as it would a Lock that is
\* not released in a finally.
FlushKeepsMonitor(t) ==
    LET c == target[t]
    IN  /\ thread[t] = "flush"
        /\ c \in running => Len(stdIn[c]) < 2 * PipeSize
        /\ stdIn' = [stdIn EXCEPT ![c] = IF c \in running THEN @ \o writer[c] ELSE <<>>]
        /\ writer' = [writer EXCEPT ![c] = <<>>]
        /\ monitor' = IF c \in running THEN Nobody ELSE monitor
        /\ target' = [target EXCEPT ![t] = Nobody]
        /\ Goto(t, "loop")
        /\ UNCHANGED <<vars, mix, TERMINALS, index, running, phase, printed, stdOut, announced>>

\* flush blocks while the pipe is full, and throws when nobody is there to read.
Flush(t) ==
    LET c == target[t]
    IN  /\ thread[t] = "flush"
        /\ c \in running => Len(stdIn[c]) < 2 * PipeSize
        /\ stdIn' = [stdIn EXCEPT ![c] = IF c \in running THEN @ \o writer[c] ELSE <<>>]
        /\ writer' = [writer EXCEPT ![c] = <<>>]
        /\ monitor' = Nobody
        /\ target' = [target EXCEPT ![t] = Nobody]
        /\ Goto(t, "loop")
        /\ UNCHANGED <<vars, mix, TERMINALS, index, running, phase, printed, stdOut, announced>>

-----------------------------------------------------------------------------
(* executeCommand *)

\* exec and create: the process and its thread run before TERMINALS has it.
Exec(t) ==
    /\ thread[t] = "exec"
    /\ \E c \in Children :
          /\ c <= mix.processes
          /\ thread[c] = "none" /\ (c = 1 \/ thread[c - 1] # "none")
          /\ thread' = [thread EXCEPT ![t] = "add", ![c] = "loop"]
          /\ target' = [target EXCEPT ![t] = c]
          /\ running' = running \cup {c}
    /\ UNCHANGED <<vars, mix, TERMINALS, monitor, index, phase, printed, stdOut, writer, stdIn, announced>>

\* IOException: there is no such program.
ExecFails(t) ==
    /\ thread[t] = "exec"
    /\ Goto(t, "loop")
    /\ UNCHANGED <<vars, mix, TERMINALS, monitor, index, target, pipes, announced>>

\* Defect: index = size() after add(terminal).
AddThenIndex(t) ==
    /\ thread[t] = "add" /\ monitor = Nobody
    /\ TERMINALS' = Append(TERMINALS, target[t])
    /\ announced' = Append(announced, [terminal |-> target[t], index |-> Len(TERMINALS')])
    /\ target' = [target EXCEPT ![t] = Nobody]
    /\ Goto(t, "loop")
    /\ UNCHANGED <<vars, mix, monitor, index, pipes>>

\* synchronized (TERMINALS) { index = size(); add(terminal); }
AddTerminal(t) ==
    /\ thread[t] = "add" /\ monitor = Nobody
    /\ TERMINALS' = Append(TERMINALS, target[t])
    /\ announced' = Append(announced, [terminal |-> target[t], index |-> Len(TERMINALS)])
    /\ target' = [target EXCEPT ![t] = Nobody]
    /\ Goto(t, "loop")
    /\ UNCHANGED <<vars, mix, monitor, index, pipes>>

\* Defect: System.exit while the others run.
ExitAtOnce(t) ==
    /\ thread[t] = "exit"
    /\ halted' = TRUE
    /\ Goto(t, "sleep")
    /\ UNCHANGED <<SYSTEM_RUNNING, pc, producers, session, work>>
    /\ UNCHANGED <<mix, TERMINALS, monitor, index, target, pipes, announced>>

\* exit: the thread sleeps and then ends the process, like any other that is
\* told to exit in the meantime.
ExitCommand(t) ==
    /\ thread[t] = "exit"
    /\ IF SYSTEM_RUNNING THEN Exit ELSE UNCHANGED vars
    /\ Goto(t, "sleep")
    /\ UNCHANGED <<mix, TERMINALS, monitor, index, target, pipes, announced>>

\* Defect: the process ends when the threads of the terminals have ended.
ExitJoining ==
    /\ \E t \in Terminal : thread[t] = "sleep"
    /\ \A t \in Terminal : thread[t] \in {"none", "ended", "sleep"}
    /\ Halt
    /\ UNCHANGED <<mix, threads, pipes, announced>>

SystemExit ==
    /\ \E t \in Terminal : thread[t] = "sleep"
    /\ Halt
    /\ UNCHANGED <<mix, threads, pipes, announced>>

-----------------------------------------------------------------------------

Thread(t) ==
    /\ ~halted
    /\ \/ Loop(t) \/ ReadLine(t) \/ ReadNull(t)
       \/ EnqueueAdd(t) \/ EnqueueNotify(t)
       \/ Enter(t) \/ OutOfBounds(t) \/ Write(t) \/ NewLine(t) \/ Flush(t)
       \/ Exec(t) \/ ExecFails(t) \/ AddTerminal(t)
       \/ ExitCommand(t)

\* The other threads of the process: the one of the SqlHelper, which does not
\* get beyond its wait where nobody sends a statement, and the one of the
\* detector, which has something to store when packets are reported.
Sent(kind) == \E line \in mix.typed \cup mix.printed : line.to = kind
Others == <<mix, threads, pipes, announced>>

Helper == Sent("SQL") /\ SqlThread /\ UNCHANGED Others

Detector == Sent("IDS") /\ \E p \in Producers \ Terminal : (Add(p) \/ Notify(p)) /\ UNCHANGED Others

PagodaNext ==
    \/ \E t \in Terminal : Thread(t) \/ (~halted /\ (PrintLine(t) \/ ReadInput(t) \/ End(t)))
    \/ Helper
    \/ Detector
    \/ SystemExit

PagodaSpec == PagodaInit /\ [][PagodaNext]_pagoda

\* The threads run; a process that asks prints its lines when the pipe takes
\* them, and one that waits for input reads it, but nobody has to print
\* otherwise, or to end; a sleep is over after its three seconds, and an idle
\* connection can be closed at one of the attempts.
PagodaFairSpec ==
    /\ PagodaSpec
    /\ \A t \in Terminal :
          /\ WF_pagoda(Thread(t))
          /\ WF_pagoda(~halted /\ phase[t] = "prompt" /\ PrintLine(t))
          /\ WF_pagoda(~halted /\ ReadInput(t))
    /\ WF_pagoda(SystemExit)
    /\ WF_pagoda(Helper) /\ SF_pagoda(~halted /\ CloseConnection /\ UNCHANGED Others)

-----------------------------------------------------------------------------
(* Properties *)

\* A terminal is written to by all the others: what arrives at its standard
\* input are whole lines, never two in one.
LinesWhole ==
    \A t \in Terminal : \A i \in DOMAIN stdIn[t] : stdIn[t][i] = IF i % 2 = 1 THEN "text" ELSE "newline"

\* "New process added as terminal n": n leads to that process from then on, and
\* every running process has a number, or will get one from the thread that
\* started it.
Numbered ==
    /\ \A k \in DOMAIN announced :
          /\ announced[k].index < Len(TERMINALS)
          /\ TERMINALS[announced[k].index + 1] = announced[k].terminal
    /\ \A c \in running \ {Console} :
          \/ \E k \in DOMAIN announced : announced[k].terminal = c
          \/ \E t \in Terminal : thread[t] = "add" /\ target[t] = c

\* The process that is written to will not read: it has stopped reading for
\* good, or has to print first, its pipe is full, and the thread that drains it
\* has ended or is itself one that needs or holds the monitor.
Wedged ==
    \E t, c \in Terminal :
        /\ monitor = t /\ target[t] = c /\ c \in running
        /\ \/ phase[c] = "deaf"
           \/ /\ phase[c] = "prompt" /\ Len(stdOut[c]) = PipeSize
              /\ thread[c] \in {"enter", "add", "flush", "ended"}

\* Whoever is inside the monitor of TERMINALS comes out, whether the process it
\* writes to reads, prints or ends meanwhile and whoever else waits for the
\* monitor.  It stays for ever only where that process will not read again.
Freed == monitor # Nobody ~> (monitor = Nobody \/ halted \/ Wedged)

\* After an exit the process ends, whatever the other threads wait for and
\* however long the queue of the SqlHelper is.
Exits == ~SYSTEM_RUNNING ~> halted
=============================================================================
