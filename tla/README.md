# Sophorose: a verification development

Sophorose is a honeypot of medium interaction that plays a Siemens S7-300/400
PLC. This directory holds TLA+ models of its concurrent parts, the TLC runs
that check them on small instances, and TLAPS proofs for all instances. Line
numbers are those of `src/` at the commit the models were written from.

## 1. The system

| program | language | what it does |
|---|---|---|
| `plc` | C++ (modified Snap7) | serves S7 (ISO on TCP) and Modbus/TCP, one thread per connection; prints each event as a line `INSERT ...@SQL` |
| `cap` | C++ (NpCap) | prints each captured TCP packet as a line `{...}@IDS` |
| `PagodaTree` | Java | starts `plc` and `cap` as child processes, reads their lines, sends what is for `@SQL` to MySQL, and recognizes port scans in what is for `@IDS` |
| `Sardine`, `ROOT` | Java, JSP | web pages over the database |

The programs share no memory: `plc` and `cap` talk to `PagodaTree` through
pipes, `PagodaTree` to the pages through MySQL.

### Components, their state and what makes them correct

* **Message server** (`snap_tcpsrvr.cpp`, `snap_threads.cpp`): `TCustomMsgServer`
  is the base of both servers of `plc`. State: the list `Workers`,
  `ClientsCount`, `Status`, the critical sections `CSList` and `CSEvent`, one
  listener and many worker threads. Operations: `Start`, `Incoming`, `Delete`,
  `DoEvent`, `Stop` with `TerminateAll` and `KillAll`. Hard: reads outside the
  locks, threads killed by timeouts, threads that free themselves. Correct: the
  count agrees with the list, the limit is kept, a slot has one owner, every
  client is reported and accounted for once, `Stop` ends and is final.
* **Event queue** (`TMsgEventQueue`): a ring of 1500 events that nobody empties.
  Correct: the first events stay, the later ones are dropped.
* **Message socket** (`snap_msgsock.cpp`): a stream of bytes, reads of a number
  of bytes with a timeout, `Purge`. **ISO on TCP** (`s7_isotcp.cpp`): telegrams
  in fragments, put together in the buffer that also holds the answers. Hard:
  pieces, several messages at once, refusals half way, timeouts, leftovers in the
  buffer. Correct: what is performed is what one message carried, once, in order;
  a worker ends when its client has left.
* **S7 worker** (`s7_server.cpp`): one request at a time per connection; areas,
  blocks, diagnostic jobs, SZL sequence numbers and the CPU status are shared by
  all workers. Correct: what is read is what was written, a packet of a list is
  followed by the next of the same list, a job is in the table once and never
  deleted twice.
* **Modbus worker** (`modbus_server.cpp`): the byte stream of requests, and
  functions on the same areas, without their locks.
* **PLC memory** (`plc_device.cpp`): area containers (a fixed table of
  pointers), and `srvCallback`, which prints events from both servers.
* **Capture** (`src/cap/main.cpp`): two threads that share a handle; prints packets.
* **SQL connection** (`SqlHelper.java`): a queue, one thread, one JDBC
  connection. Correct: each statement executed or given up once and in order,
  none forgotten, no connection kept for nothing.
* **Port scan detector** (`IdsWorker.java`, `RecognizedIntrusion.java`,
  `PacketRecord.java`): packets by source, intrusions in memory, rows in the
  database. Correct: a source in one place, a packet counted once, the table
  follows the memory.
* **Terminals** (`Terminal.java`): one reader thread per process, dispatch by
  the text after the last `@`, a list under one monitor, `exit`. Correct: lines
  arrive whole, a number leads to its process, `exit` ends the process.
* **Integer counter, tables and texts, pages, demonstration client**: no state that
  two steps share, or data.

`PROJECT.json` lists the hazards of each with the properties that cover them.

## 2. Modules

| module | models | state and actions in the code |
|---|---|---|
| `ClientRegistry` | what a message server promises | - |
| `MsgServer` | `TCustomMsgServer` and its threads | `pc[t]` is the place of thread `t`; the variables are the fields of the class; one action per stretch of code between two accesses to shared state |
| `MsgServerProofs` | the inductive invariant and the theorems | - |
| `RegistryProofs` | events of the server, the refinement of `ClientRegistry`, the account of its clients | - |
| `MsgSocket` | the receiving side of `TMsgSocket`, the network, the client's close | `wire` and `stream` are what has not and what has arrived; one operator per call, used by the two modules below |
| `IsoTcp` | `isoRecvPDU`, `IsoPeek`, the loop of `TIsoTcpWorker`, dispatch in `TS7Worker` | `Payload`, `Offset`, `pData`, `NumParts`, `header` are the buffer `PDU` and the locals |
| `ModbusTcp` | `TModbusTcpWorker` as a reader of its stream | `mbap` and `body` are the header and request it has read |
| `Streams` | one connection with one of the two workers on top of `MsgSocket` | composes the three |
| `StreamsProofs` | invariants and theorems of what is performed and answered | - |
| `AreaAccess` | reads and writes of the areas by `TS7Worker` and `TModbusTcpWorker` | `pc[w]` is the place of worker `w` in its request; `mem` are the areas of `PLC`, `cs` their critical sections |
| `AreaAccessProofs` | invariants and theorems of reads and writes | - |
| `Blocks` | a `TS7AreaContainer` and the workers that download, upload, list and inspect its blocks | `PList`, `AreaCount`, `MaxIndex` are its fields, `heap` the areas; `pc` and `op` are place and locals of each worker's handler |
| `BlocksProofs` | invariants and theorems of the table of blocks, of downloads, lists and uploads | - |
| `SzlLists` | partial lists (SZL) in several packets | `counter` holds `sequence_nr` and `DURN` of the server, `FragmentMap` is each worker's |
| `DiagJobs` | the diagnostic jobs | `diag_requests` under `CSDiag` |
| `EventQueue` | `TMsgEventQueue` | its fields |
| `S7Services` | the other services of the S7 worker | composes the three; adds `CpuStatus`, its time and the diagnostic buffer |
| `S7ServicesProofs` | invariants and theorems of the queue, the jobs and the lists | - |
| `SqlHelper` | `SqlHelper.java`, `Terminal.exit` | `pc` is the place of the SqlConnection thread, `producer` that of each caller of `enqueue` |
| `Terminals` | `Terminal.java` with `SqlHelper` in it | `thread[t]` is the place of the thread of terminal `t`; `TERMINALS` and its `monitor`; the pipes, and what `cap` and `plc` do at their other ends (`phase`) |
| `TerminalsProofs` | invariants and theorems of `SqlHelper` and of `Terminals` | - |
| `IdsWorker` | `IdsWorker.java`, `RecognizedIntrusion.java`, and the tables | the lists of the class; `rows` is `ids_statistics` |
| `IdsWorkerProofs` | invariant and theorems of the detector | - |
| `Capture` | `src/cap/main.cpp` | places of its two threads, `adHandle` |
| `Detection` | a packet's way from the interface to the tables | composes `Capture` and `IdsWorker`: a packet is printed and received in one step |
| `MCMsgServer`, `MCAreaAccess`, `MCBlocks`, `MCStreams`, `MCServices`, `MCTerminals` | symmetry, requests, messages, clients of the runs | - |

Definitions marked `Defect:` are not part of any specification. Each is a
definition of the model with a plausible mistake in it, and shows that the
property it is listed with in `PROJECT.json` notices that mistake.

### MsgServer

Threads are the main thread, the listener, and one worker per connection. A
label of `pc` names the code that comes next. Every unlocked read or write of
`ClientsCount`, `Workers`, `Terminated` is a step of its own, so is every
statement inside `Delete` and `Incoming`, because another thread may look, or
kill the thread, in between. `DoEvent` is `EnterEvent` and `LeaveEvent`; the
label at which it is called is the event it reports. The events themselves are
kept as history: `trail[c]` for each connection, `journal` for the server.

What is abstract. One `WorkerSocket->Execute` is one step that may report an
event, end the connection, or throw. Handles and ports are not kept; a
connection is its own handle, and `sender` is whom the listener's next event
names. Timeouts are not measured: with `Prompt = FALSE` `WaitFor(ThTimeout)` and
the wait for `WkTimeout` may run out at any time; with `Prompt = TRUE` only when
the thread waited for can never finish. The use of a deleted object either goes
through or ends the process (`KillCrash`). `StartTo`, the second server and a
restart do not occur: `main` starts each server once and stops it once, and the
destructor's `Stop` finds `Status` already `SrvStopped`, so `Destroying` is never
true while a thread runs. Where `DoEvent` puts an event is the subject of
`EventQueue`.

`MsgServer` implements `ClientRegistry` (`ImplementsRegistry`): the phase is read
off `Status` and `pc[Main]`, `open` is the set of the workers in the list.

### MsgSocket, IsoTcp, ModbusTcp, Streams

A client sends messages of packets; of a packet, two units stand for its header
and one or more for its data, and a unit says where it belongs, so that what ends
up in a request tells where it came from. Units arrive one at a time, and the
client may leave at any of them. A call that waits is enabled when there is
enough, and may time out when there is not. `Purge` reads `TrashSize` units at a
time, and after a full read it reads again, which may wait for the client.

`isoRecvPDU` is `NextFragment` (where the data goes, `pData`), the header, the
tests, the data, for each fragment; then `IsoPeek` and the dispatch by PDU type.
The buffer keeps what it held: a PDU that `CheckPDU` refuses is still looked at,
and what lies in it may be from an earlier message or the last answer. A Modbus
request is the header, the test of `Length`, the body (with a count of bytes for
the functions that write several values), and an answer, an exception or
neither. Bytes that are no header and are read as one, because something before
them was refused or timed out, may look like any header: `Misread` says which,
of any type and length, for S7, and `Values` do so for the fields of Modbus.

What is abstract. Which function a request names is its kind: answered, silent,
or of a type that is neither. Socket calls other than receiving may fail at any
time. The fields of the control PDUs are not kept.

### AreaAccess

A request of an S7 client is `Receive` (the beginning of `PerformFunctionRead` or
`PerformFunctionWrite`), then for each item the checks of `ReadArea` or
`WriteArea` (`RefuseItem`, `AcceptItem`), and for an accepted one `Enter`, a
`CopyByte` per byte, `Leave`; a bit is written by `LoadBit` and `StoreBit`, which
take no lock. `Send` and `DoEvent` follow: an event per item when there are
several, one after the answer for a single item. `PerformFunctionNegotiate` clips
the PDU length. A Modbus request is `PerformFunction` with the tests of the
function, then the stores of `CopyBit`, `CopyBits` or `memcpy`, none of them under
the lock, then `SendBuffer`. A byte is the set of its bits. `touched` is history:
the bytes stored past the lock of a worker while it holds it.

What is abstract. Addresses and lengths are those of the request, its header and
return codes are names. A request of Modbus is inside its area or clearly outside:
some tests round down, and what lies behind an area is not modelled. `ForcePDU` is
0 in `plc`. Data blocks are not replaced while they are in use (that is the
subject of `Blocks`), and items of characters and reals are left out.

### Blocks

The table has no lock, so every read or write of it that another worker can tell
from the next is a step: `Find` and `Fetch`, `Remove`, `TakeOut`, `DeleteArea`,
`CountDown`, `NewArea`, `Add`, `Store`, `CountUp`, `RaiseMaxIndex`. `IndexOf` is a
loop, one slot a step (`Pass` to the next, `Hit`, or `Miss` at the end), which
follows whatever pointer it finds; `FindFirstFree` is one look at the table, as a
download is the only one to use it. Numbers and lengths are words in the table and
in an area, while a download reads longwords: `Word` cuts them off where the code
does. Upload and download receive within the handler
and look at no error. The PDU buffer then holds the message the worker sent last,
and it is taken for the client's: `WriteStale` (its data length, 0 - 4 as a word,
is 65532 and its mark says that it is the last packet) and `BreakUpload`. What the
code leaves undefined ends the process (`Crash`) or goes through with any value:
a deleted area, a slot behind the part of `PList` that the constructor cleared,
which may seem to hold any number, a write past `buffer`. `disturbed` is history: a download changed the table while the
request was worked on. The length an upload announces is what `NumToAscii` makes
of it, which is its digits from the last to the first.

What is abstract. One container stands for the five; a PDU comes in one
fragment. A worker whose upload finds no block ends; its client's next connection
is the same worker of the model. A new area takes the lowest free name.

### S7Services: SzlLists, DiagJobs, EventQueue

`GetNextSeqNr` and `GetNextDURN` are unlocked increments with a test for the last
number after them, so a load, a store and a test are steps. A list of several
packets waits in the worker's `FragmentMap` under its number. `SFun_ReqDiagT2` is a
search for an id inside `CSDiag`, one step per id, and then a second critical section
that stores the job; `SFun_RemoveDiag` removes before the answer and again after
it, and a VarTab, whose `evs` and `job_id` nobody sets, may find there what makes it
remove job 0 (`VarTab`). A control of the CPU is answered and reported in one step and
carried out in a later one. Whatever is reported is inserted into the queue, which
either starts empty or is full already, as it is after the server has been up for a
while.

What is abstract. The bytes of the lists; which are made up from the server's state
is kept (`sent`). Clients that use different services meet only in the queue and in
the counters, so a run has a mix of clients (`Mixes`) for each group of services. The
answers of diagnostic jobs, the cache of lists, `SetParam` and other functions that
nothing in the program calls are left out.

### SqlHelper

`enqueue` is `Add`, then `Notify`: between them, or while the SQL thread is
busy, the notify finds nobody waiting. `executeSql` is one step with every
outcome JDBC allows: no connection, no statement object, a refused statement, a
lost connection. `Exit` and `Halt` are `Terminal.exit`, with no bound on how far
the threads get in its three seconds.

### Terminals

The thread of a terminal reads a line and does what stands after its `@`:
`EnqueueAdd` and `EnqueueNotify` for `SQL`, a command (`Exec`, `AddTerminal`,
`ExitCommand`), or `Enter`, `Write`, `NewLine`, `Flush` for the terminal with an
index, all four inside the monitor of `TERMINALS`; `Flush` waits while the pipe is
full. A process may end at any time, and `ReadNull` goes on for ever when one has.
The detector is a thread that enqueues.

When a process reads depends on what it prints, as `selectDevice` and `AskForUserId`
do both in one thread: `phase` is "prompt" while it prints and does not read, "answer"
while it waits in `std::cin`, "work" when one thread reads and others print, and "deaf"
when nobody will read again: after the `q` (`main` of `plc`, `blockUtilQuit` of `cap`),
or after an input that makes `std::cin` fail. So a process that prompts with its pipe
full does not read, and `Flush` into it waits.

What is abstract. A line is its destination; that it was a number, a `q` or neither is
a choice of the phase that follows (`AfterRead`). A pipe holds whole lines. `Mixes` says
what operator and processes print in a behaviour; a process in "prompt" at the last
line of its bound goes on to wait or to work.

The steps of `SqlHelper` are conjoined in those of `Terminals`, which change its
variables in no other way; its terminals and the detector are the `Producers`.

### Capture, IdsWorker, Detection

The main thread of `cap` chooses an interface, opens it, and prints packets; the
other one sets `adHandle` to NULL when it has read a `q`. The work loop of the
detector is `RemoveRecords`, one `RemoveIntrusion` per intrusion (the last first),
one `Collect...` per packet, `RecognizeIntrusions`, and one `CollectRecords` per source
that has sent too much; terminals add packets and the SQL thread executes
statements between any two of these. The clock is coarse, and `Tick` waits for the detector
when a packet would be older than `MaxDelay`, which stands for the pipe and the
sleep of 5 s and is at most `MEMORY_TIMEOUT` (60 s). Statistics other than the
number of packets and the last time are sums over the same packets and are left
out. The database executes or refuses a statement. Of a packet, its source is kept.

## 3. Runs

| run | instance | shows |
|---|---|---|
| `server_timeouts` | 3 connections, 3 slots, limit 2, timeouts at any time | types, list against count, limit, slots, silence after `Stop`, each client's events |
| `server` | 2 connections, 2 slots, no limit, prompt threads, fairness | refinement of `ClientRegistry`; every client accounted for once; `Stop` ends; slots come back |
| `streams` | one client of each server, all sequences of two of 13 (8) messages | what is performed is what was sent, once and in order; nothing is lost without a cause; a refused request is not read on as the next; the worker ends |
| `iso_fragments` | a message of three fragments | finding: the third fragment is put too far |
| `areas` | 2 S7 clients, 1 Modbus client, areas of 1 to 3 bytes | bytes copied under the lock are whole; every item reported as answered; every request is answered |
| `areas_pdu` | 1 S7 client | finding: reads larger than the PDU |
| `blocks` | 1 client that downloads, 1 that reads, 1 block at first, 4 numbers of which two are the same word | packed table; only whole blocks get in; a refused one leaves the old; exact lists and uploads |
| `blocks_download` | 1 client | finding: the block of a successful download is not what was sent |
| `services` | 3 connections from 2 hosts, 3 ids, 3 jobs, counters up to 3 | lists go on in order; jobs do not dangle; a client alone on its host keeps its jobs; the search for an id ends; the queue keeps the first events |
| `szl_units` | 1 client, the counters of the program | finding: a list with two data units |
| `pagoda` | console, 2 processes, detector, 2 statements each, pipes of one line, fairness | lines whole, numbers right, statements usable and in order; the monitor is left unless the process written to has stopped reading, `exit` ends, the queue drains, idle connections close |
| `ids` | 2 sources of which the filter excludes one, 4 packets, threshold 2, 3 ticks | one owner, one count from interface to table, table against memory |

Bounds. Three connections are one more than the limit and as many as the slots,
so rejection, a full list, the reuse of a slot and two clients inside while a third
comes all occur; two suffice for liveness and the registry since threads only wait
for each other in pairs. In `streams` a second message meets every state a first one
can leave behind; the payload holds 4 units, data has 0 to 3 and one message is
too large, so that each test has both outcomes; what is misread is a last packet, one
that is not the last, or a bad one; a trash read of 3 units can be
exactly full. In `areas` two words and a byte overlap, so that a copy of two bytes
can be cut by another worker of either kind; the requests have one to four items,
refused ones of each kind, before and after good ones; PDU lengths are scaled to 2
to 4 bytes, which only have to lie around the size of a request. In `blocks` the
table has four slots of which two are cleared, and one block at first, so that it
grows to the end of the cleared part and beyond it; the stored block of 3 units needs
two chunks, one of 2 one or two packets, and packets can be too long; a word counts to
8, so that number 9 is stored as 1. Replacement, growth, a third block on a clean or on
an unset slot, and a full table occur. A list in a table whose unset slots are searched
is not followed (`Followed`, a constraint): it may name anything. One client
downloads at a time: the container has no lock and two break it, which no document
excludes; the hazard is listed. In `services` a list has three packets and the counters
start again after 3, two lists can be under way and two abandoned; three jobs
fill the three ids of a host, so that the search wraps and finds every id taken;
the queue holds two events, or is full. In `pagoda` two processes can be
started at once (each mix says how many), and pipes are full after one line, so that a
writer inside the monitor waits; in one mix a process prompts three times while lines
are sent to it, so that the process, its thread and a writer wait for each other; a statement is followed by another of its own thread and by one of a
second thread. In `ids` four packets are enough for a source to be recognized,
updated, forgotten and recognized again, or for two sources to be recognized side by
side (without the filter), and three ticks for both memory timeouts, one tick each.
Deadlock is not checked where the system may stop: the programs end, and a worker whose
client is silent waits.

Fairness. The operating system runs every thread that can run, callbacks and
JDBC calls return, and timers run out: weak fairness of the threads' steps. A
critical section of Windows is not handed over in turn; but threads only enter
`CSList` twice in their lives, and for `CSEvent`, which requests enter for ever,
strong fairness is assumed of each thread that waits, as it is for the critical
section of an area (`Enter` in `AreaAccess`). In `Streams` only the worker is fair, in
`S7Services` only a worker that is inside `CSDiag`. In `Terminals` each thread is, and the
sleep of `exit` ends; of a process it is assumed only that it goes on with what it is at:
one that prompts prints when its pipe takes a line, one that waits for input, or has a
thread for it, reads a line that is there. One that prompts need not come to read, one
that has read may never read again, and nobody has to print otherwise or to end.
The console takes what is written to it.
Nothing is assumed of clients or of the user. An idle JDBC connection can be
closed at one of infinitely many attempts (strong fairness).

## 4. Proofs

TLAPS checks these for all values of the constants.

`MsgServerProofs`, for every set of connections, length of the list, limit and
thread speed:

* `TypeCorrect`: `TypeOK` always holds; in it, `ClientsCount` is never negative;
* `ListAccounting`: `CountMatchesList`;
* `LimitKept`: `WithinCapacity`;
* `SlotsExclusive`: `OwnSlot`.

All follow from one inductive invariant, `IInv` (theorem `Inductive`), since none
is inductive alone. `ListLock` says who holds `CSList` by the labels, a killed
listener included. `Receiving` carries what `CanAccept` and `FirstFree` saw to the
step that uses it: workers can only lower the count and free slots meanwhile.
`SlotsOwned` ties `Workers` and `Index` together. `Balance` states the count at
every label inside `CSList`, where it is one off between two statements, and that
`KillAll` has emptied the list before it gives the lock back; `Joined` says that
the listener is gone by then; `Sweeping` bounds the loop of `TerminateAll`. Each
part has a lemma with one step per action. The assumptions are that threads are
distinct, connections finite in number, and the list not empty.

`RegistryProofs`, on top of `IInv`:

* `NothingAfterStop`: `QuietAfterStop`. From the wait for the clients on nobody serves
  (`Silent`). For a listener that was killed inside `CSList`, `LockLeft` says that the
  count it left is the length of the list or one less, the one being a worker it
  had not started: so even then a count of 0 means that nobody serves;
* `EachReportedOnce`: `ReportedOnce`. `TrailsOK` says what may have been reported at each
  label, `SenderOK` that what the listener is about to report has not been;
* `ThreadsImplementRegistry`: `ImplementsRegistry`, for prompt threads only, as a
  killed listener leaves the lock taken. `Registered` ties `Status` to the labels of
  `Stop`; `RegistryStep` maps each action to a step of the registry or to none. The
  moment a client is admitted is the write to `Workers`, the moment it is
  released the write of `NULL`;
* `NobodyLost`: `SessionsBalance`, for prompt threads. `Parted` says at each label of a
  worker whether it has taken leave and whether it is in the list still; the workers
  that are in neither are the ones `Stop` counts (`DroppedCounted`): each step of
  `TerminateAll` and `KillAll` adds one to both sides or changes neither.

`TerminalsProofs`, about `SqlHelper`, for any number of callers and statements:

* `StatementsUsable`: `StatementUsable`, the statement object the thread uses
  belongs to the open connection;
* `OrderKept`: `InOrder`, what was executed or given up, what is in hand and
  what waits are together the statements in the order they were added.

Its `IInv` adds `Hands` to the properties: the statement in the hands of the thread
is there exactly while `executeSql` runs. A statement moves from the queue to
the hand to `handled`; `MoveHead` and `HandledAppend` say that the concatenation of
the three stays the same, and each action is one of these moves or none.

and about `Terminals`, for any number of processes, sizes of pipes and lines:

* `OrderKeptInProcess`: `InOrder` in the whole process. That the variables of `SqlHelper` only
  change by its own actions is how `Terminals` is written (lemma `ProcessUsesSqlHelper`, from
  the assumption that the terminals are among the producers), so `OrderKept` carries over;
* `LinesStayWhole`: `LinesWhole`. A line is in the pipe whole because it was in
  the buffer whole: `Buffered` says that all buffers are empty but the one of the
  terminal that the thread inside the monitor writes to, and that one holds what
  the label of the thread says; `Inside` says that there is one such thread;
* `NumbersLead`: `Numbered`.

`S7ServicesProofs`, for any connections (finite in number), hosts, ids, capacity:

* `EarliestEventsKept`: `EarliestKept`. Each step of the services is one `Insert` or
  leaves the queue alone (`QueueStep`), and with `IndexOut` at 0 the queue is full
  before `IndexIn` would start again;
* `NoJobDangles` and `AloneKeepsJobs`: `NoDanglingJob`, `AloneKeeps`. The invariant `JInv` adds
  that objects not made yet are not deleted (`Fresh`), that the bound on their
  number, checked before the search, still holds when one is made (`WithinBound`, by
  counting the connections between the two), and that a connection alone on its
  host finds the id it has looked up still free (`AloneFinds`), which is what fails
  when two connections of a host race.

In the same module, for any numbers of lists and packets and any range of the
sequence number:

* `ListsGoOn` and `PacketsInTurn`: `Continues`, `InTurn`. The properties are about clients
  that read one list at a time and abandon fewer than the number's range (`Reliable`).
  Under that condition `OneList` says that one worker at most is in a list, in one of
  four phases (`Beginning`, `Opening`, `Pausing`, `Continuing`), and that the counter, through
  its load, store and test, gives that list the number after those of the abandoned
  ones, under which the `FragmentMap` of the worker has the packet that comes next.

`BlocksProofs`, for any numbers, lengths of blocks, packets and table, any number of
clients that read:

* `BlocksPacked`, `RefusalKeepsBlock`, `ListsAreExact`, `UploadsAreWhole`: `Packed`,
  `RefusedKeepsBlock`, `ListExact`, `UploadIsWhole`, all from `BlocksInductive`, which says
  `InCleared => BInv /\ RInv`: as long as no search comes to slots the constructor has not
  cleared, both invariants hold. `MaxIndex` never sinks (from `DInv`, which holds without
  that condition), so what is cleared now was cleared in every state before, and
  the step from one to the next can be taken. `BInv` follows a
  download through the steps of the exchange: which slot is the gap (`Gaping`), that
  the blocks and the gap together are the first slots (`Prefix`), that each block in
  the table exists and is the only one of its number (`TableOK`), and for each label what
  has become of the old block (`Downloading`); of a search under way it says that the slots
  passed do not hold the number (`SearchIs`, `PassStep`). `RInv` says of every reader that either
  the table has changed under it (`disturbed`) or its locals still agree with the table.
  The hypothesis is `OneProgrammer`: with two clients that download at once all four are
  false, as the container has no lock (the hazard at `s7_server.cpp:1045`);
* `InstalledBlocksWhole`: `InstalledIsWhole`, for any number of clients that download and whatever
  is searched, since a download counts what it receives in locals only (`DInv`).

The assumptions on constants are that the blocks loaded at the start are distinct and
fit into the cleared part of the table, numbers and lengths are natural numbers, a word
counts beyond 4, clients that download are finite in number, and `NULL` and an uninitialized
pointer are no areas.

`IdsWorkerProofs`, for any sources, thresholds, timeouts and traffic, about `Detection`,
that is, the detector fed by the capture program:

* `SourcesOwned`: `OneOwner`, from `Placed`, which says it with indices;
* `PacketsCountedOnce`: `CountedOnce`. It is inductive with `Placed` and `Over`. The latter keeps
  a forgotten intrusion apart from the next one of its source, as `past` is a set: the
  earlier one ended before the other began. For this the times have to be in order from
  the queue to the intrusions (`Arrived`, `Collected`, `Tracked`), and a packet must not wait
  longer than an intrusion is remembered, `MaxDelay <= MEMORY_TIMEOUT`;
* `TableFollows`: `RowsFollowMemory`. `Entry` is what a table says of one intrusion: no row, one
  row, or several. `Follows` relates the entry in the table that the queue leads to with
  memory; `Heard` says that rows and INSERTs are only about intrusions that have been
  saved, so the first statement of an intrusion makes its only row. A new statement acts on the
  table at the end of the queue, and executing the first changes nothing there
  (`FoldAppend`, `FoldTail`).

The sums and the table are folds, defined by recursion. What is needed of them is
obtained without induction: a fold over a sequence is the end of the run of its
tables (`FoldIs`), a sum is the number of elements of a set of pairs (`CountOfIs`), and
if that failed there would be a least index, or a least set, where it does
(`LeastNumber`, `LeastSubset`). `RemoveIfIs` says the same way that `removeIf` keeps the order
of what it leaves.

`AreaAccessProofs`, for any workers, areas and requests:

* `WholeCopies`: `CopyIsWhole`. The property speaks of the end of a copy only, so the
  invariant `CInv` says the same of the bytes copied so far (`CopiedSoFar`). Such a byte
  lies inside the area (`Checked`), the area belongs to the worker (`Locked`), so no
  other copy can change it, and who stores past the lock enters the byte in
  `touched`. Lemma `Undisturbed` says what a step must leave alone for that, `AreasAlone` and
  `StoredPast` apply it, and each action has its lemma;
* `ReportsMatch`: `ReportedAsAnswered`, from `RInv`, which counts what is answered by the
  item that is next and says where the events are at each label.

The assumptions are that S7 and Modbus workers are distinct, sizes are natural
numbers, and the items of a request a sequence with addresses and lengths.

`StreamsProofs`, for any clients, sizes of the payload, fragments and trash reads:

* `RequestsInOrder`: `InOrder`, from `OrderInv`. What is not read yet is a line without a
  gap (`Line`), of which a step takes some units from the front or nothing (`Moved`); so
  what was read comes before all that is still to come (`Later`), whatever `Purge` took.
  For the S7 server what lies at the start of the buffer comes after everything
  performed; once it has been performed the answer lies there, and what is refused
  later and looked at nevertheless finds no request;
* `RequestsAreWhole`: `Whole`, from `WholeInv`. `Partial` says what is in the buffer of the message
  whose first unit is there: all of it with nothing to come, or its first packet with
  the second one next in the line. What a refused PDU leaves to `IsoPeek` is covered by
  `Fits`: if the length in the header is the one of the message, the message is all
  there. The hypothesis is `TwoAtMost`, no message in more than two packets, which is
  what the run `iso_fragments` shows to be needed;
* `NothingIsLost`: `NothingLost`, from `LostInv`, with no bound on the packets of a message.
  As long as nothing was thrown away and every message begun is one the property
  speaks of (`Good`), `IsoPlaces` and `ModbusPlaces` say of each place of the reader which unit
  comes next and which messages have been served. For a message in packets `Within`
  ties `Offset` to the sizes of the packets so far (`Sums`), so that what `header.len`
  ends up with is the size of the message (`RoomLeft` says that there is room until then).
  A message that was good after a step was so before it (`GoodBefore`), as `Handled` only grows.

The data of a message and the units of a script are folds; `FlattenLinked` and
`FlattenLengths` say of them what is needed, again with a least index. `ScriptsAssumption`
is what the code and the protocol give: a header that `CheckPDU` passes announces no more
than the payload holds (`s7_isotcp.cpp:56`), the S7 header is in the first data unit,
and a Modbus message is one packet.

Model-checked only: liveness (`StopCompletes`, `SlotReturned`, `Answered`, `Ends`,
`SearchEnds`, `Freed`, `Exits`, `Drained`, `Disconnects`: with fairness or `ENABLED` they are
out of TLAPS's reach), and `AnswersBelong`, which has no proof yet.

## 5. Findings

* `areas_pdu`: the test of the sum of the items against the PDU compares unsigned
  values (`s7_server.cpp:390`), so it refuses only an item of exactly the
  remainder, and answers larger than the negotiated PDU are built.
* `blocks_download`: what a client downloads never gets into the area made for it
  (`s7_server.cpp:1046`).
* `iso_fragments`: `pData` is advanced by the size of all fragments so far in every
  turn (`s7_isotcp.cpp:457`), so from the third fragment on the data is not where
  the diagram above the function puts it.
* `szl_units`: the data unit reference changes between two packets of one list when its
  counter starts again (`s7_server.cpp:2796`).

What the models showed on the way, and no document contradicts:

* A worker told to terminate before its thread has entered `ThreadProc` never calls
  `Delete`; `Stop` waits out `WkTimeout` and uses a pointer to an object that freed
  itself (`snap_tcpsrvr.h:176`; `KillCrash`).
* When the INSERT of an intrusion fails once, it never gets into the database: all
  later statements about it are UPDATEs (`RecognizedIntrusion.java:106`). The packets
  and intrusions of `RowsFollowMemory` exclude such failures (`failed`).
* Two lists under way at once, or 254 abandoned ones, mix up sequence numbers
  (`Continues` holds for one at a time, which is what the TODO at `s7_server.h:343`
  allows); after the wrap a list is stored under 0xFF and announced as 0.
* `freeDiagJobID` never leaves `CSDiag` when one host has all ids
  (`s7_server.cpp:2827`; `SearchEnds` excludes it), two connections of one host may be given
  the same id (`AloneKeeps` excludes it), jobs stay when their connection ends.
* `CpuStatus` is set after the answer and the event, not through `SetCpuStatus`: list
  0x124 gives an old time, and two clients' stop and start may be reported in one
  order and carried out in the other.
* `evs` is used unset for a VarTab and some cyclic requests (`s7_server.cpp:1075`, `1388`).
* A conforming Modbus request to write several values, its data counted in `Length`,
  is refused without an answer; `Purge` waits for the client after an exactly full read.
* A blank command ends the thread of its terminal (`Terminal.java:97`).
* A terminal thread that writes to a process may stay inside the monitor of `TERMINALS` for
  ever, and with it every thread that sends a line to a terminal or starts a process
  (`Terminal.java:75`). Two ways lead there (`Wedged`; `Freed` says that no other does):
  the process prompts and does not read, while the thread that drains it waits for the
  monitor with the prompt before, a line `@0`, is itself the one that writes, or has
  ended; or the process has stopped reading, after
  its `q` (`cap/main.cpp:118`, `plc/main.cpp:11`) or a failed `std::cin`. Pipes have to be full for
  that. In `cap` a choice that is no number makes `std::cin` fail and the prompt
  repeat for ever (`cap/main.cpp:64`), and nothing that is sent to it is read any more.
* The capture runs unfiltered when the filter cannot be set (`cap/main.cpp:110`).
* A block number beyond 65535 is cut to a word: a download of 65537 replaces block 1
  (`s7_server.cpp:1045`, `plc_device.cpp:3`).
* A Modbus message with an unknown function, or whose length is not the one in its header,
  leaves a rest that is taken for the next header (`modbus_server.cpp:111`; `LeavesRest`).
* `NumToAscii` reverses the digits (`snap_sysutils.cpp:124`) that `AsciiToNum` reads.

## 6. What is not modelled, and what comes next

Not modelled: constant tables and texts (data); `IntegerCounter` (a map; the
detector's use of it is modelled by its meaning); the web pages, the analysis pages and
the demonstration client (one request at a time, no state of their own). Within modelled
components: the bytes of lists and block heads, items of characters and reals, the
client's side of ISO on TCP, functions nothing calls, and `srvCallback`, whose lines
of two servers may mix on the standard output, as one print is several writes
(`plc_device.cpp:170`).

Next: the output of two servers as a module between `MsgServer` and `Terminals`.
