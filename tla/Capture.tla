------------------------------- MODULE Capture -------------------------------
(***************************************************************************)
(* The program that captures packets (src/cap/main.cpp), a child process   *)
(* of PagodaTree: its main thread lets the operator choose an interface,   *)
(* opens it with a filter that leaves out the host itself, and prints the  *)
(* header of each packet as a line for the detector, until a second thread *)
(* has read a 'q'.  The two share adHandle, without a lock, and the        *)
(* standard input, one after the other.  WinPcap is the system's.          *)
(***************************************************************************)
EXTENDS Integers, Sequences

CONSTANT OwnAddress         \* the first of the interface, which the filter excludes

VARIABLES
    main,                   \* place of the main thread
    adHandle,               \* "NULL" or "open"; workLoop goes on with a copy of it
    filter,                 \* pcap_setfilter has set it
    cin,                    \* "good", or "failed" for ever
    blockUtilQuit           \* the other thread

capture == <<main, adHandle, filter, cin, blockUtilQuit>>

CaptureInit ==
    /\ main = "selectDevice"
    /\ adHandle = "NULL"
    /\ filter = FALSE
    /\ cin = "good"
    /\ blockUtilQuit = "none"

\* The process is gone, and with it both threads and the handle.
ExitProcess ==
    /\ main' = "ended"
    /\ adHandle' = "NULL"
    /\ filter' = FALSE
    /\ cin' = "good"
    /\ blockUtilQuit' = "ended"

-----------------------------------------------------------------------------
(* selectDevice and startCapture *)

\* exit(1): the devices cannot be listed, or there are none.
NoDevices == main = "selectDevice" /\ ExitProcess

\* cin >> index: what is no number makes cin fail, and the loop then asks again
\* and again without reading anything.
SelectDevice ==
    /\ main = "selectDevice" /\ cin = "good"
    /\ \/ main' = "open" /\ UNCHANGED cin
       \/ cin' = "failed" /\ UNCHANGED main
    /\ UNCHANGED <<adHandle, filter, blockUtilQuit>>

\* Without a handle, or with one and no filter where the filter cannot be
\* compiled or set, main goes on all the same, and creates the thread.
StartCapture ==
    /\ main = "open"
    /\ \/ UNCHANGED <<adHandle, filter>>
       \/ adHandle' = "open" /\ filter' \in BOOLEAN
    /\ main' = "workLoop"
    /\ blockUtilQuit' = "get"
    /\ UNCHANGED cin

-----------------------------------------------------------------------------
(* blockUtilQuit *)

GetQuit ==
    /\ blockUtilQuit = "get"
    /\ adHandle' = "NULL"
    /\ blockUtilQuit' = "sleep"
    /\ UNCHANGED <<main, filter, cin>>

\* exit(0), three seconds later, wherever the main thread is.
Exit == blockUtilQuit = "sleep" /\ ExitProcess

-----------------------------------------------------------------------------
(* workLoop and the end of main *)

\* lcHandle = adHandle, and if that is not NULL, the loop goes on with lcHandle.
WorkLoop ==
    /\ main = "workLoop"
    /\ main' = IF adHandle = "NULL" THEN "bye" ELSE "pcap_next_ex"
    /\ UNCHANGED <<adHandle, filter, cin, blockUtilQuit>>

\* A timeout, and the loop goes on.
NoPacket ==
    /\ main = "pcap_next_ex"
    /\ main' = "workLoop"
    /\ UNCHANGED <<adHandle, filter, cin, blockUtilQuit>>

\* "Error reading packets, capture aborted".
ReadError ==
    /\ main = "pcap_next_ex"
    /\ main' = "bye"
    /\ UNCHANGED <<adHandle, filter, cin, blockUtilQuit>>

\* A packet from a passes the filter and is printed.
PrintPacket(a) ==
    /\ main = "pcap_next_ex"
    /\ filter => a # OwnAddress
    /\ main' = "workLoop"
    /\ UNCHANGED <<adHandle, filter, cin, blockUtilQuit>>

Bye == main = "bye" /\ ExitProcess

CaptureStep ==
    \/ NoDevices
    \/ SelectDevice
    \/ StartCapture
    \/ GetQuit
    \/ Exit
    \/ WorkLoop
    \/ NoPacket
    \/ ReadError
    \/ Bye
=============================================================================
