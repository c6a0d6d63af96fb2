------------------------------ MODULE Detection ------------------------------
(***************************************************************************)
(* From the interface to the tables: the lines of the capture program      *)
(* (Capture) reach the detector (IdsWorker) in the order they are printed, *)
(* through a pipe and the thread of a terminal.  What waits in the pipe is *)
(* counted to newRecords here.                                             *)
(***************************************************************************)
EXTENDS Capture, IdsWorker

DetectionInit == CaptureInit /\ Init

\* The line "{...}@IDS" of a packet.
ReportPacket(a) == PrintPacket(a) /\ Receive(a)

\* Time is counted from the start of workLoop; before, there is nothing to see.
Starting == main \in {"selectDevice", "open"}

DetectionNext ==
    \/ CaptureStep /\ UNCHANGED vars
    \/ \E a \in Addrs : ReportPacket(a)
    \/ ~Starting /\ Detect /\ UNCHANGED capture

DetectionSpec == DetectionInit /\ [][DetectionNext]_<<capture, vars>>
=============================================================================
