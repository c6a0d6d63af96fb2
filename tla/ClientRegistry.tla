--------------------------- MODULE ClientRegistry ---------------------------
(***************************************************************************)
(* What a TCustomMsgServer (src/plc/snap_tcpsrvr.h) promises about the     *)
(* clients it serves, without threads, locks, slots or timeouts: clients   *)
(* are admitted only while the listener is up and there is room, each at   *)
(* most once, and the server is closed only when none is left.             *)
(* MsgServer implements it (see Registry in MsgServer).                    *)
(***************************************************************************)
EXTENDS Naturals, FiniteSets

CONSTANTS
    Conns,      \* the connections clients may make
    Capacity    \* how many are served at once, at most

VARIABLES
    phase,      \* "down", "up", "draining" or "closed"
    open,       \* the connections being served
    admitted    \* every connection that was ever admitted

vars == <<phase, open, admitted>>

Init ==
    /\ phase = "down"
    /\ open = {}
    /\ admitted = {}

Open ==
    /\ phase = "down"
    /\ phase' = "up"
    /\ UNCHANGED <<open, admitted>>

Admit(c) ==
    /\ phase = "up"
    /\ c \notin admitted
    /\ Cardinality(open) < Capacity
    /\ open' = open \cup {c}
    /\ admitted' = admitted \cup {c}
    /\ UNCHANGED phase

\* A client leaves, or is dropped.
Release(c) ==
    /\ c \in open
    /\ open' = open \ {c}
    /\ UNCHANGED <<phase, admitted>>

Seal ==
    /\ phase = "up"
    /\ phase' = "draining"
    /\ UNCHANGED <<open, admitted>>

Close ==
    /\ phase = "draining"
    /\ open = {}
    /\ phase' = "closed"
    /\ UNCHANGED <<open, admitted>>

Next ==
    \/ Open
    \/ Seal
    \/ Close
    \/ \E c \in Conns : Admit(c) \/ Release(c)

Spec == Init /\ [][Next]_vars
=============================================================================
