---------------------------- MODULE MCMsgServer -----------------------------
(* Model checking of MsgServer: the connections are interchangeable.  Only *)
(* the runs without liveness use the symmetry.                             *)
EXTENDS MsgServer, TLC

ConnSymmetry == Permutations(Conns)
=============================================================================
