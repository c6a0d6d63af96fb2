----------------------------- MODULE MCTerminals -----------------------------
(* A console that starts two processes, for TLC. *)
EXTENDS Terminals

Named(names) == [to : names, index : {0}]
ToTerminal(indices) == [to : {"terminal"}, index : indices]

\* Statements and packets; a process that is written to while it asks and
\* prints; commands.
MixesDef ==
    {[typed |-> Named({"SQL", "IDS", "exit"}), atMost |-> 2, processes |-> 0, printed |-> {}, each |-> 0],
     [typed |-> Named({"run"}) \cup ToTerminal({1}), atMost |-> 3, processes |-> 1,
      printed |-> ToTerminal({0}), each |-> 3],
     [typed |-> Named({"run", "exit", "blank"}), atMost |-> 2, processes |-> 2,
      printed |-> Named({"nobody"}) \cup ToTerminal({0}), each |-> 1]}
=============================================================================
