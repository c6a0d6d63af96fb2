------------------------------ MODULE MCBlocks ------------------------------
(* Blocks of the runs. *)
EXTENDS Blocks

MCLoaded == <<1>>

\* A list of a table in which slots that were never set are searched is not
\* followed: nothing is said of what it names.
Followed == InCleared \/ \A w \in Readers : op[w].fun # "list"
=============================================================================
