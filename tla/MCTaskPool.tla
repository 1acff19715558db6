---------------------------- MODULE MCTaskPool ----------------------------
(* Instances of TaskPool for TLC. *)
EXTENDS TaskPool

MCNumTx == [b \in Blocks |-> b % 2]
=============================================================================
