----------------------------- MODULE BlockRange -----------------------------
(***************************************************************************)
(* What SubstateTaskPool.Execute promises its caller: TaskFunc is run at   *)
(* most once per block and never after Execute has returned; nil is        *)
(* returned only when every block of the range ran without error, and an   *)
(* error only when some block failed.                                      *)
(***************************************************************************)
EXTENDS Integers

CONSTANTS Blocks, MayFail

VARIABLES runs, failed, outcome

vars == <<runs, failed, outcome>>

Init ==
    /\ runs = [b \in Blocks |-> 0]
    /\ failed = {}
    /\ outcome = "running"

Run(b) ==
    /\ outcome = "running"
    /\ runs[b] = 0
    /\ runs' = [runs EXCEPT ![b] = 1]
    /\ failed' \in {failed} \cup (IF b \in MayFail THEN {failed \cup {b}} ELSE {})
    /\ UNCHANGED outcome

ReturnNil ==
    /\ outcome = "running"
    /\ failed = {}
    /\ \A b \in Blocks : runs[b] = 1
    /\ outcome' = "nil"
    /\ UNCHANGED <<runs, failed>>

ReturnErr ==
    /\ outcome = "running"
    /\ failed # {}
    /\ outcome' = "err"
    /\ UNCHANGED <<runs, failed>>

Next == (\E b \in Blocks : Run(b)) \/ ReturnNil \/ ReturnErr

Spec == Init /\ [][Next]_vars
=============================================================================
