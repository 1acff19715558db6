---------------------------- MODULE SubstateMap ----------------------------
(***************************************************************************)
(* What a copy of substates promises: a map from keys to whole substates,  *)
(* each of them the one of the source.  A crash may lose some of them, and *)
(* the command returns when none is missing.                               *)
(***************************************************************************)
CONSTANT Key
VARIABLES goal, store, done

mapVars == <<goal, store, done>>

Init == DOMAIN goal = Key /\ store = [k \in {} |-> goal[k]] /\ done = FALSE

Put(k) ==
    /\ ~done /\ store' = [x \in DOMAIN store \cup {k} |-> goal[x]]
    /\ UNCHANGED <<goal, done>>

Lose ==
    /\ ~done /\ DOMAIN store' \subseteq DOMAIN store /\ store' = [k \in DOMAIN store' |-> store[k]]
    /\ UNCHANGED <<goal, done>>

Return == ~done /\ DOMAIN store = Key /\ done' = TRUE /\ UNCHANGED <<goal, store>>

Next == (\E k \in Key : Put(k)) \/ Lose \/ Return

Spec == Init /\ [][Next]_mapVars
=============================================================================
