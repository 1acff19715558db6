--------------------------- MODULE MCRelatedFlow ---------------------------
(***************************************************************************)
(* RelatedFlow on all relations of a few pairs of users.                   *)
(***************************************************************************)
EXTENDS RelatedFlow, FiniteSetsExt

CONSTANTS MaxPairs, MaxCommon   \* bounds: related pairs, common addresses

MCRelations ==
    LET Pairs == {p \in User \X User : p[1] # p[2]}
    IN  UNION {[E -> {Block, Block + 1}] : E \in UNION {kSubset(k, Pairs) : k \in 0 .. MaxPairs}}

MCCommons == UNION {kSubset(k, User \ {Root}) : k \in 0 .. MaxCommon}

(* The user has withdrawn as much as it deposited, or twice as much by the *)
(* end of the transaction; the others have withdrawn and not deposited.    *)
MCFlows ==
    {[u \in User |-> IF u = Root THEN [deposit |-> 1, withdraw |-> w]
                     ELSE [deposit |-> 0, withdraw |-> 2]] : w \in {1, 2}}
=============================================================================
