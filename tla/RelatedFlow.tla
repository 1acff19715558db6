---------------------------- MODULE RelatedFlow ----------------------------
(***************************************************************************)
(* hunter/defi/check.go: CheckAttack adds to the flow of a user the flow   *)
(* of the users related to it, and of those related to them in turn        *)
(* (GetRelatedTokenFlow), and abnormalDetection compares the totals.  Go   *)
(* iterates over a map in any order; usedAddress is shared by the whole    *)
(* recursion.  CheckAttackInTx and GetRelatedTokenFlowInTx walk the same   *)
(* way.                                                                    *)
(***************************************************************************)
EXTENDS Integers, Sequences, FiniteSets, Functions

CONSTANTS
    User, Root,      \* the users, and the one that CheckAttack is called for
    Block,           \* the block of the flow at hand
    Relations,       \* bound: the relations (userRelatedMap) to consider
    Commons,         \* bound: the common addresses to consider
    Flows            \* bound: the flows of the users to consider

Flow == [deposit : Nat, withdraw : Nat]

(* updateUserRelatedMap relates no user to itself.                         *)
IsRelation(r) ==
    /\ DOMAIN r \subseteq {p \in User \X User : p[1] # p[2]}
    /\ \A p \in DOMAIN r : r[p] \in Nat

ASSUME RelatedAssumption ==
    /\ Root \in User /\ Block \in Nat
    /\ \A r \in Relations : IsRelation(r)
    /\ Commons \subseteq SUBSET (User \ {Root})
    /\ Flows \subseteq [User -> Flow]

VARIABLES
    related,   \* userRelatedMap: pairs of users, and the first block that relates them
    common,    \* commonAddressMap
    flow,      \* the totals of each user after the transaction of the flow at hand
    own,       \* the totals of the user at the flow at hand
    stack,     \* the frames of CheckAttack and GetRelatedTokenFlow
    used,      \* usedAddress
    verdict    \* "none" until abnormalDetection has run

input == <<related, common, flow, own>>
vars  == <<input, stack, used, verdict>>

(* A frame: its user, the keys its loop has still to visit, its totals.    *)
Frame == [user : User, todo : SUBSET User, total : Flow]

Call(u) == [user |-> u, todo |-> {v \in User : <<u, v>> \in DOMAIN related}, total |-> flow[u]]

Init ==
    /\ related \in Relations /\ common \in Commons /\ flow \in Flows
    /\ own \in {f[Root] : f \in Flows}
    /\ own.deposit <= flow[Root].deposit /\ own.withdraw <= flow[Root].withdraw
    /\ stack = <<[Call(Root) EXCEPT !.total = own]>> /\ used = {} /\ verdict = "none"

Top == stack[Len(stack)]

(* The loop goes on to the next key.                                       *)
Advance(v) == [stack EXCEPT ![Len(stack)] = [Top EXCEPT !.todo = @ \ {v}]]

(* v is related to u by the block of the flow, and no common address.      *)
Relative(u, v) ==
    /\ <<u, v>> \in DOMAIN related
    /\ v \notin common
    /\ related[<<u, v>>] <= Block

(* Mutant: break instead of continue.                                      *)
Skip_Breaks(v) ==
    /\ verdict = "none" /\ v \in Top.todo
    /\ ~Relative(Top.user, v) \/ v \in used
    /\ stack' = [stack EXCEPT ![Len(stack)] = [Top EXCEPT !.todo = {}]]
    /\ UNCHANGED <<input, used, verdict>>

(* Mutant: the loop does not go on.                                        *)
Skip_Stays(v) ==
    /\ verdict = "none" /\ v \in Top.todo
    /\ ~Relative(Top.user, v) \/ v \in used
    /\ UNCHANGED vars

Skip(v) ==
    /\ verdict = "none" /\ v \in Top.todo
    /\ ~Relative(Top.user, v) \/ v \in used
    /\ stack' = Advance(v)
    /\ UNCHANGED <<input, used, verdict>>

(* Mutant: the relatives of a relative are not followed.                   *)
Visit_Shallow(v) ==
    /\ verdict = "none" /\ v \in Top.todo
    /\ Relative(Top.user, v) /\ v \notin used
    /\ used' = used \cup {v}
    /\ stack' = Append(Advance(v), [Call(v) EXCEPT !.todo = {}])
    /\ UNCHANGED <<input, verdict>>

Visit(v) ==
    /\ verdict = "none" /\ v \in Top.todo
    /\ Relative(Top.user, v) /\ v \notin used
    /\ used' = used \cup {v}
    /\ stack' = Append(Advance(v), Call(v))
    /\ UNCHANGED <<input, verdict>>

Add(f, g) == [deposit |-> f.deposit + g.deposit, withdraw |-> f.withdraw + g.withdraw]

(* Mutant: the totals of the callee are lost.                              *)
Return_Drops ==
    /\ verdict = "none" /\ Top.todo = {} /\ Len(stack) > 1
    /\ stack' = SubSeq(stack, 1, Len(stack) - 1)
    /\ UNCHANGED <<input, used, verdict>>

Return ==
    LET n == Len(stack) IN
    /\ verdict = "none" /\ Top.todo = {} /\ n > 1
    /\ stack' = [SubSeq(stack, 1, n - 1) EXCEPT
          ![n - 1] = [stack[n - 1] EXCEPT !.total = Add(stack[n - 1].total, Top.total)]]
    /\ UNCHANGED <<input, used, verdict>>

(* rate >= ABNORMAL_RATE, or a withdrawal without a deposit.               *)
ABNORMAL_RATE == 3
Abnormal(f) ==
    \/ f.deposit > 0 /\ f.withdraw >= ABNORMAL_RATE * f.deposit
    \/ f.deposit = 0 /\ f.withdraw > 0

abnormalDetection ==
    /\ verdict = "none" /\ Top.todo = {} /\ Len(stack) = 1
    /\ verdict' = IF Abnormal(Top.total) THEN "attack" ELSE "normal"
    /\ UNCHANGED <<input, stack, used>>

Next == (\E v \in User : Skip(v) \/ Visit(v)) \/ Return \/ abnormalDetection

(* One goroutine runs the recursion; nothing in it blocks.                 *)
Spec == Init /\ [][Next]_vars /\ WF_vars(Next)

-----------------------------------------------------------------------------
(* Types of the recursion; no common address is ever used.                 *)
TypeOK ==
    /\ IsRelation(related) /\ common \subseteq User \ {Root} /\ flow \in [User -> Flow] /\ own \in Flow
    /\ stack \in Seq(Frame) /\ Len(stack) >= 1
    /\ used \subseteq User \ common
    /\ verdict \in {"none", "attack", "normal"}

(* No user but the first has two frames: the depth of the recursion is at  *)
(* most the number of users, even where the relation has cycles.           *)
NoReentry ==
    /\ stack[1].user = Root
    /\ \A i \in 2 .. Len(stack) : stack[i].user \in used
    /\ \A i, j \in 2 .. Len(stack) : stack[i].user = stack[j].user => i = j

(* The relatives of the user and theirs in turn, whatever the order in     *)
(* which the maps are iterated: the least set closed under Relative.       *)
Closed(S) ==
    /\ \A v \in User : Relative(Root, v) => v \in S
    /\ \A u \in S, v \in User : Relative(u, v) => v \in S
GroupIsLeast ==
    verdict # "none" =>
        /\ Closed(used)
        /\ \A S \in SUBSET User : Closed(S) => used \subseteq S

(* CheckAttack ends.                                                       *)
Terminates == <>(verdict # "none")

(* The verdict is that of the totals of the user and of its group, each    *)
(* user once, when the user is not itself in its group.                    *)
Total(S) ==
    [deposit  |-> SumFunctionOnSet([u \in User |-> flow[u].deposit], S),
     withdraw |-> SumFunctionOnSet([u \in User |-> flow[u].withdraw], S)]
Expected == IF Abnormal(Add(own, Total(used \ {Root}))) THEN "attack" ELSE "normal"
VerdictIsGroupRate == verdict # "none" /\ Root \notin used => verdict = Expected

(* "add related users' token flow" (CheckAttack): the verdict is that of   *)
(* the user's own flow and of the flow of its related users.               *)
OwnFlowCountsOnce == verdict # "none" => verdict = Expected

(* The strengthening of GroupIsLeast: what is not yet in usedAddress is    *)
(* still to be visited by a frame of its relative.                         *)
Pending(u, v) == \E i \in 1 .. Len(stack) : stack[i].user = u /\ v \in stack[i].todo
GroupInv ==
    /\ NoReentry
    /\ \A u \in used \cup {Root}, v \in User : Relative(u, v) => v \in used \/ Pending(u, v)
    /\ \A S \in SUBSET User : Closed(S) => used \subseteq S
    /\ verdict # "none" => Len(stack) = 1 /\ stack[1].todo = {}
=============================================================================
