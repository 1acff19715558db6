------------------------------ MODULE UserFlow ------------------------------
(***************************************************************************)
(* hunter/defi/check.go: GenerateUserFlow turns the transfers of a user    *)
(* into lists of flows with running totals, one list for each token, for   *)
(* each group of stable tokens and for all tokens at their prices.         *)
(* MergeFlowInTx sums a list by transaction.  CheckAttack adds, at every   *)
(* flow of a user that is no deposit, the totals of the related users up   *)
(* to it, and reports the first that is abnormal.                          *)
(***************************************************************************)
EXTENDS Extractor

CONSTANTS
    XToken,             \* stable tokens -> the group they belong to
    Rate,               \* stable tokens -> their rate in the group
    Price,              \* priced tokens -> (bucket of blocks -> price)
    Bucket,             \* blocks in a bucket of prices, 500 in the code
    Usd, All,           \* the group at a fixed price, and the list of all tokens
    Priced              \* the other groups -> the token their price is that of

ASSUME UserFlowAssumption ==
    /\ DOMAIN XToken = StableToken /\ DOMAIN Rate = StableToken /\ DOMAIN Price \subseteq Token
    /\ Bucket \in Nat \ {0}

VARIABLES
    flows,    \* userTokenFlowMap
    report    \* the user CheckAttack was called for, and its attackInfoMap

flowVars == <<vars, flows, report>>
NoFlows == [a \in Address |-> << >>]
NoReport == [user |-> NoUser]

FlowInit == Init /\ flows = NoFlows /\ report = NoReport

-----------------------------------------------------------------------------
(* sort.Sort of Go 1.15 on a list of up to 12 elements: a pass that swaps  *)
(* elements six places apart, then insertion, which keeps the order of     *)
(* equal elements.  Longer lists are out of this model.                    *)
Apart(list, Less(_, _)) ==
    FoldLeft(LAMBDA l, i : IF Less(l[i + 6], l[i]) THEN [l EXCEPT ![i] = l[i + 6], ![i + 6] = l[i]] ELSE l,
             list, [i \in 1 .. Len(list) - 6 |-> i])
Inserted(list, Less(_, _)) ==
    LET Place(i) == 1 + Cardinality({j \in DOMAIN list :
            Less(list[j], list[i]) \/ (~Less(list[i], list[j]) /\ j < i)})
    IN  [p \in DOMAIN list |-> list[CHOOSE i \in DOMAIN list : Place(i) = p]]
Sorted(list, Less(_, _)) == Inserted(Apart(list, Less), Less)

(* Mutant: TokenTxList compares blocks only.                               *)
TxLess_Block(a, b) == a.block < b.block

(* TokenTxList.Less and TokenFlowList.Less.                                *)
TxLess(a, b) ==
    \/ a.block < b.block
    \/ a.block = b.block /\ a.index < b.index
    \/ a.block = b.block /\ a.index = b.index /\ a.event < b.event
FlowLess(a, b) == a.block < b.block

(* The lists a transfer takes part in, and its value there.                *)
Kinds == Token \cup {XToken[t] : t \in StableToken} \cup {All}
PriceOf(t, block) ==
    LET p == IF t \in StableToken /\ XToken[t] \in DOMAIN Priced THEN Priced[XToken[t]] ELSE t
        b == (block \div Bucket) * Bucket
    IN  IF p \in DOMAIN Price /\ b \in DOMAIN Price[p] THEN Price[p][b] ELSE 0
Value(kind, x) ==
    IF kind = All
      THEN IF x.token \in StableToken /\ XToken[x.token] = Usd THEN x.amount * Rate[x.token]
           ELSE x.amount * PriceOf(x.token, x.block)
      ELSE IF kind \in Token THEN x.amount ELSE x.amount * Rate[x.token]
Belongs(kind, x) ==
    \/ kind = x.token /\ (kind \in StableToken \/ kind \notin LPTokenMap)
    \/ x.token \in StableToken /\ XToken[x.token] = kind
    \/ kind = All
Counts(kind, x) == x.amount > 0 /\ (kind = All => x.token \in StableToken \cup DOMAIN Price)

Zero == [block |-> 0, index |-> 0, amount |-> 0, action |-> "", deposit |-> 0, withdraw |-> 0]

(* The list begins with a flow of nothing.                                 *)
Running(kind, list) ==
    FoldLeft(LAMBDA acc, x :
        LET v == Value(kind, x)  last == acc[Len(acc)] IN
        Append(acc, [block |-> x.block, index |-> x.index, amount |-> v, action |-> x.action,
            deposit  |-> last.deposit + IF x.action = "deposit" THEN v ELSE 0,
            withdraw |-> last.withdraw + IF x.action = "withdraw" THEN v ELSE 0]),
        <<Zero>>, list)

(* The flows of one kind, from the transfers of a user.                    *)
FlowsOf(list, k) ==
    Running(k, SelectSeq(Sorted(SelectSeq(list, LAMBDA x : Belongs(k, x)), TxLess), LAMBDA x : Counts(k, x)))

(* The transfers of a user, token by token: a map is iterated in any order. *)
Gathered(a) ==
    {FlattenSeq([i \in DOMAIN o |-> UserTokenTxMap[a][o[i]]]) :
        o \in SetToSeqs({t \in Token : UserTokenTxMap[a][t] # <<>>})}

(* GenerateUserFlow, with every order of the tokens of each user.          *)
GenerateUserFlow ==
    /\ phase = "done" /\ flows = NoFlows
    /\ flows' \in FoldSet(LAMBDA a, acc : {f @@ (a :> [k \in Kinds |-> FlowsOf(l, k)]) : f \in acc, l \in Gathered(a)},
                          {<< >>}, Address)
    /\ UNCHANGED <<vars, report>>

-----------------------------------------------------------------------------
Before(f, g) == f.block < g.block \/ (f.block = g.block /\ f.index <= g.index)

(* Mutant: the comparison forgets the index of the transaction.            *)
UpTo_Block(list, flow) ==
    LET late == {i \in DOMAIN list : list[i].block > flow.block}
        n    == IF late = {} THEN Len(list) ELSE Min(late) - 1
    IN  IF n = 0 THEN Zero ELSE list[n]

(* The last flow before the first that is later than the one given.        *)
UpTo(list, flow) ==
    LET late == {i \in DOMAIN list : ~Before(list[i], flow)}
        n    == IF late = {} THEN Len(list) ELSE Min(late) - 1
    IN  IF n = 0 THEN Zero ELSE list[n]

(* The users that GetRelatedTokenFlow is called for, of the group that     *)
(* RelatedFlow is about: those related to u, and theirs in turn.           *)
Group(u, pairs) ==
    LET From(S) == {p[2] : p \in {q \in pairs : q[1] \in S}}
        Step[n \in Nat] == IF n = 0 THEN From({u}) ELSE Step[n - 1] \cup From(Step[n - 1])
    IN  Step[Cardinality(Address)]
Relative(u, v, block) ==
    v \notin CommonAddressMap /\ UserRelatedMap[<<u, v>>] <= block

(* What is added up at a flow of a user.                                   *)
Totals(u, k, flow, lists) ==
    LET group == Group(u, {p \in DOMAIN UserRelatedMap : Relative(p[1], p[2], flow.block)})
        read  == [v \in group |-> UpTo(lists[v][k], flow)]
    IN  [block |-> flow.block, deposit |-> flow.deposit + MapThenSumSet(LAMBDA v : read[v].deposit, group),
         withdraw |-> flow.withdraw + MapThenSumSet(LAMBDA v : read[v].withdraw, group)]

ABNORMAL_RATE == 3
abnormalDetection(t) ==
    \/ t.deposit > 0 /\ t.withdraw >= ABNORMAL_RATE * t.deposit
    \/ t.deposit = 0 /\ t.withdraw > 0

(* CheckAttack of one user.  The lists it reads are sorted in place, the   *)
(* user's and those of its relatives; the others are in order already.  It *)
(* leaves nothing else to the call for the next user, so one is enough.    *)
CheckAttack(u) ==
    LET lists   == [a \in Address |-> [k \in Kinds |-> Sorted(flows[a][k], FlowLess)]]
        kinds   == IF u \in CommonAddressMap THEN {} ELSE Kinds \ StableToken
        hits    == [k \in kinds |-> {i \in DOMAIN lists[u][k] : /\ lists[u][k][i].action # "deposit"
                                                              /\ abnormalDetection(Totals(u, k, lists[u][k][i], lists))}]
        attacks == {k \in kinds : hits[k] # {}}
    IN  /\ flows # NoFlows /\ report = NoReport
        /\ flows' = lists
        /\ report' = [user |-> u, attacks |-> [k \in attacks |-> Totals(u, k, lists[u][k][Min(hits[k])], lists)]]
        /\ UNCHANGED vars

FlowNext ==
    \/ Next /\ UNCHANGED <<flows, report>>
    \/ GenerateUserFlow
    \/ \E u \in Address : CheckAttack(u)

FlowSpec == FlowInit /\ [][FlowNext]_flowVars

-----------------------------------------------------------------------------
(* Mutant: the flows of a transaction replace each other.                  *)
MergeFlowInTx_Last(list, b, i) ==
    [a \in {"deposit", "withdraw"} |->
        LET s == SelectSeq(list, LAMBDA f : f.block = b /\ f.index = i /\ f.action = a)
        IN  IF s = <<>> THEN 0 ELSE s[Len(s)].amount]

(* MergeFlowInTx: what the transaction i of block b deposits and withdraws. *)
MergeFlowInTx(list, b, i) ==
    [a \in {"deposit", "withdraw"} |->
        FoldLeft(LAMBDA acc, f :
            IF f.block = b /\ f.index = i /\ f.action = a THEN acc + f.amount ELSE acc, 0, list)]

(* What a list should say, told from the history alone.                    *)
Due(dues, k, a) == {x \in dues : x.action = a /\ Belongs(k, x) /\ Counts(k, x)}
SumOf(due, k, f) == MapThenSumSet(LAMBDA x : Value(k, x), {x \in due : Before(x, f)})

(* The last flow of a transaction carries the sums of what the history     *)
(* moves for the user up to its end, however the actions and tokens were   *)
(* iterated and whatever the order of transfers that compare equal: ether  *)
(* has no index of an event.                                               *)
TotalsAtEndOfTx ==
    flows # NoFlows /\ report = NoReport =>
        LET dues == Dues IN
        \A u \in Address : \A k \in Kinds :
            LET list == flows[u][k]
                dep  == Due(dues[u], k, "deposit")
                wit  == Due(dues[u], k, "withdraw")
            IN  /\ Len(list) = 1 + Cardinality(dep \cup wit)
                /\ \A f \in ToSet(list) :
                     LET last == Max({i \in DOMAIN list : list[i].block = f.block /\ list[i].index = f.index})
                     IN  list[last].deposit = SumOf(dep, k, f) /\ list[last].withdraw = SumOf(wit, k, f)

(* MergeFlowInTx and the running totals tell the same: a transaction adds  *)
(* what lies between the totals before it and those at its end.            *)
MergedIsDifference ==
    flows # NoFlows /\ report = NoReport =>
        \A u \in Address : \A k \in Kinds :
            LET list == flows[u][k] IN
            \A f \in ToSet(list) \ {Zero} :
                LET same == {i \in DOMAIN list : list[i].block = f.block /\ list[i].index = f.index}
                    m    == MergeFlowInTx(list, f.block, f.index)
                IN  /\ m["deposit"] = list[Max(same)].deposit - list[Min(same) - 1].deposit
                    /\ m["withdraw"] = list[Max(same)].withdraw - list[Min(same) - 1].withdraw

(* CheckAttack reports a kind of token exactly when, at some withdrawal of *)
(* the user, the rate of what the history moved for the user up to that    *)
(* flow and for the group of users the history relates to it by that block *)
(* is abnormal ("add related users' token flow"), and it reports the first *)
(* such totals.  No stake file may be skipped for its name, and the user   *)
(* must not be related back to itself (OwnFlowCountsOnce of RelatedFlow).  *)
VerdictFromHistory ==
    report # NoReport /\ NamesSort =>
        LET u       == report.user
            dues    == Dues
            related == RelatedIn
            commons == Commons
            Related(b) == Group(u, {p \in DOMAIN related : p[2] \notin commons /\ \E n \in related[p] : n <= b})
            Sum(S, k, a, f) == MapThenSumSet(LAMBDA v : SumOf(Due(dues[v], k, a), k, f), S)
            Told(k, f) == [block |-> f.block, deposit |-> f.deposit + Sum(Related(f.block), k, "deposit", f),
                           withdraw |-> f.withdraw + Sum(Related(f.block), k, "withdraw", f)]
            told == [k \in Kinds \ StableToken |->
                       LET l == SelectSeq(flows[u][k], LAMBDA f : f.action # "deposit") IN
                       SelectSeq([i \in DOMAIN l |-> Told(k, l[i])], abnormalDetection)]
        IN  u \notin Related(StartBlock) => report.attacks = [k \in {j \in Kinds \ StableToken : u \notin commons /\ told[j] # <<>>} |-> Head(told[k])]
=============================================================================
