----------------------------- MODULE Extractor -----------------------------
(***************************************************************************)
(* hunter/defi/extractor.go: the detector reads the recorded call trees of *)
(* a history, finds the calls that deposit or withdraw, gives each token   *)
(* transfer to the innermost of them, and files the transfers between      *)
(* users and common addresses by user and token.  Files are listed in the  *)
(* order of their names as strings; Go iterates over its maps in any       *)
(* order.                                                                  *)
(***************************************************************************)
EXTENDS Integers, Sequences, FiniteSets, TLC, FiniteSetsExt, SequencesExt

CONSTANTS
    Address, zero,      \* addresses, and the zero address
    NoUser,             \* not an address
    Proxy,              \* ProxyInfo.ProxyContracts
    Token, StableToken, LPToken,
    ActionMap,          \* pattern of a method name -> action
    Capital,            \* the patterns written with a capital letter
    Histories,          \* bound: the histories to consider
    StartBlock          \* blocks up to this one are read

(* A history lists proxy and stake transactions: block, index, and the     *)
(* calls in preorder.  A call has its parent (0 for the first), the        *)
(* patterns its method name contains whatever their case ({} for a call    *)
(* that is not to a proxy or not of its interface), the ether it moves (at *)
(* most one transfer) and its Transfer events.  id tells transfers apart;  *)
(* event is the index among the events of the transaction, 0 for ether.    *)
Transfer == [id : Nat, sender : Address, to : Address, token : Token, event : Nat, amount : Nat]
Call == [parent : Nat, method : SUBSET DOMAIN ActionMap, ether : Seq(Transfer), events : Seq(Transfer)]

ASSUME ExtractorAssumption ==
    /\ zero \in Address /\ NoUser \notin Address /\ Proxy \subseteq Address /\ StableToken \cup LPToken \subseteq Token
    /\ Capital \subseteq DOMAIN ActionMap
    /\ \A h \in Histories : \A f \in ToSet(h.proxy \o h.stake) : \A n \in DOMAIN f.tree :
         f.tree[n] \in Call /\ f.tree[n].parent < n

VARIABLES
    history,
    phase,              \* "proxy", "stake", "actions" or "done"
    next,               \* the next file of the directory
    LPTokenMap, AddressCountMap, ActionInfoList,
    CommonAddressMap,
    todo,               \* the actions that ExtractActionInfoList has still to visit
    UserTokenTxMap, UserRelatedMap

vars == <<history, phase, next, LPTokenMap, AddressCountMap, ActionInfoList,
          CommonAddressMap, todo, UserTokenTxMap, UserRelatedMap>>

Init ==
    /\ history \in Histories
    /\ phase = "proxy" /\ next = 1
    /\ LPTokenMap = LPToken /\ AddressCountMap = [a \in Address |-> 0] /\ ActionInfoList = <<>>
    /\ CommonAddressMap = {} /\ todo = {}
    /\ UserTokenTxMap = [a \in Address |-> [t \in Token |-> <<>>]]
    /\ UserRelatedMap = [p \in {} |-> 0]

-----------------------------------------------------------------------------
(* extractAction goes through ActionMap in any order; a pattern of "none"  *)
(* ends the loop, and otherwise the last match counts.  The name is put in *)
(* lower case and the pattern is not.                                      *)
extractAction(method) ==
    LET found == method \ Capital IN
    IF found = {} \/ \E p \in found : ActionMap[p] = "none" THEN {"none"}
    ELSE {ActionMap[p] : p \in found}

Kids(tree, n) == SelectSeq([i \in DOMAIN tree |-> i], LAMBDA k : tree[k].parent = n)

(* Mutant: the transfers of a nested action count for the outer one too.   *)
extractInTxInfo_Keeps(tree, act) ==
    LET Walk[n \in DOMAIN tree] ==
          LET kids == Kids(tree, n)
              list == tree[n].ether
                        \o FlattenSeq([i \in DOMAIN kids |-> Walk[kids[i]].list]) \o tree[n].events
              infos == FlattenSeq([i \in DOMAIN kids |-> Walk[kids[i]].infos])
          IN  [list  |-> list,
               infos |-> IF act[n] = "none" THEN infos
                         ELSE Append(infos, [action |-> act[n], node |-> n, list |-> list])]
    IN  Walk[1].infos

(* What a call hands to its caller, and the actions found below it.        *)
extractInTxInfo(tree, act) ==
    LET Walk[n \in DOMAIN tree] ==
          LET kids == Kids(tree, n)
              list == tree[n].ether
                        \o FlattenSeq([i \in DOMAIN kids |-> Walk[kids[i]].list]) \o tree[n].events
              infos == FlattenSeq([i \in DOMAIN kids |-> Walk[kids[i]].infos])
          IN  IF act[n] = "none" THEN [list |-> list, infos |-> infos]
              ELSE [list |-> <<>>, infos |-> Append(infos, [action |-> act[n], node |-> n, list |-> list])]
    IN  Walk[1].infos

MintsLP(x) == x.token \notin StableToken /\ zero \in {x.sender, x.to}

(* Mutant: mints and burns are counted as well.                            *)
Seen_All(infos, a) ==
    LET all == FlattenSeq([i \in DOMAIN infos |-> infos[i].list]) IN
    Cardinality({i \in DOMAIN all : all[i].sender = a})
      + Cardinality({i \in DOMAIN all : all[i].to = a})

Seen(infos, a) ==
    LET all == FlattenSeq([i \in DOMAIN infos |-> infos[i].list]) IN
    Cardinality({i \in DOMAIN all : ~MintsLP(all[i]) /\ all[i].sender = a})
      + Cardinality({i \in DOMAIN all : ~MintsLP(all[i]) /\ all[i].to = a})

(* The names of files, "block_tx.json", as strings: "9_0" comes after      *)
(* "10_0", and so does "10_0" after "100_0", since "_" follows the digits; *)
(* "." precedes them.                                                      *)
Digits(n) == CHOOSE d \in 1 .. 20 : n < 10 ^ d /\ (d = 1 \/ n >= 10 ^ (d - 1))
NumberLess(m, n, longerFirst) ==
    LET d == Min({Digits(m), Digits(n)})
        p == m \div 10 ^ (Digits(m) - d)
        q == n \div 10 ^ (Digits(n) - d)
    IN  p < q \/ (p = q /\ IF longerFirst THEN Digits(m) > Digits(n) ELSE Digits(m) < Digits(n))
NameLess(f, g) ==
    IF f.block = g.block THEN NumberLess(f.index, g.index, FALSE) ELSE NumberLess(f.block, g.block, TRUE)
ReadDir(files) == SortSeq(files, NameLess)

(* InitTokenUserTxMap: one file.                                           *)
ExtractTokenTx ==
    LET files == ReadDir(history.proxy)
        f     == files[next]
    IN
    /\ phase = "proxy" /\ next <= Len(files)
    /\ next' = next + 1
    /\ IF f.block > StartBlock THEN UNCHANGED <<LPTokenMap, AddressCountMap, ActionInfoList>>
       ELSE \E act \in [DOMAIN f.tree -> {"none", "deposit", "withdraw"}] :
              LET infos == extractInTxInfo(f.tree, act)
                  all   == UNION {ToSet(infos[i].list) : i \in DOMAIN infos}
              IN
              /\ \A n \in DOMAIN f.tree : act[n] \in extractAction(f.tree[n].method)
              /\ LPTokenMap' = LPTokenMap \cup {x.token : x \in {y \in all : MintsLP(y)}}
              /\ AddressCountMap' = [a \in Address |-> AddressCountMap[a] + Seen(infos, a)]
              /\ ActionInfoList' = ActionInfoList \o [i \in DOMAIN infos |->
                    infos[i] @@ [block |-> f.block, index |-> f.index]]
    /\ UNCHANGED <<history, phase, CommonAddressMap, todo, UserTokenTxMap, UserRelatedMap>>

EndProxy ==
    /\ phase = "proxy" /\ next > Len(history.proxy)
    /\ phase' = "stake" /\ next' = 1
    /\ UNCHANGED <<history, LPTokenMap, AddressCountMap, ActionInfoList, CommonAddressMap,
                   todo, UserTokenTxMap, UserRelatedMap>>

-----------------------------------------------------------------------------
(* The first block that relates two users.                                 *)
updateUserRelatedMap(related, main, rel, block) ==
    IF main = rel THEN related
    ELSE [p \in DOMAIN related \cup {<<main, rel>>} |->
            IF p # <<main, rel>> THEN related[p]
            ELSE IF p \in DOMAIN related /\ related[p] <= block THEN related[p] ELSE block]

Relate(related, pairs, block) ==
    FoldSeq(LAMBDA p, r : updateUserRelatedMap(r, p[1], p[2], block), related, pairs)

(* Transfers of a liquidity token from one user to another.                *)
StakePairs(tree) ==
    LET Walk[n \in DOMAIN tree] ==
          FlattenSeq([i \in DOMAIN Kids(tree, n) |-> Walk[Kids(tree, n)[i]]]) \o tree[n].events
        moves == SelectSeq(Walk[1], LAMBDA x : x.token \in LPTokenMap /\ zero \notin {x.sender, x.to})
    IN  [i \in DOMAIN moves |-> <<moves[i].to, moves[i].sender>>]

(* InitUserRelatedMapWithStake: one file.                                  *)
ExtractStakeTokenTx ==
    LET files == ReadDir(history.stake)
        f     == files[next]
    IN
    /\ phase = "stake" /\ next <= Len(files) /\ f.block <= StartBlock
    /\ UserRelatedMap' = Relate(UserRelatedMap, StakePairs(f.tree), f.block)
    /\ next' = next + 1
    /\ UNCHANGED <<history, phase, LPTokenMap, AddressCountMap, ActionInfoList,
                   CommonAddressMap, todo, UserTokenTxMap>>

(* The loop over the stake files breaks at the first later block.  Then    *)
(* UpdateCommonAddressMap.                                                 *)
EndStake ==
    LET files == ReadDir(history.stake) IN
    /\ phase = "stake" /\ ~(next <= Len(files) /\ files[next].block <= StartBlock)
    /\ phase' = "actions" /\ todo' = DOMAIN ActionInfoList
    /\ CommonAddressMap' = Proxy \cup {a \in Address :
          AddressCountMap[a] > 350 \/ 10 * AddressCountMap[a] > 8 * Len(ActionInfoList)}
    /\ UNCHANGED <<history, next, LPTokenMap, AddressCountMap, ActionInfoList,
                   UserTokenTxMap, UserRelatedMap>>

-----------------------------------------------------------------------------
(* Who gains from a transfer of an action, or NoUser.                      *)
UserOf(action, x) ==
    CASE action = "withdraw" /\ x.sender \in CommonAddressMap -> x.to
      [] action = "deposit" /\ x.to \in CommonAddressMap -> x.sender
      [] OTHER -> NoUser

(* The users of the liquidity that the action mints or burns.              *)
Owners(info) ==
    LET lp == SelectSeq(info.list, LAMBDA x : x.token \in LPTokenMap) IN
    IF info.action = "deposit"
      THEN LET m == SelectSeq(lp, LAMBDA x : x.sender = zero) IN [i \in DOMAIN m |-> m[i].to]
      ELSE LET b == SelectSeq(lp, LAMBDA x : x.sender # zero /\ x.to = zero) IN
           [i \in DOMAIN b |-> b[i].sender]

(* A withdrawal by a user from an owner relates the user to the owner, a   *)
(* deposit by a user to an owner relates the owner to the user.            *)
Pairs(info, users) ==
    FlattenSeq([i \in DOMAIN users |-> [j \in DOMAIN Owners(info) |->
        IF info.action = "withdraw" THEN <<users[i], Owners(info)[j]>>
        ELSE <<Owners(info)[j], users[i]>>]])

(* What is filed of a transfer.                                            *)
TokenTx(x, block, index, action) ==
    [id |-> x.id, block |-> block, index |-> index, event |-> x.event, token |-> x.token,
     amount |-> x.amount, action |-> action]

(* ExtractActionInfoList: one action.                                      *)
ExtractActionInfo(i) ==
    LET info == ActionInfoList[i]
        rest == SelectSeq(info.list, LAMBDA x : x.token \notin LPTokenMap
                                                /\ UserOf(info.action, x) # NoUser)
        users == [k \in DOMAIN rest |-> UserOf(info.action, rest[k])]
        Filed(a, t) == SelectSeq(rest, LAMBDA x : x.token = t /\ UserOf(info.action, x) = a)
    IN
    /\ phase = "actions" /\ i \in todo
    /\ todo' = todo \ {i}
    /\ UserTokenTxMap' = [a \in Address |-> [t \in Token |-> UserTokenTxMap[a][t] \o
          [k \in DOMAIN Filed(a, t) |-> TokenTx(Filed(a, t)[k], info.block, info.index, info.action)]]]
    /\ UserRelatedMap' = Relate(UserRelatedMap, Pairs(info, users), info.block)
    /\ UNCHANGED <<history, phase, next, LPTokenMap, AddressCountMap, ActionInfoList, CommonAddressMap>>

EndActions ==
    /\ phase = "actions" /\ todo = {}
    /\ phase' = "done"
    /\ UNCHANGED <<history, next, LPTokenMap, AddressCountMap, ActionInfoList, CommonAddressMap,
                   todo, UserTokenTxMap, UserRelatedMap>>

Next ==
    \/ ExtractTokenTx \/ EndProxy \/ ExtractStakeTokenTx \/ EndStake
    \/ \E i \in todo : ExtractActionInfo(i)
    \/ EndActions

Spec == Init /\ [][Next]_vars

-----------------------------------------------------------------------------
(* What the extraction should find, told from the history alone.           *)
Read == SelectSeq(history.proxy, LAMBDA f : f.block <= StartBlock)
TheAction(c) == CHOOSE a \in extractAction(c.method) : TRUE

(* The innermost call with an action around call n, or 0.                  *)
Enclosing(tree, n) ==
    LET Up[m \in 0 .. n] == IF m = 0 \/ TheAction(tree[m]) # "none" THEN m ELSE Up[tree[m].parent]
    IN  Up[n]

(* The transfers that belong to an action: <<file, action call, transfer>>. *)
Owned ==
    UNION {UNION {{<<f, Enclosing(f.tree, n), x>> : x \in ToSet(f.tree[n].ether \o f.tree[n].events)} :
             n \in {m \in DOMAIN f.tree : Enclosing(f.tree, m) # 0}} : f \in ToSet(Read)}

ActionCalls == UNION {{<<f, n>> : n \in {m \in DOMAIN f.tree : TheAction(f.tree[m]) # "none"}} :
                        f \in ToSet(Read)}
LPs == LPToken \cup {o[3].token : o \in {p \in Owned : MintsLP(p[3])}}
Commons ==
    LET plain == {o \in Owned : ~MintsLP(o[3])}
        count(a) == Cardinality({o \in plain : o[3].sender = a}) + Cardinality({o \in plain : o[3].to = a})
    IN  Proxy \cup {a \in Address : count(a) > 350 \/ 10 * count(a) > 8 * Cardinality(ActionCalls)}

ActionOf(o) == TheAction(o[1].tree[o[2]])
Gains(o, a, lps, commons) ==
    /\ o[3].token \notin lps
    /\ \/ ActionOf(o) = "withdraw" /\ o[3].sender \in commons /\ o[3].to = a
       \/ ActionOf(o) = "deposit" /\ o[3].to \in commons /\ o[3].sender = a

(* The transfers of each user, as they should be filed.                    *)
Dues ==
    LET owned == Owned  lps == LPs  commons == Commons IN
    [a \in Address |-> {TokenTx(o[3], o[1].block, o[1].index, ActionOf(o)) :
                            o \in {p \in owned : Gains(p, a, lps, commons)}}]

(* Blocks in which a user becomes related to another, by pairs of users.   *)
RelatedIn ==
    LET owned == Owned  lps == LPs  commons == Commons
        By(a, b) == {o[1].block : o \in {p \in owned : \E q \in owned :
            /\ q[1] = p[1] /\ q[2] = p[2] /\ q[3].token \in lps
            /\ \/ /\ ActionOf(p) = "withdraw" /\ Gains(p, a, lps, commons)
                  /\ q[3].sender = b /\ b # zero /\ q[3].to = zero
               \/ ActionOf(p) = "deposit" /\ Gains(p, b, lps, commons) /\ q[3].sender = zero /\ q[3].to = a}}
        Staked(a, b) == {f.block : f \in {g \in ToSet(history.stake) : g.block <= StartBlock /\ zero \notin {a, b}
            /\ \E n \in DOMAIN g.tree : \E x \in ToSet(g.tree[n].events) :
                 x.token \in lps /\ x.sender = b /\ x.to = a}}
    IN  [p \in Address \X Address |-> IF p[1] = p[2] THEN {} ELSE By(p[1], p[2]) \cup Staked(p[1], p[2])]

-----------------------------------------------------------------------------
(* When the files are read, every transfer inside an action call is in the *)
(* list of exactly one action, the innermost around it, and no other       *)
(* transfer is in a list: extractInTxInfo hands an empty list to the       *)
(* caller of an action.                                                    *)
InnermostAction ==
    phase # "proxy" =>
        LET infos == ToSet(ActionInfoList)
            In(i) == {o[3] : o \in {p \in Owned : /\ p[1].block = i.block /\ p[1].index = i.index
                                                  /\ p[2] = i.node}}
        IN  /\ Len(ActionInfoList) = Cardinality(ActionCalls)
            /\ \A i \in infos : ToSet(i.list) = In(i) /\ Len(i.list) = Cardinality(In(i))

(* In whatever order ExtractActionInfoList meets the actions of its map,   *)
(* each transfer ends up once with the user it is of, and the tokens and   *)
(* common addresses it is judged by are those of the whole history.        *)
FiledOnce ==
    phase = "done" =>
        /\ LPTokenMap = LPs /\ CommonAddressMap = Commons
        /\ LET dues == Dues IN
           \A a \in Address, t \in Token :
             LET filed == UserTokenTxMap[a][t]
                 due   == {x \in dues[a] : x.token = t}
             IN  Len(filed) = Cardinality(due) /\ ToSet(filed) = due

(* Two users are related from the first block that relates them, whatever  *)
(* the order of files and actions.  The loop over the stake files breaks   *)
(* at the first later block and skips what sorts behind it: then relations *)
(* are lost or begin late, but none is invented.                           *)
NamesSort == \A f, g \in ToSet(history.stake) : f.block <= StartBlock /\ g.block > StartBlock => NameLess(f, g)
RelatedFromFirstBlock ==
    phase = "done" =>
        LET by == RelatedIn IN
        /\ \A p \in DOMAIN UserRelatedMap : UserRelatedMap[p] \in by[p]
        /\ NamesSort =>
             /\ DOMAIN UserRelatedMap = {p \in Address \X Address : by[p] # {}}
             /\ \A p \in DOMAIN UserRelatedMap : UserRelatedMap[p] = Min(by[p])

(* What the extractor hands to the detector is what the history says, for  *)
(* every order of its maps: the transfers by user and the relations.       *)
ExtractedFromHistory == FiledOnce /\ RelatedFromFirstBlock
=============================================================================
