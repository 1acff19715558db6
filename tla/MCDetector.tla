----------------------------- MODULE MCDetector -----------------------------
(* Instances of the detector: a proxy contract with its pool, two users, a *)
(* dollar, a staked ether, ether, a liquidity token that the history       *)
(* teaches, and a token without a price.                                   *)
EXTENDS UserFlow

MCAddress == {"zero", "proxy", "pool", "u", "v"}
MCToken == {"usd", "lp", "eth", "steth", "junk"}
MCActionMap == [mint |-> "deposit", stake |-> "deposit", liquidateBorrow |-> "deposit",
                burn |-> "withdraw", unstake |-> "withdraw", admin |-> "none"]
MCXToken == [usd |-> "USD", steth |-> "ETH"]
MCRate == [usd |-> 2, steth |-> 1]
MCPriced == [ETH |-> "eth"]
MCPrice == [eth |-> (4 :> 3) @@ (6 :> 5)]

X(i, s, r, t, e, n) == [id |-> i, sender |-> s, to |-> r, token |-> t, event |-> e, amount |-> n]
C(p, m, e, ev) == [parent |-> p, method |-> m, ether |-> e, events |-> ev]
F(b, i, tree) == [block |-> b, index |-> i, tree |-> tree]

(* v deposits for u; ether comes with the call.                            *)
Deposit(k) == <<C(0, {"mint"}, <<X(k, "v", "proxy", "eth", 0, 1)>>,
                  <<X(k + 1, "v", "pool", "usd", 0, 2), X(k + 2, "zero", "u", "lp", 1, 1)>>)>>
(* u withdraws what v owns, by a call inside a call.                       *)
Withdraw(k) == <<C(0, {}, <<>>, <<X(k, "v", "u", "usd", 2, 1)>>),
                 C(1, {"burn"}, <<>>, <<X(k + 1, "v", "zero", "lp", 0, 1), X(k + 2, "pool", "u", "usd", 1, 4)>>),
                 C(1, {}, <<X(k + 3, "u", "v", "eth", 0, 1)>>, <<>>)>>
(* A deposit that withdraws first; one transfer moves nothing.             *)
Nested(k) == <<C(0, {"mint"}, <<>>, <<X(k, "u", "pool", "junk", 2, 3), X(k + 1, "zero", "u", "lp", 3, 1)>>),
               C(1, {}, <<>>, <<X(k + 2, "u", "pool", "usd", 1, 0)>>),
               C(2, {"burn"}, <<>>, <<X(k + 3, "proxy", "v", "steth", 0, 8)>>)>>
(* What an administrator does is no action.                                *)
Admin(k) == <<C(0, {"mint", "admin"}, <<>>, <<X(k, "zero", "v", "lp", 0, 1)>>)>>
Move(k, a, b) == <<C(0, {}, <<>>, <<>>), C(1, {}, <<>>, <<X(k, a, b, "lp", 0, 1)>>)>>

Trees(k) == {Deposit(k), Withdraw(k), Nested(k), Admin(k)}
MCHistories ==
    {[proxy |-> <<F(b, 0, s), F(c, 1, t), F(7, 2, r)>>, stake |-> st] :
        b \in {5, 10}, c \in {7, 12}, s \in Trees(10), t \in Trees(20), r \in {Deposit(30), Withdraw(30)},
        st \in {<<>>, <<F(5, 0, Move(40, "u", "v")), F(9, 0, Move(50, "u", "v"))>>,
                <<F(6, 0, Move(40, "v", "u")), F(10, 0, Move(50, "u", "v"))>>}}
=============================================================================
