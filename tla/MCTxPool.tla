------------------------------ MODULE MCTxPool ------------------------------
(* Two accounts; each setting has its own set of transactions.             *)
EXTENDS TxPool

T(a, n, price, cost) == [from |-> a, nonce |-> n, price |-> price, cost |-> cost, slots |-> 1]
Wide(t) == [t EXCEPT !.slots = 2]

(* Two nonces, one with a replacement, and a second account.               *)
SmallTx == {T("a", 0, 1, 1), T("a", 0, 2, 2), T("a", 1, 1, 1), T("b", 0, 1, 2)}
LongTx == {T("a", 0, 1, 1), T("a", 1, 1, 2), T("a", 2, 1, 1)}
(* Transactions of one and of two slots.                                   *)
WideTx == {T("a", 0, 1, 1), T("a", 1, 2, 1), T("b", 0, 2, 1), Wide(T("b", 1, 3, 1))}
(* Replacements, with blocks of two transactions.                          *)
SwapTx == {T("a", 0, 1, 1), T("a", 0, 2, 1), T("a", 1, 1, 1), T("a", 1, 2, 1), T("a", 2, 2, 1)}
MCTx == SwapTx \cup SmallTx \cup LongTx \cup WideTx

Mine(t) == [txs |-> {t}, short |-> {}]
LongBlocks == {[txs |-> {}, short |-> {}], [txs |-> {}, short |-> {"a"}]} \cup {Mine(t) : t \in LongTx}
SwapBlocks == {[txs |-> {}, short |-> {}]} \cup
    {[txs |-> {T("a", 0, x, 1), T("a", 1, 3 - x, 1)}, short |-> {}] : x \in 1 .. 2}

(* Evictions and changes of the price; blocks and reorgs; reorgs with      *)
(* replacements, of which some are refused; a full pool.                   *)
Setting(ts, slots, queue, n) ==
    [txs |-> ts, globalSlots |-> slots, globalQueue |-> queue, accountSlots |-> 1, accountQueue |-> queue,
     prices |-> {1}, blocks |-> {}, outcomes |-> {"ok"}, adds |-> n, heads |-> 0, reorg |-> 0, others |-> 0]
MCSettings ==
    {[Setting(SmallTx, 2, 1, 4) EXCEPT !.prices = {1, 2}, !.others = 1],
     [Setting(LongTx, 4, 2, 3) EXCEPT !.blocks = LongBlocks, !.outcomes = {"ok", "lost", "skip"},
                                      !.heads = 2, !.reorg = 1],
     [Setting(SwapTx, 4, 2, 2) EXCEPT !.prices = {1, 2}, !.others = 1, !.blocks = SwapBlocks,
                                      !.outcomes = {"ok", "lost", "skip"}, !.heads = 2, !.reorg = 1],
     Setting(WideTx, 2, 1, 5)}
=============================================================================
