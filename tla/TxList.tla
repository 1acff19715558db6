------------------------------- MODULE TxList -------------------------------
(***************************************************************************)
(* core/tx_list.go: the transactions of an account, sorted by nonce, and   *)
(* the price-sorted heaps of remote transactions.  A list is a record with *)
(* its set of transactions and the cached cap on their costs; a heap is a  *)
(* function from transactions to the number of their price points, since   *)
(* a stale point may stay behind when its transaction comes back.          *)
(***************************************************************************)
EXTENDS Integers, Sequences, FiniteSets, FiniteSetsExt

CONSTANTS
    Tx,              \* records with from, nonce, price, cost and slots
    PriceBump        \* percent

newTxList == [txs |-> {}, costcap |-> 0]
Above(l, n) == {t \in l.txs : t.nonce > n}
Below(l, n) == {t \in l.txs : t.nonce < n}
At(l, n) == {t \in l.txs : t.nonce = n}
Without(l, ts) == [l EXCEPT !.txs = @ \ ts]

(* Add: a transaction replaces one of the same nonce if it pays enough.    *)
Add(l, t) ==
    LET old == At(l, t.nonce)
        ok  == \A o \in old : t.price > o.price /\ t.price >= (o.price * (100 + PriceBump)) \div 100
    IN  [ok |-> ok, old |-> IF ok THEN old ELSE {},
         list |-> IF ok THEN [txs |-> (l.txs \ old) \cup {t}, costcap |-> Max({l.costcap, t.cost})] ELSE l]

(* Filter: what costs more than the limit goes, and in a strict list what  *)
(* comes after it.  The cached cap decides whether to look at all.         *)
Filter(l, limit, strict) ==
    LET removed == IF l.costcap <= limit THEN {} ELSE {t \in l.txs : t.cost > limit}
        after   == IF strict /\ removed # {} THEN Above(Without(l, removed), Min({t.nonce : t \in removed})) ELSE {}
    IN  [removed |-> removed, invalids |-> after,
         list |-> [txs |-> l.txs \ (removed \cup after), costcap |-> Min({l.costcap, limit})]]

(* Cap: what exceeds a number of transactions, from the highest nonce.     *)
Excess(l, n) == {t \in l.txs : Cardinality(Below(l, t.nonce)) >= n}

(* Mutant: only what starts before the nonce is ready.                     *)
Ready_Before(l, start) ==
    {t \in l.txs : LET low == Min({u.nonce : u \in l.txs}) IN
                   low < start /\ \A n \in low .. t.nonce : At(l, n) # {}}

(* Ready: the run of consecutive nonces at the front, if it starts in time.*)
Ready(l, start) ==
    {t \in l.txs : LET low == Min({u.nonce : u \in l.txs}) IN
                   low <= start /\ \A n \in low .. t.nonce : At(l, n) # {}}

LastNonce(l) == Max({t.nonce : t \in l.txs})

-----------------------------------------------------------------------------
(* txPricedList, for the remote transactions in a set.                     *)
urgentRatio == 4
floatingRatio == 1

NoPoint == [t \in Tx |-> 0]
newTxPricedList == [urgent |-> NoPoint, floating |-> NoPoint, stales |-> 0]
Points(h) == {t \in Tx : h[t] > 0}
Size(h) == FoldSet(LAMBDA t, n : n + h[t], 0, Tx)
Push(h, t) == [h EXCEPT ![t] = @ + 1]
Take(h, t) == [h EXCEPT ![t] = @ - 1]

(* The head of a heap: the lowest price, then the highest nonce.  Of two   *)
(* accounts' transactions with the same price and nonce the code takes the *)
(* one its array happens to have first; here it is always the same one.    *)
Cheaper(a, b) == a.price < b.price \/ (a.price = b.price /\ a.nonce > b.nonce)
Lowest(h) == CHOOSE t \in Points(h) : \A u \in Points(h) : ~Cheaper(u, t)

Put(l, t, local) == IF local THEN l ELSE [l EXCEPT !.urgent = Push(@, t)]

(* Reheap: the remote transactions, their worst part in the floating heap. *)
RECURSIVE Worst(_, _)
Worst(h, n) == IF n = 0 THEN {} ELSE {Lowest(h)} \cup Worst(Take(h, Lowest(h)), n - 1)
Reheap(remotes) ==
    LET every == [t \in Tx |-> IF t \in remotes THEN 1 ELSE 0]
        worst == Worst(every, (Cardinality(remotes) * floatingRatio) \div (urgentRatio + floatingRatio))
    IN  [urgent |-> [t \in Tx |-> IF t \in worst THEN 0 ELSE every[t]],
         floating |-> [t \in Tx |-> IF t \in worst THEN 1 ELSE 0], stales |-> 0]

Removed(l, count, remotes) ==
    IF l.stales + count <= (Size(l.urgent) + Size(l.floating)) \div 4 THEN [l EXCEPT !.stales = @ + count]
    ELSE Reheap(remotes)

(* underpricedFor drops the stale points at the head before it compares.   *)
RECURSIVE Cleaned(_, _, _)
Cleaned(h, stales, remotes) ==
    IF Points(h) = {} \/ Lowest(h) \in remotes THEN [heap |-> h, stales |-> stales]
    ELSE Cleaned(Take(h, Lowest(h)), stales - 1, remotes)

UnderpricedFor(h, t) == Points(h) # {} /\ Lowest(h).price >= t.price

(* Underpriced: the second heap is only looked at when the first answer    *)
(* leaves the result open.                                                 *)
Underpriced(l, t, remotes) ==
    LET u    == Cleaned(l.urgent, l.stales, remotes)
        one  == UnderpricedFor(u.heap, t) \/ Points(u.heap) = {}
        f    == IF one THEN Cleaned(l.floating, u.stales, remotes) ELSE [heap |-> l.floating, stales |-> u.stales]
        two  == UnderpricedFor(f.heap, t) \/ Points(f.heap) = {}
    IN  [list |-> [urgent |-> u.heap, floating |-> f.heap, stales |-> f.stales],
         yes  |-> one /\ two /\ (Points(u.heap) # {} \/ Points(f.heap) # {})]

(* Discard: the points to drop, in order, until enough slots are found.    *)
RECURSIVE discard(_, _, _, _)
discard(l, slots, drop, remotes) ==
    IF slots <= 0 THEN [list |-> l, drop |-> drop, slots |-> slots]
    ELSE IF Size(l.urgent) * floatingRatio > Size(l.floating) * urgentRatio
    THEN LET t == Lowest(l.urgent) IN
         IF t \notin remotes
         THEN discard([l EXCEPT !.urgent = Take(@, t), !.stales = @ - 1], slots, drop, remotes)
         ELSE discard([l EXCEPT !.urgent = Take(@, t), !.floating = Push(@, t)], slots, drop, remotes)
    ELSE IF Points(l.floating) = {} THEN [list |-> l, drop |-> drop, slots |-> slots]
    ELSE LET t == Lowest(l.floating) IN
         IF t \notin remotes
         THEN discard([l EXCEPT !.floating = Take(@, t), !.stales = @ - 1], slots, drop, remotes)
         ELSE discard([l EXCEPT !.floating = Take(@, t)], slots - t.slots, Append(drop, t), remotes)

Discard(l, slots, force, remotes) ==
    LET d == discard(l, slots, <<>>, remotes)
        back == [d.list EXCEPT !.urgent = [t \in Tx |-> @[t] + Cardinality({i \in DOMAIN d.drop : d.drop[i] = t})]]
    IN  IF d.slots > 0 /\ ~force THEN [list |-> back, drop |-> <<>>, ok |-> FALSE]
        ELSE [list |-> d.list, drop |-> d.drop, ok |-> TRUE]
=============================================================================
