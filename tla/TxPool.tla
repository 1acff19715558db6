------------------------------- MODULE TxPool -------------------------------
(***************************************************************************)
(* core/tx_pool.go: transactions enter the queue of their account, become  *)
(* pending when they are executable, and leave when they are mined,        *)
(* replaced, too expensive or in excess.  The data under the lock of the   *)
(* pool is the record p; scheduleReorgLoop collects requests and runs one  *)
(* reorganisation at a time beside the callers.                            *)
(*                                                                         *)
(* A chain is the sequence of its blocks, each a set of transactions and   *)
(* of accounts that are short of funds.  Cost stands for both the limits   *)
(* on cost and on gas, price for fee cap and tip.                          *)
(***************************************************************************)
EXTENDS TxList, SequencesExt

CONSTANTS
    Account,
    High, Low,       \* balances of an account that has funds, or is short
    Settings         \* configurations of the pool, and the bounds to explore each with

ASSUME TxPoolAssumption ==
    /\ \A t \in Tx : t.from \in Account /\ {t.nonce, t.price, t.cost, t.slots} \subseteq Nat
    /\ \A s \in Settings :
         /\ {s.globalSlots, s.globalQueue, s.accountSlots, s.accountQueue} \subseteq Nat
         /\ s.globalSlots > 0 /\ s.accountSlots > 0 /\ s.txs \subseteq Tx

VARIABLES
    setting,         \* one of them, for good
    p,               \* the fields of TxPool that its lock protects
    asking,          \* dirty accounts of callers about to ask for promotion
    reset, dirty, launch, queued,   \* what scheduleReorgLoop has collected; queued: queuedEvents
    run,             \* the run in the background: its stage and arguments
    chain,
    announced,       \* transactions sent to subscribers
    missed,          \* history: events that a reset dropped without resetting the nonces
    refused,         \* history: transactions of a dropped block that the pool did not take back
    adds, heads, others

loop == <<reset, dirty, launch, queued>>
bounds == <<adds, heads, others>>
history == <<announced, missed, refused>>
vars == <<setting, p, asking, loop, run, chain, history, bounds>>

GlobalSlots == setting.globalSlots
GlobalQueue == setting.globalQueue
AccountSlots == setting.accountSlots
AccountQueue == setting.accountQueue
Price == setting.prices        \* values of SetGasPrice
Block == setting.blocks        \* blocks the chain may be extended with
Outcome == setting.outcomes    \* of reset: "ok", "lost" (the old chain) or "skip"
MaxAdd == setting.adds         \* bound: calls that add transactions
MaxHead == setting.heads       \* bound: new chain heads
MaxReorg == setting.reorg      \* bound: blocks that a reorg drops
MaxOther == setting.others     \* bound: evictions and changes of the price
MaxChain == 2                  \* bound: length of a chain

NoReset == [old |-> <<>>, new |-> <<>>, some |-> FALSE]
NoRun == [stage |-> "none", reset |-> NoReset, dirty |-> {}, events |-> {}]

Mined(c) == UNION {c[i].txs : i \in DOMAIN c}
StateNonce(c) == [a \in Account |-> Cardinality({t \in Mined(c) : t.from = a})]
Balance(c) == [a \in Account |-> IF c # <<>> /\ a \in Last(c).short THEN Low ELSE High]

-----------------------------------------------------------------------------
(* txLookup                                                                *)
All(q) == q.local \cup q.remote
Slots(q) == FoldSet(LAMBDA t, n : n + t.slots, 0, All(q))
Lookup_Remove(q, ts) == [q EXCEPT !.local = @ \ ts, !.remote = @ \ ts]
Price_Removed(q, n) == [q EXCEPT !.priced = Removed(@, n, q.remote)]
Beat(q, a) == [q EXCEPT !.beats = Append(SelectSeq(@, LAMBDA b : b # a), a)]
NoBeat(q, a) == [q EXCEPT !.beats = SelectSeq(@, LAMBDA b : b # a)]
Beaten(q, a) == IF Contains(q.beats, a) THEN q ELSE Beat(q, a)

(* enqueueTx without addAll, for a transaction that is known already.      *)
Requeue(q, t) ==
    LET a == Add(q.queue[t.from], t)
        r == [q EXCEPT !.queue[t.from] = a.list]
        s == IF a.old = {} THEN r ELSE Price_Removed(Lookup_Remove(r, a.old), 1)
    IN  IF ~a.ok THEN q ELSE Beaten(s, t.from)
RequeueAll(q, ts) == FoldSet(LAMBDA t, r : Requeue(r, t), q, ts)

SetIfLower(q, a, n) == [q EXCEPT !.nonces[a] = Min({@, n})]

(* Mutant: the nonce for the account is not lowered.                       *)
removeTx_KeepsNonce(q, t, outofbound) ==
    LET a    == t.from
        r    == Lookup_Remove(q, {t})
        s    == IF outofbound THEN Price_Removed(r, 1) ELSE r
        inv  == Above(s.pending[a], t.nonce)
        list == Without(s.pending[a], At(s.pending[a], t.nonce) \cup inv)
        rest == Without(s.queue[a], At(s.queue[a], t.nonce))
    IN  IF t \notin All(q) THEN q
        ELSE IF At(s.pending[a], t.nonce) # {}
        THEN RequeueAll([s EXCEPT !.pending[a] = IF list.txs = {} THEN newTxList ELSE list], inv)
        ELSE IF rest.txs = {} THEN NoBeat([s EXCEPT !.queue[a] = newTxList], a) ELSE [s EXCEPT !.queue[a] = rest]

(* removeTx: what comes after a pending transaction goes back to the queue.*)
removeTx(q, t, outofbound) ==
    LET a    == t.from
        r    == Lookup_Remove(q, {t})
        s    == IF outofbound THEN Price_Removed(r, 1) ELSE r
        inv  == Above(s.pending[a], t.nonce)
        list == Without(s.pending[a], At(s.pending[a], t.nonce) \cup inv)
        rest == Without(s.queue[a], At(s.queue[a], t.nonce))
    IN  IF t \notin All(q) THEN q
        ELSE IF At(s.pending[a], t.nonce) # {}
        THEN SetIfLower(RequeueAll([s EXCEPT !.pending[a] = IF list.txs = {} THEN newTxList ELSE list], inv), a, t.nonce)
        ELSE IF rest.txs = {} THEN NoBeat([s EXCEPT !.queue[a] = newTxList], a) ELSE [s EXCEPT !.queue[a] = rest]
RemoveAll(q, ts, outofbound) == FoldLeft(LAMBDA r, t : removeTx(r, t, outofbound), q, ts)

-----------------------------------------------------------------------------
(* validateTx                                                              *)
Valid(q, t, isLocal) ==
    (isLocal \/ t.price >= q.gasPrice) /\ t.nonce >= q.state[t.from] /\ t.cost <= q.balance[t.from]

(* In a full pool add drops what is cheaper (d, found by Discard), or      *)
(* fails; u is what Underpriced says.                                      *)
Drop(q, d, isLocal) ==
    LET r == [q EXCEPT !.priced = d.list] IN
    IF ~isLocal /\ ~d.ok THEN [pool |-> r, ok |-> FALSE]
    ELSE [pool |-> RemoveAll([r EXCEPT !.changes = @ + Len(d.drop)], d.drop, FALSE), ok |-> TRUE]
Free(q, u, over, isLocal) ==
    LET r == IF isLocal THEN q ELSE [q EXCEPT !.priced = u.list] IN
    IF (~isLocal /\ u.yes) \/ q.changes > GlobalSlots \div 4 THEN [pool |-> r, ok |-> FALSE]
    ELSE Drop(r, Discard(r.priced, over, isLocal, r.remote), isLocal)
MakeRoom(q, t, isLocal) ==
    LET over == Slots(q) + t.slots - (GlobalSlots + GlobalQueue) IN
    IF over <= 0 THEN [pool |-> q, ok |-> TRUE]
    ELSE Free(q, Underpriced(q.priced, t, q.remote), over, isLocal)

(* Store a transaction in the lookup and the heaps, for those it replaced. *)
Store(q, t, isLocal, old) ==
    LET r == IF old = {} THEN q ELSE Price_Removed(Lookup_Remove(q, old), 1) IN
    [r EXCEPT !.local = IF isLocal THEN @ \cup {t} ELSE @, !.remote = IF isLocal THEN @ ELSE @ \cup {t},
              !.priced = Put(@, t, isLocal)]

MarkLocal(q, a) ==
    LET mine == {t \in q.remote : t.from = a} IN
    Price_Removed([q EXCEPT !.locals = @ \cup {a}, !.remote = @ \ mine, !.local = @ \cup mine], Cardinality(mine))

(* add: a transaction replaces a pending one, or is queued.                *)
Failed(q) == [pool |-> q, ok |-> FALSE, replaced |-> FALSE, event |-> FALSE]
Place(q, t, local, isLocal) ==
    LET a    == t.from
        pend == Add(q.pending[a], t)
        que  == Add(q.queue[a], t)
        kept == Beaten(Store([q EXCEPT !.queue[a] = que.list], t, isLocal, que.old), a)
    IN  IF At(q.pending[a], t.nonce) # {}
        THEN IF ~pend.ok THEN Failed(q)
             ELSE [pool |-> Beat(Store([q EXCEPT !.pending[a] = pend.list], t, isLocal, pend.old), a),
                   ok |-> TRUE, replaced |-> TRUE, event |-> TRUE]
        ELSE IF ~que.ok THEN Failed(q)
        ELSE [pool |-> IF local /\ a \notin q.locals THEN MarkLocal(kept, a) ELSE kept,
              ok |-> TRUE, replaced |-> que.old # {}, event |-> FALSE]
add(q, t, local) ==
    LET isLocal == local \/ t.from \in q.locals
        With(m) == IF m.ok THEN Place(m.pool, t, local, isLocal) ELSE Failed(m.pool)
    IN  IF t \in All(q) \/ ~Valid(q, t, isLocal) THEN Failed(q) ELSE With(MakeRoom(q, t, isLocal))

Event(es, t) == {e \in es : e.from # t.from \/ e.nonce # t.nonce} \cup {t}

(* Mutant: a replacement is not announced.                                 *)
Added_Silent(s, t, a) ==
    [pool |-> a.pool, dirty |-> IF a.ok /\ ~a.replaced THEN s.dirty \cup {t.from} ELSE s.dirty, events |-> <<>>]

(* addTxsLocked, with the accounts to look at and the events it queues.    *)
Added(s, t, a) ==
    [pool |-> a.pool, dirty |-> IF a.ok /\ ~a.replaced THEN s.dirty \cup {t.from} ELSE s.dirty,
     events |-> IF a.event THEN Append(s.events, t) ELSE s.events]
addTxsLocked(q, ts, local) ==
    FoldLeft(LAMBDA s, t : Added(s, t, add(s.pool, t, local)), [pool |-> q, dirty |-> {}, events |-> <<>>], ts)

-----------------------------------------------------------------------------
(* promoteTx                                                               *)
promoteTx(q, t) ==
    LET a == Add(q.pending[t.from], t)
        r == [q EXCEPT !.pending[t.from] = a.list]
        s == IF a.old = {} THEN r ELSE Price_Removed(Lookup_Remove(r, a.old), 1)
    IN  IF ~a.ok THEN Price_Removed(Lookup_Remove(q, {t}), 1)
        ELSE Beat([s EXCEPT !.nonces[t.from] = t.nonce + 1], t.from)

ByNonce(ts) == SetToSortSeq(ts, LAMBDA t, u : t.nonce < u.nonce)

(* promoteExecutables for one account.                                     *)
Promote(q, a) ==
    LET old   == Below(q.queue[a], q.state[a])
        f     == Filter(Without(q.queue[a], old), q.balance[a], FALSE)
        ready == Ready(f.list, q.nonces[a])
        rest  == Without(f.list, ready)
        r     == Lookup_Remove([q EXCEPT !.queue[a] = rest], old \cup f.removed)
        s     == FoldLeft(promoteTx, r, ByNonce(ready))
        caps  == IF a \in q.locals THEN {} ELSE Excess(rest, AccountQueue)
        left  == Without(rest, caps)
        u     == Price_Removed(Lookup_Remove([s EXCEPT !.queue[a] = left], caps),
                               Cardinality(old \cup f.removed \cup caps))
    IN  IF q.queue[a].txs = {} THEN q
        ELSE IF left.txs = {} THEN NoBeat([u EXCEPT !.queue[a] = newTxList], a) ELSE u

(* demoteUnexecutables for one account.                                    *)
Demote(q, a) ==
    LET old  == Below(q.pending[a], q.state[a])
        f    == Filter(Without(q.pending[a], old), q.balance[a], TRUE)
        gap  == IF At(f.list, q.state[a]) = {} THEN f.list.txs ELSE {}
        left == Without(f.list, gap)
        r    == Lookup_Remove([q EXCEPT !.pending[a] = IF left.txs = {} THEN newTxList ELSE left], old \cup f.removed)
    IN  IF q.pending[a].txs = {} THEN q ELSE RequeueAll(r, f.invalids \cup gap)

OverAccounts(Op(_, _), q, as) == FoldSet(LAMBDA a, r : Op(r, a), q, as)

(* truncatePending: the longest lists are cut to the length of the next,   *)
(* until the limit is met or all are down to AccountSlots.                 *)
Pending(q) == FoldSet(LAMBDA a, n : n + Cardinality(q.pending[a].txs), 0, Account)
Length(q, a) == Cardinality(q.pending[a].txs)
CutLast(q, a) ==
    LET cut == Excess(q.pending[a], Length(q, a) - 1) IN
    Price_Removed(SetIfLower(Lookup_Remove([q EXCEPT !.pending[a] = Without(@, cut)], cut), a, LastNonce(q.pending[a])), 1)

RECURSIVE Equalize(_, _, _, _)
Equalize(q, cut, last, threshold) ==
    IF Pending(q) > GlobalSlots /\ Length(q, last) > threshold
    THEN Equalize(FoldLeft(CutLast, q, cut), cut, last, threshold) ELSE q

RECURSIVE Penalize(_, _, _)
Penalize(q, offenders, spammers) ==
    IF Pending(q) <= GlobalSlots THEN q
    ELSE IF spammers = <<>>
    THEN IF offenders = <<>> THEN q ELSE Equalize(q, offenders, Last(offenders), AccountSlots)
    ELSE LET next == Head(spammers)
             r == IF offenders = <<>> THEN q ELSE Equalize(q, offenders, Last(offenders), Length(q, next))
         IN  Penalize(r, Append(offenders, next), Tail(spammers))

truncatePending(q) ==
    LET spam == {a \in Account \ q.locals : Length(q, a) > AccountSlots} IN
    Penalize(q, <<>>, SetToSortSeq(spam, LAMBDA a, b : Length(q, a) > Length(q, b)))

(* truncateQueue goes through the accounts from the last heartbeat on.     *)
Queued(q) == FoldSet(LAMBDA a, n : n + Cardinality(q.queue[a].txs), 0, Account)
(* Mutant: one transaction too few is dropped.                             *)
truncateQueue_Short(q) ==
    LET over  == Queued(q) - GlobalQueue - 1
        order == Reverse(SelectSeq(q.beats, LAMBDA a : a \notin q.locals /\ q.queue[a].txs # {}))
        txs   == FlattenSeq([i \in DOMAIN order |-> Reverse(ByNonce(q.queue[order[i]].txs))])
    IN  IF over <= 0 THEN q ELSE RemoveAll(q, SubSeq(txs, 1, Min({over, Len(txs)})), TRUE)

truncateQueue(q) ==
    LET over  == Queued(q) - GlobalQueue
        order == Reverse(SelectSeq(q.beats, LAMBDA a : a \notin q.locals /\ q.queue[a].txs # {}))
        txs   == FlattenSeq([i \in DOMAIN order |-> Reverse(ByNonce(q.queue[order[i]].txs))])
    IN  IF over <= 0 THEN q ELSE RemoveAll(q, SubSeq(txs, 1, Min({over, Len(txs)})), TRUE)

-----------------------------------------------------------------------------
(* reset: take over the state of the new head, and put back what only the  *)
(* old chain contained.                                                    *)
IsChild(old, new) == new # <<>> /\ old = Front(new)
Reinject(r, outcome) ==
    IF outcome # "ok" \/ IsChild(r.old, r.new) THEN {} ELSE Mined(r.old) \ Mined(r.new)
Reset(q, r, outcome) ==
    LET back  == Reinject(r, outcome)
        fresh == [q EXCEPT !.state = StateNonce(r.new), !.nonces = StateNonce(r.new), !.balance = Balance(r.new)]
    IN  IF outcome = "skip" THEN [pool |-> q, dirty |-> {}, events |-> <<>>]
        ELSE addTxsLocked(fresh, FlattenSeq([i \in DOMAIN r.old |-> ByNonce(r.old[Len(r.old) + 1 - i].txs \cap back)]), FALSE)

(* The part of runReorg under the lock.  The rules are those of London: a  *)
(* reset ends with SetBaseFee, which re-heaps.                             *)
AfterDemotion(q) ==
    [q EXCEPT !.priced = Reheap(q.remote),
              !.nonces = [a \in Account |-> IF q.pending[a].txs = {} THEN q.state[a] ELSE LastNonce(q.pending[a]) + 1]]
PendingTxs(q) == UNION {q.pending[a].txs : a \in Account}
AfterPromotion(s, up, r) ==
    LET kept == IF r.reset.some THEN {e \in r.events : e.nonce >= s.pool.nonces[e.from]} ELSE r.events
        down == IF r.reset.some THEN AfterDemotion(OverAccounts(Demote, up, Account)) ELSE up
    IN  [pool |-> [truncateQueue(truncatePending(down)) EXCEPT !.changes = 0], more |-> s.events,
         events |-> FoldSet(LAMBDA t, es : Event(es, t), kept, PendingTxs(up) \ PendingTxs(s.pool))]
AfterReset(s, r) ==
    AfterPromotion(s, OverAccounts(Promote, s.pool, IF r.reset.some THEN Account ELSE r.dirty), r)
Reorganised(q, r, outcome) ==
    AfterReset(IF r.reset.some THEN Reset(q, r.reset, outcome) ELSE [pool |-> q, dirty |-> {}, events |-> <<>>], r)

-----------------------------------------------------------------------------
Init ==
    /\ setting \in Settings
    /\ p = [pending |-> [a \in Account |-> newTxList], queue |-> [a \in Account |-> newTxList],
            local |-> {}, remote |-> {}, priced |-> newTxPricedList, locals |-> {}, beats |-> <<>>,
            state |-> [a \in Account |-> 0], nonces |-> [a \in Account |-> 0],
            balance |-> [a \in Account |-> High], gasPrice |-> Min(Price), changes |-> 0]
    /\ asking = {} /\ reset = NoReset /\ dirty = {} /\ launch = FALSE /\ queued = {}
    /\ run = NoRun /\ chain = <<>> /\ announced = {} /\ missed = {} /\ refused = {} /\ adds = 0 /\ heads = 0 /\ others = 0

(* addTxs: the transaction under the lock, then a request for promotion.   *)
Accept(s) == p' = s.pool /\ asking' = asking \cup {s.dirty} /\ queued' = FoldLeft(Event, queued, s.events)
AddTx(t, local) ==
    /\ t \notin All(p) /\ adds < MaxAdd /\ adds' = adds + 1
    /\ Accept(addTxsLocked(p, <<t>>, local))
    /\ UNCHANGED <<setting, reset, dirty, launch, run, chain, history, heads, others>>

RequestPromote(as) ==
    /\ as \in asking /\ asking' = asking \ {as}
    /\ dirty' = dirty \cup as /\ launch' = TRUE
    /\ UNCHANGED <<setting, p, reset, queued, run, chain, history, bounds>>

(* A new head: the chain drops its last n blocks and gets new ones.  The   *)
(* main loop asks for a reset, which is merged with one that waits.        *)
NewHead(n, bs) ==
    LET new == SubSeq(chain, 1, Len(chain) - n) \o bs IN
    /\ heads < MaxHead /\ heads' = heads + 1 /\ n <= Len(chain) /\ Len(new) \in 1 .. MaxChain /\ n + Len(bs) > 0
    /\ \A t \in Mined(new) : \A m \in 0 .. t.nonce : Cardinality({u \in Mined(new) : u.from = t.from /\ u.nonce = m}) = 1
    /\ chain' = new /\ launch' = TRUE
    /\ reset' = [old |-> IF reset.some THEN reset.old ELSE chain, new |-> new, some |-> TRUE]
    /\ UNCHANGED <<setting, p, asking, dirty, queued, run, history, adds, others>>

(* scheduleReorgLoop starts a run when none is active.                     *)
Launch ==
    /\ launch /\ run.stage = "none"
    /\ run' = [stage |-> "start", reset |-> reset, dirty |-> dirty, events |-> queued]
    /\ launch' = FALSE /\ reset' = NoReset /\ dirty' = {} /\ queued' = {}
    /\ UNCHANGED <<setting, p, asking, chain, history, bounds>>

RunsTo(s) ==
    /\ p' = s.pool /\ run' = [run EXCEPT !.stage = "send", !.events = s.events]
    /\ queued' = FoldLeft(Event, queued, s.more)
RunLocked(outcome) ==
    /\ run.stage = "start" /\ (outcome # "ok" => run.reset.some)
    /\ RunsTo(Reorganised(p, run, outcome))
    /\ missed' = missed \cup (IF outcome = "skip" THEN {e \in run.events : e.nonce < p.nonces[e.from]} ELSE {})
    /\ refused' = refused \cup (Reinject(run.reset, outcome) \ All(Reorganised(p, run, outcome).pool))
    /\ UNCHANGED <<setting, asking, reset, dirty, launch, chain, announced, bounds>>

RunSend ==
    /\ run.stage = "send" /\ announced' = announced \cup run.events /\ run' = NoRun
    /\ UNCHANGED <<setting, p, asking, loop, chain, missed, refused, bounds>>

(* Mutant: local accounts are evicted too.                                 *)
Evict_Locals(as) ==
    LET txs == ByNonce(UNION {p.queue[a].txs : a \in as}) IN
    /\ others < MaxOther /\ others' = others + 1
    /\ as # {} /\ \A a \in as : p.queue[a].txs # {}
    /\ p' = RemoveAll(p, txs, TRUE)
    /\ UNCHANGED <<setting, asking, loop, run, chain, history, adds, heads>>

(* The eviction ticker: queues of accounts that were silent too long.      *)
Evict(as) ==
    LET txs == ByNonce(UNION {p.queue[a].txs : a \in as}) IN
    /\ others < MaxOther /\ others' = others + 1
    /\ as # {} /\ \A a \in as : a \notin p.locals /\ p.queue[a].txs # {}
    /\ p' = RemoveAll(p, txs, TRUE)
    /\ UNCHANGED <<setting, asking, loop, run, chain, history, adds, heads>>

SetGasPrice(price) ==
    LET drop == ByNonce({t \in p.remote : t.price < price})
        q    == RemoveAll([p EXCEPT !.gasPrice = price], drop, FALSE)
    IN  /\ others < MaxOther /\ others' = others + 1 /\ price # p.gasPrice
        /\ p' = IF price > p.gasPrice THEN Price_Removed(q, Len(drop)) ELSE [p EXCEPT !.gasPrice = price]
        /\ UNCHANGED <<setting, asking, loop, run, chain, history, adds, heads>>

Next ==
    \/ \E t \in setting.txs, local \in BOOLEAN : AddTx(t, local)
    \/ \E as \in asking : RequestPromote(as)
    \/ \E n \in 0 .. MaxReorg, bs \in SeqOf(Block, 1) : NewHead(n, bs)
    \/ Launch \/ (\E o \in Outcome : RunLocked(o)) \/ RunSend
    \/ \E as \in SUBSET Account : Evict(as)
    \/ \E price \in Price : SetGasPrice(price)

Spec == Init /\ [][Next]_vars

-----------------------------------------------------------------------------
(* Every known transaction is in exactly one list of its account, and the  *)
(* lists hold nothing else.                                                *)
Listed == [a \in Account |-> p.pending[a].txs \cup p.queue[a].txs]
AllListed ==
    /\ All(p) = UNION {Listed[a] : a \in Account} /\ p.local \cap p.remote = {}
    /\ \A a \in Account : /\ p.pending[a].txs \cap p.queue[a].txs = {} /\ \A t \in Listed[a] : t.from = a
                          /\ \A t, u \in Listed[a] : t.nonce = u.nonce => t = u

(* A reset that cannot put back a transaction may leave a gap in its       *)
(* place, but never in front; promoteTx then takes the nonce after a       *)
(* transaction that fills it for the next one.                             *)
Gap(a) == {n \in {t.nonce : t \in {u \in refused : u.from = a}} : n > p.state[a]}

(* Nonce names the nonce after the last pending transaction.               *)
NonceAfterPending ==
    \A a \in Account : Gap(a) = {} =>
        p.nonces[a] = IF p.pending[a].txs = {} THEN p.state[a] ELSE LastNonce(p.pending[a]) + 1

(* Pending transactions are consecutive, from the nonce of the account on: *)
(* "strict: whether nonces are strictly continuous or not".                *)
PendingContiguous ==
    \A a \in Account : LET nonces == {t.nonce : t \in p.pending[a].txs} IN
        \A n \in nonces : n >= p.state[a] /\ p.state[a] .. n \subseteq nonces \cup Gap(a)

(* When nothing is running or asked for, what is executable is pending.    *)
(* A reset lowers the nonces from which promoteExecutables looks, and may  *)
(* leave a transaction behind in the queue that follows pending ones: once *)
(* there are new heads this is about accounts with nothing pending.        *)
Quiet == run = NoRun /\ ~launch /\ asking = {}
ExecutablePending ==
    Quiet => \A a \in Account : At(p.queue[a], p.nonces[a]) = {} \/ (heads > 0 /\ p.pending[a].txs # {})

(* When nothing is running or asked for, every pending transaction has     *)
(* been announced to the subscribers, or waits for the next run: "Queue up *)
(* the event, but don't schedule a reorg", which is what a reset does when *)
(* a transaction that it puts back replaces a pending one.  The exception  *)
(* are events that runReorg drops as stale ("Nonces were reset, discard    *)
(* any events that became stale") after a reset that returned before it    *)
(* had reset the nonces.                                                   *)
PendingAnnounced == Quiet => \A a \in Account : p.pending[a].txs \subseteq announced \cup queued \cup missed

(* The cached caps never hide a transaction from Filter.                   *)
CapsBound ==
    \A a \in Account : \A l \in {p.pending[a], p.queue[a]} : \A t \in l.txs : t.cost <= l.costcap

(* Every remote transaction has a price point, so that a full pool can     *)
(* find it for eviction.                                                   *)
RemotesPriced == p.remote \subseteq Points(p.priced.urgent) \cup Points(p.priced.floating)

(* At most as many price points are stale as the counter says by which     *)
(* Removed decides to re-heap.                                             *)
Stale(h) == FoldSet(LAMBDA t, n : n + h[t], 0, Tx \ p.remote)
StalesCounted == Stale(p.priced.urgent) + Stale(p.priced.floating) <= p.priced.stales

(* A queue of an account has a heartbeat, so that it is not evicted at the *)
(* first tick.                                                             *)
QueueHasBeat == \A a \in Account : p.queue[a].txs # {} => Contains(p.beats, a)

(* A transaction of a local account leaves the pool only when it is too    *)
(* old, too expensive or replaced by one that pays more.                   *)
LocalsStay ==
    [][\A t \in All(p) \ All(p)' : t.from \in p.locals =>
         \/ t.nonce < p'.state[t.from] \/ t.cost > p'.balance[t.from]
         \/ \E u \in All(p)' : u.from = t.from /\ u.nonce = t.nonce /\ u.price > t.price]_vars

(* After a reorganisation the limits hold, as far as they bind accounts    *)
(* that are not local.                                                     *)
LimitsHold ==
    [][run.stage = "start" /\ run'.stage = "send" =>
         /\ Pending(p') <= GlobalSlots \/ \A a \in Account \ p.locals : Length(p', a) <= AccountSlots
         /\ Queued(p') <= GlobalQueue \/ \A a \in Account \ p.locals : p'.queue[a].txs = {}]_vars

(* Slots for all stay bounded, local transactions apart.                   *)
SlotsBounded == p.local = {} => Slots(p) <= GlobalSlots + GlobalQueue

(* The lookup, the lists with their cached caps, the priced heaps with     *)
(* their counter of stale entries, the pending nonces and the heartbeats   *)
(* agree after every critical section of pool.mu (validateTxPoolInternals  *)
(* of the tests compares counts and nonces).                               *)
PoolInternals ==
    /\ AllListed /\ NonceAfterPending /\ PendingContiguous /\ CapsBound
    /\ RemotesPriced /\ StalesCounted /\ QueueHasBeat /\ SlotsBounded
=============================================================================
