----------------------------- MODULE SStoreGas ------------------------------
(***************************************************************************)
(* core/vm: what a write to storage costs and refunds, under the rules of  *)
(* each fork, in transactions of nested calls that may be reverted.        *)
(*                                                                         *)
(* The part of the StateDB that matters here is the record st: the current *)
(* values, the refund counter, the access list, and the contracts that     *)
(* destructed themselves.  A call saves it and a failing call restores it, *)
(* as snapshots do (StateJournal).  Cells are pairs of contract and slot.  *)
(***************************************************************************)
EXTENDS Integers, Sequences, FiniteSets

CONSTANTS
    Contract, Slot, Val,
    MaxDepth,        \* bound: nested calls
    MaxOps           \* bound: writes and destructions of a transaction, with its start

Cell == Contract \X Slot
Forks == {"legacy", "1283", "2200", "2929", "3529"}

(* What the theorems take for granted of the constants: values are words,  *)
(* and there are finitely many cells.                                      *)
Words == Val \subseteq Nat /\ 0 \in Val /\ IsFiniteSet(Cell)

VARIABLES
    rules,           \* the fork the chain is at
    original,        \* committed values, at the start of the transaction
    st, frames,      \* the state, and the calls with what they saved
    panicked,        \* one of the two panics was reached
    ops
vars == <<rules, original, st, frames, panicked, ops>>

(* The numbers of params/protocol_params.go, by fork.                      *)
Clear(f) == IF f = "3529" THEN 4800 ELSE 15000
Noop(f) == CASE f = "1283" -> 200 [] f = "2200" -> 800 [] OTHER -> 100
Clean(f) == IF f \in {"2929", "3529"} THEN 5000 - 2100 ELSE 5000
SetGas == 20000
SelfdestructRefundGas == 24000
Berlin(f) == f \in {"2929", "3529"}

(* The legacy rules look at the current value only.                        *)
Legacy(cur, v) ==
    CASE cur = 0 /\ v # 0 -> [gas |-> 20000, refund |-> 0]
      [] cur # 0 /\ v = 0 -> [gas |-> 5000, refund |-> 15000]
      [] OTHER            -> [gas |-> 5000, refund |-> 0]

(* Net metering: the original value is looked at too.  The surcharge for   *)
(* a cold slot comes on top and is left out.                               *)
Net(f, orig, cur, v) ==
    IF cur = v THEN [gas |-> Noop(f), refund |-> 0]
    ELSE IF orig = cur
    THEN [gas |-> IF orig = 0 THEN SetGas ELSE Clean(f), refund |-> IF orig # 0 /\ v = 0 THEN Clear(f) ELSE 0]
    ELSE [gas |-> Noop(f),
          refund |-> (IF orig = 0 THEN 0 ELSE IF cur = 0 THEN -Clear(f) ELSE IF v = 0 THEN Clear(f) ELSE 0)
                     + (IF orig # v THEN 0 ELSE IF orig = 0 THEN SetGas - Noop(f) ELSE Clean(f) - Noop(f))]

Cost(f, orig, cur, v) == IF f = "legacy" THEN Legacy(cur, v) ELSE Net(f, orig, cur, v)

(* The part of it that SubRefund takes, before anything is added.          *)
Taken(f, orig, cur, v) ==
    IF f # "legacy" /\ cur # v /\ orig # cur /\ orig # 0 /\ cur = 0 THEN Clear(f) ELSE 0

(* Prepare, for a new transaction.  paid is what the writes to a cell that *)
(* stand have cost, beyond the no-op price, less what they refunded.       *)
Prepared(current) ==
    [current |-> current, refund |-> 0, addrs |-> {}, slots |-> {}, suicided |-> {}, paid |-> [c \in Cell |-> 0]]

Init ==
    /\ rules \in Forks
    /\ original \in [Cell -> Val]
    /\ st = Prepared(original) /\ frames = <<>> /\ panicked = FALSE /\ ops = 0

Top == frames[Len(frames)]
Push(a, s) == frames' = Append(frames, [addr |-> a, saved |-> s]) /\ st' = s
Pop == SubSeq(frames, 1, Len(frames) - 1)
Warmed(s, a) == IF Berlin(rules) THEN [s EXCEPT !.addrs = @ \cup {a}] ELSE s

(* The transaction calls a contract, or creates it, after its access list  *)
(* was loaded (PrepareAccessList).                                         *)
Enter(a, list) ==
    /\ frames = <<>> /\ ops = 0 /\ ops' = 1
    /\ list # {} => Berlin(rules)
    /\ Push(a, Warmed([st EXCEPT !.slots = list, !.addrs = {c[1] : c \in list}], a))
    /\ UNCHANGED <<rules, original, panicked>>

(* CALL and CREATE: the address is added before the snapshot is taken.     *)
Call(a) ==
    /\ frames # <<>> /\ Len(frames) < MaxDepth
    /\ Push(a, Warmed(st, a))
    /\ UNCHANGED <<rules, original, panicked, ops>>

(* DELEGATECALL and CALLCODE: another contract's code, the same storage.   *)
DelegateCall(a) ==
    /\ frames # <<>> /\ Len(frames) < MaxDepth
    /\ Push(Top.addr, Warmed(st, a))
    /\ UNCHANGED <<rules, original, panicked, ops>>

(* SLOAD                                                                   *)
SLoad(k) ==
    /\ frames # <<>> /\ Berlin(rules)
    /\ LET a == Top.addr IN st' = [st EXCEPT !.slots = @ \cup {<<a, k>>}, !.addrs = @ \cup {a}]
    /\ UNCHANGED <<rules, original, frames, panicked, ops>>

(* SSTORE: the gas function with its effects, then the write.  SubRefund   *)
(* panics below zero, and so does a cold slot of a contract that is not in *)
(* the access list.                                                        *)
SStore(k, v) ==
    LET a == Top.addr
        c == <<a, k>>
        x == Cost(rules, original[c], st.current[c], v)
        cold == Berlin(rules) /\ c \notin st.slots
    IN  /\ frames # <<>> /\ ops < MaxOps /\ ops' = ops + 1
        /\ panicked' = (panicked \/ st.refund < Taken(rules, original[c], st.current[c], v) \/ (cold /\ a \notin st.addrs))
        /\ st' = [st EXCEPT !.current[c] = v, !.refund = @ + x.refund,
                            !.slots = IF cold THEN @ \cup {c} ELSE @,
                            !.addrs = IF cold THEN @ \cup {a} ELSE @,
                            !.paid[c] = @ + x.gas - Noop(rules) - x.refund]
        /\ UNCHANGED <<rules, original, frames>>

(* SELFDESTRUCT ends the call; its refund is given once, and was abolished.*)
Selfdestruct(b) ==
    LET a == Top.addr IN
    /\ frames # <<>> /\ ops < MaxOps /\ ops' = ops + 1
    /\ st' = [Warmed(st, b) EXCEPT !.refund = IF rules # "3529" /\ a \notin st.suicided THEN @ + SelfdestructRefundGas ELSE @,
                                   !.suicided = @ \cup {a}]
    /\ frames' = Pop
    /\ UNCHANGED <<rules, original, panicked>>

(* A call ends, well or badly.                                             *)
Return ==
    /\ frames # <<>> /\ frames' = Pop
    /\ UNCHANGED <<rules, original, st, panicked, ops>>

Revert ==
    /\ frames # <<>> /\ frames' = Pop
    /\ st' = Top.saved
    /\ UNCHANGED <<rules, original, panicked, ops>>

(* Finalise: storage of destructed contracts is gone.                      *)
EndTx ==
    LET left == [c \in Cell |-> IF c[1] \in st.suicided THEN 0 ELSE st.current[c]] IN
    /\ frames = <<>> /\ ops > 0 /\ ops' = 0
    /\ original' = left /\ st' = Prepared(left)
    /\ UNCHANGED <<rules, frames, panicked>>

Next ==
    \/ \E a \in Contract, list \in SUBSET Cell : Enter(a, list)
    \/ \E a \in Contract : Call(a) \/ DelegateCall(a) \/ Selfdestruct(a)
    \/ \E k \in Slot : SLoad(k) \/ (\E v \in Val : SStore(k, v))
    \/ Return \/ Revert \/ EndTx

Spec == Init /\ [][Next]_vars

-----------------------------------------------------------------------------
(* SubRefund never panics ("refund counter will never go below 0"), nor    *)
(* does the case of SSTORE that is called impossible.                      *)
NoPanic == ~panicked

(* The price of writing is net: whatever the order of writes and of calls  *)
(* that fail in between, a cell costs what the change from its original to *)
(* its current value costs, beyond the no-op price of each write.          *)
NetPrice(f, orig, cur) ==
    IF orig = cur THEN 0 ELSE IF orig = 0 THEN SetGas - Noop(f)
    ELSE Clean(f) - Noop(f) - (IF cur = 0 THEN Clear(f) ELSE 0)
Metered(f, o, s) == f # "legacy" => \A c \in Cell : s.paid[c] = NetPrice(f, o[c], s.current[c])
NetMetering == Metered(rules, original, st)

(* The counter covers every slot that is cleared, now and in what a call   *)
(* would restore.                                                          *)
Cleared(o, s) == {c \in Cell : o[c] # 0 /\ s.current[c] = 0}
Covered(f, o, s) == f # "legacy" => s.refund >= Clear(f) * Cardinality(Cleared(o, s))
RefundCovers == Covered(rules, original, st) /\ \A i \in DOMAIN frames : Covered(rules, original, frames[i].saved)
=============================================================================
