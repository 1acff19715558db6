------------------------------ MODULE Recorder ------------------------------
(***************************************************************************)
(* StateProcessor.Process (core/state_processor.go) recording the          *)
(* substates of the transactions of one block: Prepare, any sequence of    *)
(* state operations and nested snapshots, Finalise.                        *)
(***************************************************************************)
EXTENDS StateDB

CONSTANT MaxTx   \* bound: transactions in the block

ASSUME RecorderAssumption == MaxTx \in Nat

VARIABLES
    phase,   \* "idle", "run" (inside a transaction) or "done" (substate saved)
    pre,     \* history: the accounts when the transaction started
    txs      \* transactions started

tx   == <<phase, pre, txs>>
vars == <<sdb, tx>>

(* Accounts of the parent state: only contracts have storage.              *)
AnyAccount == [bal : 0 .. MaxBal, code : {0, 1}, storage : [Key -> Val]]
Accounts == {x \in AnyAccount : x.code = 0 => x.storage = NoStorage}
Start(s) == [a \in Addr |-> IF s[a] = None THEN None ELSE Load(s[a])]

Init ==
    /\ \E s \in [Addr -> Accounts \cup {None}] : objects = Start(s) /\ pre = s
    /\ touched = Untouched /\ dirties = {} /\ revisions = <<>>
    /\ preAlloc = EmptyAlloc /\ postAlloc = EmptyAlloc
    /\ phase = "idle" /\ txs = 0

StartTx ==
    /\ phase # "run" /\ txs < MaxTx
    /\ Prepare
    /\ phase' = "run" /\ txs' = txs + 1
    /\ pre' = [a \in Addr |-> View(a)]

StateOp(a) ==
    \/ Lookup(a)
    \/ \E n \in {0, 1} : AddBalance(a, n) \/ SubBalance(a, n)
    \/ SetCode(a)
    \/ CreateAccount(a)
    \/ \E k \in Key : GetState(a, k)
    \/ \E k \in Key, v \in Val : SetState(a, k, v)
    \/ Suicide(a)

Operate ==
    /\ phase = "run"
    /\ \/ \E a \in Addr : StateOp(a)
       \/ Snapshot
       \/ \E i \in 1 .. Len(revisions) : RevertToSnapshot(i)
    /\ UNCHANGED tx

(* Finalise, then PutSubstate of the two allocs.                           *)
EndTx ==
    /\ phase = "run"
    /\ Finalise
    /\ phase' = "done"
    /\ UNCHANGED <<pre, txs>>

Next == StartTx \/ Operate \/ EndTx

Spec == Init /\ [][Next]_vars

-----------------------------------------------------------------------------
(* Types of the recording StateDB.                                         *)
Revision == [objects : [Addr -> Object \cup {None}], dirties : SUBSET Addr]
TypeOK ==
    /\ objects \in [Addr -> Object \cup {None}]
    /\ touched \in [Addr -> [0 .. MaxObj -> SUBSET Key]]
    /\ dirties \subseteq Addr
    /\ revisions \in Seq(Revision)
    /\ DOMAIN preAlloc \subseteq Addr /\ DOMAIN postAlloc \subseteq Addr
    /\ pre \in [Addr -> AnyAccount \cup {None}]
    /\ phase \in {"idle", "run", "done"} /\ txs \in 0 .. MaxTx

(* ResearchPreAlloc, "alloc that is read during transaction execution"     *)
(* (research/README.md), holds what the accounts were when the transaction *)
(* started: no write of the transaction, reverted or not, leaks into it,   *)
(* and no account the transaction created is in it.                        *)
InputIsPreState ==
    \A a \in DOMAIN preAlloc :
        IF preAlloc[a] = None THEN phase = "run" /\ pre[a] = None
        ELSE /\ pre[a] # None
             /\ preAlloc[a].bal = pre[a].bal /\ preAlloc[a].code = pre[a].code
             /\ \A k \in DOMAIN preAlloc[a].storage : preAlloc[a].storage[k] = pre[a].storage[k]

(* The accounts after the transaction are those before it, overwritten by  *)
(* ResearchPostAlloc, without the accounts of ResearchPreAlloc that are    *)
(* missing from it.  MakeOffTheChainStateDBWithTxs relies on this when it  *)
(* chains recorded allocs.                                                 *)
Applied(a) ==
    IF a \in DOMAIN postAlloc
    THEN Account(postAlloc[a].bal, postAlloc[a].code,
            [k \in Key |-> IF k \in DOMAIN postAlloc[a].storage THEN postAlloc[a].storage[k]
                           ELSE IF pre[a] = None THEN 0 ELSE pre[a].storage[k]])
    ELSE IF a \in DOMAIN preAlloc THEN None ELSE pre[a]
OutputCompletesInput == phase = "done" => \A a \in Addr : View(a) = Applied(a)

(* Finalise dereferences the object of every recorded account: whatever    *)
(* was created and reverted in between, that object is still there.        *)
RecordedObjectExists ==
    phase = "run" => \A a \in PreAccounts : objects[a] # None /\ ~objects[a].deleted

(* The inductive strengthening: what holds of the objects obs, of which    *)
(* the addresses ds are dirty, now and in every revision that a revert may *)
(* bring back.                                                             *)
Id(o) == IF o = None THEN 0 ELSE o.id
ObjInv(obs, ds) ==
    \A a \in Addr :
        /\ a \in ds \/ pre[a] # None => obs[a] # None /\ ~obs[a].deleted
        /\ pre[a] # None =>
              obs[a].committed = pre[a].storage /\ (obs[a].code = 0 => pre[a].code = 0)
        /\ obs[a] # None /\ ~obs[a].deleted =>
              /\ pre[a] = None => a \in ds /\ obs[a].committed = NoStorage
              /\ obs[a].code = 0 => obs[a].storage = NoStorage
              /\ a \notin ds => /\ obs[a].bal = pre[a].bal /\ obs[a].code = pre[a].code
                                /\ obs[a].storage = obs[a].committed
              /\ \A k \in Key \ touched[a][obs[a].id] : obs[a].storage[k] = obs[a].committed[k]
RevisionInv ==
    /\ \A i \in 1 .. Len(revisions) :
          /\ ObjInv(revisions[i].objects, revisions[i].dirties)
          /\ revisions[i].dirties \subseteq DOMAIN preAlloc
          /\ \A a \in Addr : Id(revisions[i].objects[a]) <= Id(objects[a])
    /\ \A i, j \in 1 .. Len(revisions) : i <= j =>
          \A a \in Addr : Id(revisions[i].objects[a]) <= Id(revisions[j].objects[a])
IdleInv ==
    /\ dirties = {} /\ revisions = <<>>
    /\ \A a \in Addr : Live(a) =>
          objects[a].storage = objects[a].committed /\ (objects[a].code = 0 => objects[a].storage = NoStorage)

(* Why the two allocs can be trusted: nothing but the touched slots of     *)
(* dirty objects has changed since the transaction started, in the present *)
(* state and in every state a revert can restore.                          *)
RecInv ==
    /\ InputIsPreState
    /\ \A a \in Addr : pre[a] # None => pre[a] \in Accounts
    /\ phase = "run" =>
          /\ \A a \in PreAccounts : preAlloc[a].storage = [k \in {} |-> 0]
          /\ ObjInv(objects, dirties) /\ dirties \subseteq DOMAIN preAlloc /\ RevisionInv
    /\ phase # "run" => IdleInv
=============================================================================
