------------------------------ MODULE StateDB ------------------------------
(***************************************************************************)
(* state.StateDB (core/state) with the record-replay additions: the        *)
(* journalled account objects of one block, the accounts and storage keys  *)
(* a transaction touches, and the two allocs Finalise leaves behind.       *)
(*                                                                         *)
(* Data: bal is the balance, code stands for nonce and bytecode (0: nonce  *)
(* 0 and no code).  The trie is read eagerly: objects holds every account. *)
(***************************************************************************)
EXTENDS Integers, Sequences, FiniteSets

CONSTANTS
    Addr, Key,
    MaxVal,      \* storage values are 0 .. MaxVal
    MaxBal,      \* bound: balances are 0 .. MaxBal
    MaxObj,      \* bound: objects created at one address in a transaction
    MaxRev,      \* bound: nested snapshots
    None         \* a nil pointer

Val == 0 .. MaxVal
NoStorage == [k \in Key |-> 0]

(* id tells apart the stateObjects an address has in one transaction.      *)
Object == [id : 0 .. MaxObj, bal : 0 .. MaxBal, code : {0, 1},
           suicided : BOOLEAN, deleted : BOOLEAN,
           storage : [Key -> Val], committed : [Key -> Val]]

(* research.SubstateAccount: the storage has the recorded keys only.       *)
SubstateAccount == [bal : 0 .. MaxBal, code : {0, 1},
                    storage : UNION {[K -> Val] : K \in SUBSET Key}]

ASSUME StateAssumption ==
    /\ MaxVal \in Nat /\ MaxBal \in Nat /\ MaxObj \in Nat /\ MaxRev \in Nat
    /\ None \notin Object /\ None \notin SubstateAccount

VARIABLES
    objects,     \* stateObjects
    touched,     \* ResearchTouched of each object
    dirties,     \* addresses with journal entries
    revisions,   \* what validRevisions and the journal can restore
    preAlloc, postAlloc

sdb == <<objects, touched, dirties, revisions, preAlloc, postAlloc>>

EmptyAlloc == [a \in {} |-> None]
Account(bal, code, storage) == [bal |-> bal, code |-> code, storage |-> storage]
NewSubstateAccount(o) == Account(o.bal, o.code, [k \in {} |-> 0])

Live(a)  == objects[a] # None /\ ~objects[a].deleted
Empty(o) == o.bal = 0 /\ o.code = 0

(* An object loaded from account x of the trie.                            *)
Load(x) == [id |-> 0, bal |-> x.bal, code |-> x.code, suicided |-> FALSE,
            deleted |-> FALSE, storage |-> x.storage, committed |-> x.storage]

(* What the program sees of an account, and of a storage slot.             *)
View(a)    == IF Live(a) THEN Account(objects[a].bal, objects[a].code, objects[a].storage) ELSE None
Seen(a)    == IF Live(a) THEN <<objects[a].bal, objects[a].code, objects[a].suicided>> ELSE <<>>
Slot(a, k) == IF Live(a) THEN <<objects[a].storage[k], objects[a].committed[k]>> ELSE <<>>

-----------------------------------------------------------------------------
(* Mutant: existing accounts are recorded at the last access.              *)
getStateObject_Last(a) ==
    preAlloc' = [x \in DOMAIN preAlloc \cup {a} |->
        IF x # a THEN preAlloc[x]
        ELSE IF Live(a) THEN NewSubstateAccount(objects[a]) ELSE None]

(* getStateObject: the first access in a transaction is recorded.          *)
getStateObject(a) ==
    preAlloc' = [x \in DOMAIN preAlloc \cup {a} |->
        IF x \in DOMAIN preAlloc THEN preAlloc[x]
        ELSE IF Live(a) THEN NewSubstateAccount(objects[a]) ELSE None]

NextId(a) == IF objects[a] = None THEN 1 ELSE objects[a].id + 1

newObject(a) == [id |-> NextId(a), bal |-> 0, code |-> 0, suicided |-> FALSE,
                 deleted |-> FALSE, storage |-> NoStorage, committed |-> NoStorage]

(* createObject, then the changes that make a new object into o.           *)
createObject(a, o) ==
    /\ NextId(a) <= MaxObj
    /\ objects' = [objects EXCEPT ![a] = o]
    /\ touched' = [touched EXCEPT ![a][NextId(a)] = {}]

(* GetOrNewStateObject returns GetOrNew(a), which a setter then changes    *)
(* into o; dirt tells whether the setter appends to the journal.  Creating *)
(* an object in the place of a nil one does too, replacing another doesn't.*)
GetOrNew(a) == IF Live(a) THEN objects[a] ELSE newObject(a)
Update(a, o, dirt) ==
    /\ getStateObject(a)
    /\ IF Live(a)
       THEN objects' = [objects EXCEPT ![a] = o] /\ UNCHANGED touched
       ELSE createObject(a, o)
    /\ dirties' = dirties \cup (IF dirt \/ objects[a] = None THEN {a} ELSE {})
    /\ UNCHANGED <<revisions, postAlloc>>

IsEmpty(a) == ~Live(a) \/ Empty(objects[a])
Balance(a) == IF Live(a) THEN objects[a].bal ELSE 0
Code(a)    == IF Live(a) THEN objects[a].code ELSE 0

-----------------------------------------------------------------------------
(* The operations the EVM performs.                                        *)

(* Exist, Empty, GetBalance, GetNonce, GetCode, GetCodeHash, HasSuicided.  *)
Lookup(a) ==
    /\ getStateObject(a)
    /\ UNCHANGED <<objects, touched, dirties, revisions, postAlloc>>

(* AddBalance: adding 0 only touches an empty account.                     *)
AddBalance(a, n) ==
    /\ Balance(a) + n <= MaxBal
    /\ Update(a, [GetOrNew(a) EXCEPT !.bal = @ + n], n > 0 \/ IsEmpty(a))

(* SubBalance, from the sender of a transfer, which exists.                *)
SubBalance(a, n) ==
    /\ Live(a) /\ Balance(a) >= n
    /\ Update(a, [GetOrNew(a) EXCEPT !.bal = @ - n], n > 0)

(* SetNonce and SetCode, with a non-zero nonce or code.                    *)
SetCode(a) == Update(a, [GetOrNew(a) EXCEPT !.code = 1], TRUE)

(* CreateAccount and SetNonce(1), which evm.create calls in this order     *)
(* once it has found neither nonce nor code at the address.  The balance   *)
(* is carried over.  (The CreateAccount of evm.Call is followed by the     *)
(* AddBalance of the transfer: that is AddBalance above.)                  *)
CreateAccount(a) ==
    /\ Code(a) = 0
    /\ getStateObject(a)
    /\ createObject(a, [newObject(a) EXCEPT !.bal = Balance(a), !.code = 1])
    /\ dirties' = dirties \cup {a}
    /\ UNCHANGED <<revisions, postAlloc>>

(* Mutant: a slot that already has a value in a cache is not marked.       *)
Touch_OnlyZero(a, k) ==
    touched' = [touched EXCEPT ![a][objects[a].id] =
        @ \cup (IF objects[a].storage[k] = 0 THEN {k} ELSE {})]

Touch(a, k) == touched' = [touched EXCEPT ![a][objects[a].id] = @ \cup {k}]

(* SLOAD and SSTORE run in a contract.                                     *)
GetState(a, k) ==
    /\ Code(a) = 1
    /\ getStateObject(a) /\ Touch(a, k)
    /\ UNCHANGED <<objects, dirties, revisions, postAlloc>>

SetState(a, k, v) ==
    /\ Code(a) = 1
    /\ getStateObject(a) /\ Touch(a, k)
    /\ IF objects[a].storage[k] = v
       THEN UNCHANGED <<objects, dirties>>
       ELSE /\ objects' = [objects EXCEPT ![a] = [@ EXCEPT !.storage[k] = v]]
            /\ dirties' = dirties \cup {a}
    /\ UNCHANGED <<revisions, postAlloc>>

Suicide(a) ==
    /\ Code(a) = 1
    /\ getStateObject(a)
    /\ objects' = [objects EXCEPT ![a] = [@ EXCEPT !.suicided = TRUE, !.bal = 0]]
    /\ dirties' = dirties \cup {a}
    /\ UNCHANGED <<touched, revisions, postAlloc>>

Snapshot ==
    /\ Len(revisions) < MaxRev
    /\ revisions' = Append(revisions, [objects |-> objects, dirties |-> dirties])
    /\ UNCHANGED <<objects, touched, dirties, preAlloc, postAlloc>>

(* Mutant: the revert forgets the dirties of the surviving journal.        *)
RevertToSnapshot_Clean(i) ==
    /\ objects' = revisions[i].objects
    /\ dirties' = {}
    /\ revisions' = SubSeq(revisions, 1, i - 1)
    /\ UNCHANGED <<touched, preAlloc, postAlloc>>

(* The journal undoes every change but the Research* records.              *)
RevertToSnapshot(i) ==
    /\ objects' = revisions[i].objects
    /\ dirties' = revisions[i].dirties
    /\ revisions' = SubSeq(revisions, 1, i - 1)
    /\ UNCHANGED <<touched, preAlloc, postAlloc>>

-----------------------------------------------------------------------------
(* The end of a transaction, and the start of the next.                    *)

TouchedStorage(a, st) == [k \in touched[a][objects[a].id] |-> st[k]]
Deletes(a) == a \in dirties /\ (objects[a].suicided \/ Empty(objects[a]))

PreAccounts == {a \in DOMAIN preAlloc : preAlloc[a] # None}
PreRecord(a) ==
    Account(preAlloc[a].bal, preAlloc[a].code, TouchedStorage(a, objects[a].committed))
PostRecord(a) ==
    IF a \in dirties
    THEN Account(objects[a].bal, objects[a].code, TouchedStorage(a, objects[a].storage))
    ELSE PreRecord(a)

(* Finalise(true).                                                         *)
Finalise ==
    /\ preAlloc' = [a \in PreAccounts |-> PreRecord(a)]
    /\ postAlloc' = [a \in {x \in PreAccounts \cup dirties : ~Deletes(x)} |-> PostRecord(a)]
    /\ objects' = [a \in Addr |->
          IF a \notin dirties THEN objects[a]
          ELSE IF Deletes(a) THEN [objects[a] EXCEPT !.deleted = TRUE]
          ELSE [objects[a] EXCEPT !.committed = objects[a].storage]]
    /\ touched' = [a \in Addr |->
          IF a \in dirties /\ ~Deletes(a) THEN [touched[a] EXCEPT ![objects[a].id] = {}]
          ELSE touched[a]]
    /\ dirties' = {} /\ revisions' = <<>>

Untouched == [a \in Addr |-> [i \in 0 .. MaxObj |-> {}]]

(* Prepare; the journal is empty, so the object ids can start again.       *)
Prepare ==
    /\ preAlloc' = EmptyAlloc /\ postAlloc' = EmptyAlloc
    /\ touched' = Untouched
    /\ objects' = [a \in Addr |-> IF objects[a] = None THEN None ELSE [objects[a] EXCEPT !.id = 0]]
    /\ UNCHANGED <<dirties, revisions>>

(* A StateDB that holds the accounts of alloc: state.New on the parent     *)
(* block's trie, or MakeOffTheChainStateDB, after Prepare.                 *)
Open(alloc) ==
    [a \in Addr |->
        IF a \in DOMAIN alloc
        THEN Load([alloc[a] EXCEPT !.storage =
                 [k \in Key |-> IF k \in DOMAIN alloc[a].storage THEN alloc[a].storage[k] ELSE 0]])
        ELSE None]
=============================================================================
