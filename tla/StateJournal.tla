---------------------------- MODULE StateJournal ----------------------------
(***************************************************************************)
(* core/state: how StateDB keeps its promise (WorldState) with objects and *)
(* layered storage caches, a journal of changes that is undone entry by    *)
(* entry, the changes collected for the snapshot tree, and the tries.      *)
(*                                                                         *)
(* The StateDB is the record d.  Tries are their content; code stands for  *)
(* bytecode and its hash.  Objects are loaded when they are used.          *)
(***************************************************************************)
EXTENDS Integers, Sequences, FiniteSets, SequencesExt

CONSTANTS
    Addr, Key, Val, None,
    Settings         \* how StateDB is opened, and the bounds to explore it with

VARIABLES
    setting,         \* one of them, for good
    d,
    answers,         \* of the getters for d, now and if it were reverted
    steps, txs, blocks
vars == <<setting, d, answers, steps, txs, blocks>>

Snap == setting.snap                  \* s.snap is not nil: there is a snapshot to read from
Ops == setting.ops                    \* kinds of operations: "state", "side"
MaxEntries == setting.entries         \* bound: entries of the journal
MaxRevisions == setting.revisions     \* bound: nested snapshots
MaxSteps == setting.steps             \* bound: operations
MaxTx == setting.txs                  \* bound: transactions of a block
MaxBlock == setting.blocks            \* bound: blocks

Nil == -1            \* no entry in a map of storage slots
NoSlots == [k \in Key |-> Nil]
Fresh == [k \in Key |-> 0]
Or0(v) == IF v = Nil THEN 0 ELSE v

-----------------------------------------------------------------------------
(* stateObject                                                             *)
newObject(x) ==
    [bal |-> x.bal, nonce |-> x.nonce, code |-> x.code, suicided |-> FALSE, deleted |-> FALSE, dirtyCode |-> FALSE,
     store |-> x.storage, origin |-> NoSlots, pending |-> NoSlots, dirty |-> NoSlots]
Blank == newObject([bal |-> 0, nonce |-> 0, code |-> 0, storage |-> Fresh])
empty(o) == o.bal = 0 /\ o.nonce = 0 /\ o.code = 0

(* getDeletedStateObject: a live object, or one from snapshot or trie.     *)
Object(s, a) ==
    LET data == IF Snap THEN s.snap[a] ELSE s.trie[a] IN
    IF s.obj[a] # None THEN s.obj[a] ELSE IF data = None THEN None ELSE newObject(data)
Live(s, a) == Object(s, a) # None /\ ~Object(s, a).deleted
Put(s, a, o) == [s EXCEPT !.obj[a] = o]

(* Mutant: the snapshot is asked about destructed accounts too.            *)
Committed_Stale(s, a, k) ==
    LET o == Object(s, a) IN
    IF o.pending[k] # Nil THEN o.pending[k] ELSE IF o.origin[k] # Nil THEN o.origin[k]
    ELSE IF ~Snap THEN o.store[k]
    ELSE IF s.snap[a] = None THEN 0 ELSE s.snap[a].storage[k]

(* GetCommittedState; a destructed account does not look at the snapshot.  *)
Committed(s, a, k) ==
    LET o == Object(s, a) IN
    IF o.pending[k] # Nil THEN o.pending[k] ELSE IF o.origin[k] # Nil THEN o.origin[k]
    ELSE IF ~Snap THEN o.store[k]
    ELSE IF a \in s.destructs \/ s.snap[a] = None THEN 0 ELSE s.snap[a].storage[k]

(* What GetCommittedState leaves in the cache.                             *)
Cached(s, a, k) ==
    LET o == Object(s, a) IN
    IF o.pending[k] # Nil \/ o.origin[k] # Nil \/ (Snap /\ a \in s.destructs) THEN o
    ELSE [o EXCEPT !.origin[k] = Committed(s, a, k)]

GetState(s, a, k) == IF Object(s, a).dirty[k] # Nil THEN Object(s, a).dirty[k] ELSE Committed(s, a, k)
Loaded(s, a, k) == IF Object(s, a).dirty[k] # Nil THEN Object(s, a) ELSE Cached(s, a, k)

-----------------------------------------------------------------------------
(* journal: an entry with the address it makes dirty, if any.              *)
Entry(kind, a, prev, also) == [kind |-> kind, addr |-> a, prev |-> prev, also |-> also]
Dirties(e) == e.kind \in {"create", "suicide", "balance", "nonce", "code", "storage", "touch"}
append(s, e) == [s EXCEPT !.journal = Append(@, e), !.dirties[e.addr] = IF Dirties(e) THEN @ + 1 ELSE @]

(* access list: idx is -1 for no address, 0 for no slots, or a position.   *)
DeleteSlot(al, a, k) ==
    LET i == al.idx[a]
        left == al.slots[i] \ {k}
    IN  IF left = {} THEN [idx |-> [al.idx EXCEPT ![a] = 0], slots |-> SubSeq(al.slots, 1, i - 1)]
        ELSE [al EXCEPT !.slots[i] = left]
AddSlot(al, a, k) ==
    LET i == al.idx[a] IN
    IF i <= 0 THEN [idx |-> [al.idx EXCEPT ![a] = Len(al.slots) + 1], slots |-> Append(al.slots, {k})]
    ELSE [al EXCEPT !.slots[i] = @ \cup {k}]
HasSlot(al, a, k) == al.idx[a] > 0 /\ k \in al.slots[al.idx[a]]

(* The revert method of each kind of entry.                                *)
undo(s, e) ==
    CASE e.kind = "create"  -> [s EXCEPT !.obj[e.addr] = None, !.objDirty = @ \ {e.addr}]
      [] e.kind = "reset"   -> [Put(s, e.addr, e.prev) EXCEPT !.destructs = IF Snap /\ ~e.also THEN @ \ {e.addr} ELSE @]
      [] e.kind = "suicide" -> [s EXCEPT !.obj[e.addr].suicided = e.prev, !.obj[e.addr].bal = e.also]
      [] e.kind = "balance" -> [s EXCEPT !.obj[e.addr].bal = e.prev]
      [] e.kind = "nonce"   -> [s EXCEPT !.obj[e.addr].nonce = e.prev]
      [] e.kind = "code"    -> [s EXCEPT !.obj[e.addr].code = e.prev, !.obj[e.addr].dirtyCode = TRUE]
      [] e.kind = "storage" -> [s EXCEPT !.obj[e.addr].dirty[e.also] = e.prev]
      [] e.kind = "refund"  -> [s EXCEPT !.refund = e.prev]
      [] e.kind = "log"     -> [s EXCEPT !.logs = @ - 1]
      [] e.kind = "warm"    -> [s EXCEPT !.access.idx[e.addr] = -1]
      [] e.kind = "slot"    -> [s EXCEPT !.access = DeleteSlot(@, e.addr, e.also)]
      [] OTHER -> s

revert(s, n) ==
    LET one(t, e) == [undo(t, e) EXCEPT !.dirties[e.addr] = IF Dirties(e) THEN @ - 1 ELSE @]
    IN  [FoldLeft(one, s, Reverse(SubSeq(s.journal, n + 1, Len(s.journal)))) EXCEPT !.journal = SubSeq(@, 1, n)]

-----------------------------------------------------------------------------
createObject(s, a) ==
    LET prev == Object(s, a)
        e == IF prev = None THEN Entry("create", a, 0, 0) ELSE Entry("reset", a, prev, a \in s.destructs)
        t == append(s, e)
    IN  Put([t EXCEPT !.destructs = IF Snap /\ prev # None THEN @ \cup {a} ELSE @], a, Blank)

GetOrNew(s, a) == IF Live(s, a) THEN Put(s, a, Object(s, a)) ELSE createObject(s, a)

SetBalance(s, a, n) == [append(s, Entry("balance", a, s.obj[a].bal, 0)) EXCEPT !.obj[a].bal = n]
AddBalance(s, a, n) ==
    LET t == GetOrNew(s, a) IN
    IF n > 0 THEN SetBalance(t, a, t.obj[a].bal + n)
    ELSE IF empty(t.obj[a]) THEN append(t, Entry("touch", a, 0, 0)) ELSE t
SubBalance(s, a, n) == LET t == GetOrNew(s, a) IN IF n = 0 THEN t ELSE SetBalance(t, a, t.obj[a].bal - n)
SetNonce(s, a, n) ==
    LET t == GetOrNew(s, a) IN [append(t, Entry("nonce", a, t.obj[a].nonce, 0)) EXCEPT !.obj[a].nonce = n]
SetCode(s, a, c) ==
    LET t == GetOrNew(s, a) IN
    [append(t, Entry("code", a, t.obj[a].code, 0)) EXCEPT !.obj[a].code = c, !.obj[a].dirtyCode = TRUE]
SetState(s, a, k, v) ==
    LET t == GetOrNew(s, a)
        r == Put(t, a, Loaded(t, a, k))
    IN  IF GetState(t, a, k) = v THEN r
        ELSE [append(r, Entry("storage", a, GetState(t, a, k), k)) EXCEPT !.obj[a].dirty[k] = v]
Suicide(s, a) ==
    LET t == Put(s, a, Object(s, a)) IN
    [append(t, Entry("suicide", a, t.obj[a].suicided, t.obj[a].bal)) EXCEPT !.obj[a].suicided = TRUE, !.obj[a].bal = 0]
CreateAccount(s, a) ==
    LET old == IF Live(s, a) THEN Object(s, a).bal ELSE 0 IN [createObject(s, a) EXCEPT !.obj[a].bal = old]

(* finalise of an object: dirty slots are pending.                         *)
Finalised(o) ==
    [o EXCEPT !.pending = [k \in Key |-> IF o.dirty[k] # Nil THEN o.dirty[k] ELSE @[k]], !.dirty = NoSlots]

(* Mutant: earlier changes of a destructed account stay collected.         *)
Finalise_KeepsChanges(s) ==
    LET ds   == {a \in Addr : s.dirties[a] > 0 /\ s.obj[a] # None}
        dead == {a \in ds : s.obj[a].suicided \/ empty(s.obj[a])}
    IN  [s EXCEPT !.obj = [a \in Addr |-> IF a \in dead THEN [s.obj[a] EXCEPT !.deleted = TRUE]
                                          ELSE IF a \in ds THEN Finalised(s.obj[a]) ELSE s.obj[a]],
                  !.destructs = IF Snap THEN @ \cup dead ELSE @,
                  !.objPending = @ \cup ds, !.objDirty = @ \cup ds,
                  !.journal = <<>>, !.dirties = [a \in Addr |-> 0], !.refund = 0, !.revisions = <<>>]

(* Finalise, with the clearing of the journal.                             *)
Finalise(s) ==
    LET ds   == {a \in Addr : s.dirties[a] > 0 /\ s.obj[a] # None}
        dead == {a \in ds : s.obj[a].suicided \/ empty(s.obj[a])}
    IN  [s EXCEPT !.obj = [a \in Addr |-> IF a \in dead THEN [s.obj[a] EXCEPT !.deleted = TRUE]
                                          ELSE IF a \in ds THEN Finalised(s.obj[a]) ELSE s.obj[a]],
                  !.destructs = IF Snap THEN @ \cup dead ELSE @,
                  !.accounts = [a \in Addr |-> IF a \in dead THEN None ELSE @[a]],
                  !.storage = [a \in Addr |-> IF a \in dead THEN NoSlots ELSE @[a]],
                  !.objPending = @ \cup ds, !.objDirty = @ \cup ds,
                  !.journal = <<>>, !.dirties = [a \in Addr |-> 0], !.refund = 0, !.revisions = <<>>]

(* updateTrie: pending slots that change something go to the trie.         *)
Changed(o) == {k \in Key : o.pending[k] # Nil /\ o.pending[k] # Or0(o.origin[k])}
updateTrie(o) ==
    LET f == Finalised(o)
        Moved(m) == [k \in Key |-> IF k \in Changed(f) THEN f.pending[k] ELSE m[k]]
    IN  [f EXCEPT !.origin = Moved(@), !.store = Moved(@), !.pending = NoSlots]

Data(o) == [bal |-> o.bal, nonce |-> o.nonce, code |-> o.code, storage |-> o.store]

IntermediateRoot(s) ==
    LET f   == Finalise(s)
        up  == {a \in f.objPending : ~f.obj[a].deleted}
        new == [a \in Addr |-> IF a \in up THEN updateTrie(f.obj[a]) ELSE f.obj[a]]
    IN  [f EXCEPT !.obj = new, !.objPending = {},
                  !.trie = [a \in Addr |-> IF a \in up THEN Data(new[a]) ELSE IF a \in f.objPending THEN None ELSE @[a]],
                  !.accounts = [a \in Addr |-> IF Snap /\ a \in up THEN Data(new[a]) ELSE @[a]],
                  !.storage = [a \in Addr |-> [k \in Key |->
                      IF Snap /\ a \in up /\ k \in Changed(Finalised(f.obj[a])) THEN new[a].store[k] ELSE @[a][k]]]]

(* What the snapshot tree answers for the new layer.                       *)
Layer(s) ==
    [a \in Addr |->
       LET old == IF a \in s.destructs THEN None ELSE s.snap[a]
           acc == IF s.accounts[a] # None THEN s.accounts[a] ELSE old
       IN  IF acc = None THEN None
           ELSE [acc EXCEPT !.storage = [k \in Key |-> IF s.storage[a][k] # Nil THEN s.storage[a][k]
                                                        ELSE IF old = None THEN 0 ELSE old.storage[k]]]]

New(trie, snap, codes, logs) ==
    [obj |-> [a \in Addr |-> None], trie |-> trie, snap |-> snap, codes |-> codes, logs |-> logs, refund |-> 0,
     destructs |-> {}, accounts |-> [a \in Addr |-> None], storage |-> [a \in Addr |-> NoSlots],
     objPending |-> {}, objDirty |-> {}, journal |-> <<>>, dirties |-> [a \in Addr |-> 0], revisions |-> <<>>,
     access |-> [idx |-> [a \in Addr |-> -1], slots |-> <<>>]]

(* Mutant: code is looked for in the objects that are still pending.       *)
Commit_Pending(s) ==
    LET r == IntermediateRoot(s)
        coded == {a \in r.objPending : ~r.obj[a].deleted /\ r.obj[a].code = 1 /\ r.obj[a].dirtyCode}
    IN  New(r.trie, IF Snap /\ r.trie # r.snap THEN Layer(r) ELSE r.snap, r.codes \cup coded, r.logs)

(* Commit: code and tries are written, and the snapshot tree gets a layer  *)
(* if the root has changed.                                                *)
Commit(s) ==
    LET r == IntermediateRoot(s)
        coded == {a \in r.objDirty : ~r.obj[a].deleted /\ r.obj[a].code = 1 /\ r.obj[a].dirtyCode}
    IN  New(r.trie, IF Snap /\ r.trie # r.snap THEN Layer(r) ELSE r.snap, r.codes \cup coded, r.logs)

(* Copy, between transactions.                                             *)
Copy(s) == [s EXCEPT !.obj = [a \in Addr |-> IF a \in s.objPending \cup s.objDirty THEN @[a] ELSE None]]

-----------------------------------------------------------------------------
(* What the getters of StateDB answer.                                     *)
View(s) ==
    [a \in Addr |-> IF ~Live(s, a) THEN None
                    ELSE LET o == Object(s, a) IN
                         [bal |-> o.bal, nonce |-> o.nonce, code |-> o.code, suicided |-> o.suicided,
                          storage |-> [k \in Key |-> GetState(s, a, k)]]]
Origin(s) == [a \in Addr |-> IF Live(s, a) THEN [k \in Key |-> Committed(s, a, k)] ELSE Fresh]
Touched(s) == {a \in Addr : s.dirties[a] > 0}
Warmth(s) ==
    {<<a>> : a \in {b \in Addr : s.access.idx[b] >= 0}}
    \cup {<<x[1], x[2]>> : x \in {y \in Addr \X Key : HasSlot(s.access, y[1], y[2])}}
Answers(s) == <<View(s), Origin(s), Touched(s), s.refund, s.logs, Warmth(s)>>
Everything(s) == [now |-> Answers(s), saved |-> [i \in DOMAIN s.revisions |-> Answers(revert(s, s.revisions[i]))]]

-----------------------------------------------------------------------------
Coded(w) == {a \in Addr : w[a] # None /\ w[a].code = 1}
Stored(x) == IF x = None THEN None ELSE [bal |-> x.bal, nonce |-> x.nonce, code |-> x.code, storage |-> x.storage]
Init ==
    /\ setting \in Settings
    /\ \E w \in setting.worlds : LET t == [a \in Addr |-> Stored(w[a])] IN d = New(t, t, Coded(w), 0)
    /\ answers = Everything(d) /\ steps = 0 /\ txs = 0 /\ blocks = 0

Do(s) ==
    /\ Len(s.journal) <= MaxEntries /\ steps < MaxSteps /\ steps' = steps + 1
    /\ d' = s /\ answers' = Everything(s) /\ UNCHANGED <<setting, txs, blocks>>

(* The operations as the virtual machine combines them: a call with value, *)
(* the start and the end of a creation, SSTORE and SELFDESTRUCT.           *)
Transfer(a, b, n) ==
    LET s == IF Live(d, b) THEN d ELSE CreateAccount(d, b) IN
    /\ "state" \in Ops /\ a # b /\ Live(d, a) /\ Object(d, a).bal >= n /\ (n > 0 \/ Live(d, b))
    /\ Do(AddBalance(SubBalance(s, a, n), b, n))

Create(a) ==
    /\ "state" \in Ops /\ (Live(d, a) => Object(d, a).nonce = 0 /\ Object(d, a).code = 0)
    /\ Do(SetNonce(CreateAccount(d, a), a, 1))

Deploy(a) ==
    /\ "state" \in Ops /\ Live(d, a) /\ Object(d, a).nonce > 0 /\ Object(d, a).code = 0
    /\ Do(SetCode(d, a, 1))

SStore(a, k, v) ==
    /\ "state" \in Ops /\ k \in setting.keys /\ Live(d, a) /\ Object(d, a).nonce > 0
    /\ Do(SetState(d, a, k, v))

Selfdestruct(a, b) ==
    /\ "state" \in Ops /\ Live(d, a) /\ Object(d, a).nonce > 0
    /\ Do(Suicide(AddBalance(d, b, Object(d, a).bal), a))

(* What is kept beside the accounts: refund, logs and access list.         *)
ChangeRefund(n) ==
    /\ "side" \in Ops /\ n \in {d.refund - 1, d.refund + 1} /\ n >= 0
    /\ Do([append(d, Entry("refund", CHOOSE a \in Addr : TRUE, d.refund, 0)) EXCEPT !.refund = n])

AddLog ==
    /\ "side" \in Ops
    /\ Do([append(d, Entry("log", CHOOSE a \in Addr : TRUE, 0, 0)) EXCEPT !.logs = @ + 1])

AddAddressToAccessList(a) ==
    /\ "side" \in Ops /\ d.access.idx[a] = -1
    /\ Do([append(d, Entry("warm", a, 0, 0)) EXCEPT !.access.idx[a] = 0])

AddSlotToAccessList(a, k) ==
    LET s == IF d.access.idx[a] = -1 THEN append(d, Entry("warm", a, 0, 0)) ELSE d IN
    /\ "side" \in Ops /\ ~HasSlot(d.access, a, k)
    /\ Do([append(s, Entry("slot", a, 0, k)) EXCEPT !.access = AddSlot(@, a, k)])

Snapshot ==
    /\ Len(d.revisions) < MaxRevisions
    /\ Do([d EXCEPT !.revisions = Append(@, Len(d.journal))])

RevertToSnapshot(i) ==
    Do([revert(d, d.revisions[i]) EXCEPT !.revisions = SubSeq(@, 1, i - 1)])

(* The end of a transaction, after which Prepare clears the access list.   *)
EndTx(s) ==
    /\ d.journal # <<>> /\ txs < MaxTx /\ txs' = txs + 1
    /\ d' = [s EXCEPT !.access = New({}, {}, {}, 0).access] /\ answers' = Everything(d') /\ UNCHANGED <<setting, steps, blocks>>

CopyState == d.journal = <<>> /\ d.revisions = <<>> /\ txs > 0 /\ Do(Copy(d))

CommitBlock ==
    /\ d.journal = <<>> /\ d.revisions = <<>> /\ txs > 0 /\ txs' = 0 /\ blocks < MaxBlock /\ blocks' = blocks + 1
    /\ d' = Commit(d) /\ answers' = Everything(d') /\ UNCHANGED <<setting, steps>>

Next ==
    \/ \E a, b \in Addr, n \in 0 .. 1 : Transfer(a, b, n)
    \/ \E a \in Addr : Create(a) \/ Deploy(a)
    \/ \E a \in Addr, k \in Key, v \in Val : SStore(a, k, v)
    \/ \E a, b \in Addr : Selfdestruct(a, b)
    \/ (\E n \in 0 .. d.refund + 1 : ChangeRefund(n)) \/ AddLog
    \/ \E a \in Addr : AddAddressToAccessList(a) \/ (\E k \in Key : AddSlotToAccessList(a, k))
    \/ Snapshot \/ (\E i \in DOMAIN d.revisions : RevertToSnapshot(i))
    \/ EndTx(Finalise(d)) \/ EndTx(IntermediateRoot(d)) \/ CopyState \/ CommitBlock

Spec == Init /\ [][Next]_vars

-----------------------------------------------------------------------------
(* StateDB implements WorldState: reverting the journal entry by entry     *)
(* restores everything the getters answer, caches, copies and commits do   *)
(* not change an answer, and the end of a transaction clears exactly what  *)
(* it has to.  A saved copy is what undoing the journal would leave.       *)
World == INSTANCE WorldState WITH
    Initial <- UNION {s.worlds : s \in Settings},
    world <- answers.now[1], origin <- answers.now[2], touched <- answers.now[3], refund <- answers.now[4],
    logs <- answers.now[5], warm <- answers.now[6], saved <- answers.saved
ImplementsWorld == World!WSpec

(* Between blocks the snapshot answers what the trie holds, with the code  *)
(* of every account in the database.                                       *)
NoObjects == \A a \in Addr : d.obj[a] = None
SnapIsTrie == NoObjects /\ Snap => d.snap = d.trie
CodeStored == NoObjects => Coded(d.trie) \subseteq d.codes
=============================================================================
