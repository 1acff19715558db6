--------------------------- MODULE RecorderProofs ---------------------------
(* Proofs about Recorder, for every set of addresses and keys and every    *)
(* bound.                                                                  *)
EXTENDS Recorder, SequenceTheorems, TLAPS

USE StateAssumption, RecorderAssumption

-----------------------------------------------------------------------------
(* Type correctness.                                                       *)

(* A new stateObject is well typed as long as the address has ids left.    *)
LEMMA NewObjectType ==
  ASSUME TypeOK, NEW a \in Addr, NextId(a) <= MaxObj
  PROVE  newObject(a) \in Object /\ NextId(a) \in 1 .. MaxObj
BY DEF TypeOK, newObject, NextId, Object, NoStorage, Val

(* The parts of the state that only some operations change.                *)
LEMMA ObjectsType ==
  ASSUME TypeOK, UNCHANGED tx, UNCHANGED <<revisions, postAlloc>>,
         NEW a \in Addr, getStateObject(a), dirties' \subseteq Addr,
         objects' \in [Addr -> Object \cup {None}],
         touched' \in [Addr -> [0 .. MaxObj -> SUBSET Key]]
  PROVE  TypeOK'
BY DEF TypeOK, tx, getStateObject

(* A setter keeps the types when what it writes is an object.              *)
LEMMA UpdateType ==
  ASSUME TypeOK, UNCHANGED tx, NEW a \in Addr, NEW dirt, NEW o \in Object, Update(a, o, dirt)
  PROVE  TypeOK'
<1>1. objects' = [objects EXCEPT ![a] = o] /\ dirties' \subseteq Addr
  BY DEF Update, createObject, TypeOK
<1>2. touched' \in [Addr -> [0 .. MaxObj -> SUBSET Key]]
  <2>1. CASE Live(a)
    BY <2>1 DEF Update, TypeOK
  <2>2. CASE ~Live(a)
    <3>1. NextId(a) <= MaxObj /\ touched' = [touched EXCEPT ![a][NextId(a)] = {}]
      BY <2>2 DEF Update, createObject
    <3> QED
      BY <3>1, NewObjectType DEF TypeOK
  <2> QED
    BY <2>1, <2>2
<1> QED
  BY <1>1, <1>2, ObjectsType DEF Update, TypeOK

(* What GetOrNewStateObject returns is an object.                          *)
LEMMA GetOrNewType ==
  ASSUME TypeOK, NEW a \in Addr, Live(a) \/ NextId(a) <= MaxObj
  PROVE  GetOrNew(a) \in Object /\ GetOrNew(a).bal = Balance(a) /\ GetOrNew(a).code = Code(a)
<1>1. CASE Live(a)
  BY <1>1 DEF GetOrNew, Live, TypeOK, Balance, Code
<1>2. CASE ~Live(a)
  <2>1. newObject(a) \in Object
    BY <1>2, NewObjectType
  <2> QED
    BY <1>2, <2>1 DEF GetOrNew, newObject, Balance, Code
<1> QED
  BY <1>1, <1>2

(* Every operation of the EVM on the StateDB keeps the types.              *)
LEMMA StateOpType ==
  ASSUME TypeOK, UNCHANGED tx, NEW a \in Addr, StateOp(a)
  PROVE  TypeOK'
<1>1. ASSUME NEW o, NEW dirt, Update(a, o, dirt) PROVE Live(a) \/ NextId(a) <= MaxObj
  BY <1>1 DEF Update, createObject
<1>2. CASE Lookup(a)
  BY <1>2, ObjectsType DEF Lookup, TypeOK
<1>3. ASSUME NEW n \in {0, 1}, AddBalance(a, n) PROVE TypeOK'
  <2>1. Live(a) \/ NextId(a) <= MaxObj
    BY <1>1, <1>3 DEF AddBalance
  <2>2. GetOrNew(a) \in Object /\ GetOrNew(a).bal + n \in 0 .. MaxBal
    BY <1>3, <2>1, GetOrNewType DEF AddBalance, Object
  <2>3. [GetOrNew(a) EXCEPT !.bal = @ + n] \in Object
    BY <2>2 DEF Object
  <2> QED
    BY <1>3, <2>3, UpdateType DEF AddBalance
<1>4. ASSUME NEW n \in {0, 1}, SubBalance(a, n) PROVE TypeOK'
  <2>1. GetOrNew(a) \in Object /\ GetOrNew(a).bal - n \in 0 .. MaxBal
    BY <1>4, GetOrNewType DEF SubBalance, Object
  <2>2. [GetOrNew(a) EXCEPT !.bal = @ - n] \in Object
    BY <2>1 DEF Object
  <2> QED
    BY <1>4, <2>2, UpdateType DEF SubBalance
<1>5. CASE SetCode(a)
  <2>1. [GetOrNew(a) EXCEPT !.code = 1] \in Object
    BY <1>1, <1>5, GetOrNewType DEF SetCode, Object
  <2> QED
    BY <1>5, <2>1, UpdateType DEF SetCode
<1>6. CASE CreateAccount(a)
  <2>1. NextId(a) <= MaxObj /\ NextId(a) \in 0 .. MaxObj /\ newObject(a) \in Object
    BY <1>6, NewObjectType DEF CreateAccount, createObject
  <2>2. Balance(a) \in 0 .. MaxBal
    BY DEF Balance, Live, TypeOK, Object
  <2>3. [newObject(a) EXCEPT !.bal = Balance(a), !.code = 1] \in Object
    BY <2>1, <2>2 DEF Object
  <2>4. objects' \in [Addr -> Object \cup {None}]
    BY <1>6, <2>3 DEF CreateAccount, createObject, TypeOK
  <2>5. touched' \in [Addr -> [0 .. MaxObj -> SUBSET Key]]
    BY <1>6, <2>1 DEF CreateAccount, createObject, TypeOK
  <2> QED
    BY <1>6, <2>4, <2>5, ObjectsType DEF CreateAccount, TypeOK
<1>7. ASSUME NEW k \in Key, Code(a) = 1
      PROVE  /\ objects[a] \in Object /\ Live(a)
             /\ Touch(a, k) => touched' \in [Addr -> [0 .. MaxObj -> SUBSET Key]]
  <2>1. objects[a] \in Object /\ Live(a) /\ objects[a].id \in 0 .. MaxObj
    BY <1>7 DEF Code, Live, TypeOK, Object
  <2>2. ASSUME Touch(a, k) PROVE touched' \in [Addr -> [0 .. MaxObj -> SUBSET Key]]
    BY <1>7, <2>1, <2>2 DEF Touch, TypeOK
  <2> QED
    BY <2>1, <2>2
<1>8. ASSUME NEW k \in Key, GetState(a, k) PROVE TypeOK'
  BY <1>7, <1>8, ObjectsType DEF GetState, TypeOK
<1>9. ASSUME NEW k \in Key, NEW v \in Val, SetState(a, k, v) PROVE TypeOK'
  <2>1. objects' \in [Addr -> Object \cup {None}]
    <3>1. [objects[a] EXCEPT !.storage[k] = v] \in Object
      BY <1>7, <1>9 DEF SetState, Object
    <3> QED
      BY <1>7, <1>9, <3>1 DEF SetState, TypeOK
  <2>2. dirties' \subseteq Addr
    BY <1>9 DEF SetState, TypeOK
  <2> QED
    BY <1>7, <1>9, <2>1, <2>2, ObjectsType DEF SetState
<1>10. CASE Suicide(a)
  <2>1. objects[a] \in Object
    BY <1>10 DEF Suicide, Code, Live, TypeOK
  <2>2. objects' \in [Addr -> Object \cup {None}]
    <3>1. [objects[a] EXCEPT !.suicided = TRUE, !.bal = 0] \in Object
      <4>1. [objects[a] EXCEPT !.suicided = TRUE] \in Object
        BY <2>1 DEF Object
      <4>2. [objects[a] EXCEPT !.suicided = TRUE, !.bal = 0]
              = [[objects[a] EXCEPT !.suicided = TRUE] EXCEPT !.bal = 0]
        OBVIOUS
      <4> DEFINE o == [objects[a] EXCEPT !.suicided = TRUE]
      <4>3. o \in Object
        BY <4>1
      <4> HIDE DEF o
      <4>4. [o EXCEPT !.bal = 0] \in Object
        BY <4>3 DEF Object
      <4> QED
        BY <4>2, <4>4 DEF o
    <3> QED
      BY <1>10, <3>1 DEF Suicide, TypeOK
  <2> QED
    BY <1>10, <2>2, ObjectsType DEF Suicide, TypeOK
<1> QED
  BY <1>2, <1>3, <1>4, <1>5, <1>6, <1>8, <1>9, <1>10 DEF StateOp

(* Prepare, the operations, the journal and Finalise keep the types.       *)
LEMMA TypeStep == TypeOK /\ RecInv /\ [Next]_vars => TypeOK'
<1> SUFFICES ASSUME TypeOK, RecInv, [Next]_vars PROVE TypeOK'
  OBVIOUS
<1> DEFINE Objs == [Addr -> Object \cup {None}]
<1>1. CASE StartTx
  <2>1. objects' \in Objs
    <3>1. ASSUME NEW a \in Addr, objects[a] # None PROVE [objects[a] EXCEPT !.id = 0] \in Object
      <4>1. objects[a] \in Object
        BY <3>1 DEF TypeOK
      <4> QED
        BY <4>1 DEF Object
    <3> QED
      BY <1>1, <3>1 DEF StartTx, Prepare, TypeOK
  <2>2. touched' \in [Addr -> [0 .. MaxObj -> SUBSET Key]] /\ UNCHANGED <<dirties, revisions>>
    BY <1>1 DEF StartTx, Prepare, Untouched
  <2>3. DOMAIN preAlloc' \subseteq Addr /\ DOMAIN postAlloc' \subseteq Addr
    BY <1>1 DEF StartTx, Prepare, EmptyAlloc
  <2>4. phase' \in {"idle", "run", "done"} /\ txs' \in 0 .. MaxTx
    BY <1>1 DEF StartTx, TypeOK
  <2>5. pre' \in [Addr -> AnyAccount \cup {None}]
    <3>1. \A a \in Addr : View(a) \in AnyAccount \cup {None}
      <4>1. ASSUME NEW a \in Addr, Live(a)
            PROVE  Account(objects[a].bal, objects[a].code, objects[a].storage) \in AnyAccount
        <5>1. objects[a] \in Object
          BY <4>1 DEF Live, TypeOK
        <5> QED
          BY <5>1 DEF Account, Object, AnyAccount
      <4> QED
        BY <4>1 DEF View
    <3> QED
      BY <1>1, <3>1 DEF StartTx
  <2> QED
    BY <2>1, <2>2, <2>3, <2>4, <2>5 DEF TypeOK
<1>2. CASE Operate
  <2>1. UNCHANGED tx
    BY <1>2 DEF Operate
  <2>2. ASSUME NEW a \in Addr, StateOp(a) PROVE TypeOK'
    BY <2>1, <2>2, StateOpType
  <2>3. CASE Snapshot
    <3>1. [objects |-> objects, dirties |-> dirties] \in Revision
      BY DEF TypeOK, Revision
    <3>2. revisions' \in Seq(Revision)
      BY <2>3, <3>1 DEF Snapshot, TypeOK
    <3> QED
      BY <2>1, <2>3, <3>2 DEF Snapshot, TypeOK, tx
  <2>4. ASSUME NEW i \in 1 .. Len(revisions), RevertToSnapshot(i) PROVE TypeOK'
    <3>1. revisions[i] \in Revision
      BY <2>4, ElementOfSeq DEF TypeOK
    <3>2. revisions' \in Seq(Revision)
      BY <2>4 DEF RevertToSnapshot, TypeOK
    <3> QED
      BY <2>1, <2>4, <3>1, <3>2 DEF RevertToSnapshot, TypeOK, tx, Revision
  <2> QED
    BY <1>2, <2>2, <2>3, <2>4 DEF Operate
<1>3. CASE EndTx
  <2>1. objects' \in Objs
    <3>1. ASSUME NEW a \in dirties
          PROVE  /\ [objects[a] EXCEPT !.deleted = TRUE] \in Object
                 /\ [objects[a] EXCEPT !.committed = objects[a].storage] \in Object
      <4>1. objects[a] \in Object
        BY <1>3 DEF EndTx, RecInv, ObjInv, TypeOK
      <4> QED
        BY <4>1 DEF Object
    <3> QED
      BY <1>3, <3>1 DEF EndTx, Finalise, TypeOK
  <2>2. touched' \in [Addr -> [0 .. MaxObj -> SUBSET Key]]
    BY <1>3 DEF EndTx, Finalise, TypeOK
  <2>3. DOMAIN preAlloc' \subseteq Addr /\ DOMAIN postAlloc' \subseteq Addr
    BY <1>3 DEF EndTx, Finalise, TypeOK, PreAccounts
  <2> QED
    BY <1>3, <2>1, <2>2, <2>3 DEF EndTx, Finalise, TypeOK
<1>4. CASE UNCHANGED vars
  BY <1>4 DEF vars, sdb, tx, TypeOK
<1> QED
  BY <1>1, <1>2, <1>3, <1>4 DEF Next

-----------------------------------------------------------------------------
(* The inductive invariant.                                                *)

(* The first access to an account finds it as the transaction did.         *)
LEMMA FirstAccess ==
  ASSUME TypeOK, RecInv, phase = "run", UNCHANGED tx, NEW a \in Addr, getStateObject(a)
  PROVE  /\ InputIsPreState'
         /\ \A x \in PreAccounts' : preAlloc'[x].storage = [k \in {} |-> 0]
         /\ DOMAIN preAlloc' = DOMAIN preAlloc \cup {a}
<1>1. DOMAIN preAlloc' = DOMAIN preAlloc \cup {a}
      /\ \A x \in DOMAIN preAlloc : preAlloc'[x] = preAlloc[x]
  BY DEF getStateObject
<1>2. ASSUME a \notin DOMAIN preAlloc
      PROVE  IF pre[a] = None THEN preAlloc'[a] = None
             ELSE preAlloc'[a] = Account(pre[a].bal, pre[a].code, [k \in {} |-> 0])
  <2>1. ObjInv(objects, dirties) /\ a \notin dirties
    BY <1>2 DEF RecInv
  <2>2. preAlloc'[a] = IF Live(a) THEN NewSubstateAccount(objects[a]) ELSE None
    BY <1>2 DEF getStateObject
  <2>3. Live(a) => pre[a] # None /\ objects[a].bal = pre[a].bal /\ objects[a].code = pre[a].code
    BY <2>1 DEF ObjInv, Live
  <2>4. ~Live(a) => pre[a] = None
    BY <2>1 DEF ObjInv, Live
  <2> QED
    BY <2>2, <2>3, <2>4 DEF NewSubstateAccount
<1>3. pre[a] # None => Account(pre[a].bal, pre[a].code, [k \in {} |-> 0]) # None
  <2>1. [k \in {} |-> 0] \in UNION {[K -> Val] : K \in SUBSET Key}
    <3>1. [k \in {} |-> 0] \in [{} -> Val] /\ {} \in SUBSET Key
      OBVIOUS
    <3> QED
      BY <3>1, Zenon
  <2>2. pre[a] # None => Account(pre[a].bal, pre[a].code, [k \in {} |-> 0]) \in SubstateAccount
    <3> DEFINE S == UNION {[K -> Val] : K \in SUBSET Key}
    <3>1. pre[a] # None => pre[a].bal \in 0 .. MaxBal /\ pre[a].code \in {0, 1}
      BY DEF TypeOK, AnyAccount
    <3>2. ASSUME NEW st \in S, pre[a] # None PROVE Account(pre[a].bal, pre[a].code, st) \in SubstateAccount
      <4> HIDE DEF S
      <4> QED
        BY <3>1, <3>2 DEF Account, SubstateAccount, S
    <3> QED
      BY <2>1, <3>2
  <2> QED
    BY <2>2
<1> QED
  BY <1>1, <1>2, <1>3 DEF RecInv, InputIsPreState, PreAccounts, tx, Account

(* A step that puts object o in place at a: the same object with other     *)
(* data, or a new one.                                                     *)
LEMMA WriteStep ==
  ASSUME TypeOK, RecInv, phase = "run", UNCHANGED <<tx, revisions>>,
         NEW a \in Addr, NEW o \in Object, getStateObject(a),
         objects' = [objects EXCEPT ![a] = o],
         dirties' = dirties \cup {a} \/ (dirties' = dirties /\ Live(a) /\ o = objects[a]),
         \A x \in Addr : \A i \in 0 .. MaxObj :
            x # a \/ i <= Id(objects[a]) => touched[x][i] \subseteq touched'[x][i],
         ~o.deleted, o.id >= Id(objects[a]),
         \/ Live(a) /\ o.committed = objects[a].committed
         \/ Code(a) = 0 /\ o.committed = NoStorage,
         o.code = 0 => Code(a) = 0 /\ o.storage = NoStorage,
         \A k \in Key \ touched'[a][o.id] : o.storage[k] = o.committed[k]
  PROVE  RecInv'
<1>1. /\ InputIsPreState'
      /\ \A x \in PreAccounts' : preAlloc'[x].storage = [k \in {} |-> 0]
      /\ DOMAIN preAlloc' = DOMAIN preAlloc \cup {a}
  BY FirstAccess
<1>2. /\ ObjInv(objects, dirties) /\ RevisionInv /\ dirties \subseteq DOMAIN preAlloc
      /\ \A x \in Addr : pre[x] # None => pre[x] \in Accounts
      /\ pre' = pre /\ phase' = "run" /\ revisions' = revisions
  BY DEF RecInv, tx
<1>3. /\ objects'[a] = o
      /\ \A x \in Addr : x # a => objects'[x] = objects[x] /\ (x \in dirties' <=> x \in dirties)
      /\ o # None
  BY DEF TypeOK
<1>4. ObjInv(objects, dirties)'
  <2>1. ASSUME NEW x \in Addr, x # a, objects[x] # None
        PROVE  touched[x][objects[x].id] \subseteq touched'[x][objects[x].id]
    <3>1. objects[x].id \in 0 .. MaxObj
      BY <2>1 DEF TypeOK, Object
    <3> QED
      BY <2>1, <3>1
  <2>2. pre[a] # None =>
          o.committed = pre[a].storage /\ (o.code = 0 => pre[a].code = 0)
    BY <1>2 DEF ObjInv, Code, Live, Accounts
  <2>3. /\ pre[a] = None => a \in dirties' /\ o.committed = NoStorage
        /\ a \notin dirties' => /\ o.bal = pre[a].bal /\ o.code = pre[a].code
                                /\ o.storage = o.committed
    BY <1>2 DEF ObjInv, Code, Live
  <2>4. PICK obs, ds : obs = objects' /\ ds = dirties'
    OBVIOUS
  <2>5. ASSUME NEW x \in Addr, x # a, obs[x] # None, ~obs[x].deleted
        PROVE  \A k \in Key \ touched'[x][obs[x].id] : obs[x].storage[k] = obs[x].committed[k]
    <3>1. objects[x] = obs[x]
      BY <1>3, <2>4, <2>5
    <3>2. touched[x][obs[x].id] \subseteq touched'[x][obs[x].id]
      BY <2>1, <2>5, <3>1
    <3>3. \A k \in Key \ touched[x][obs[x].id] : obs[x].storage[k] = obs[x].committed[k]
      BY <1>2, <2>5, <3>1 DEF ObjInv
    <3> QED
      BY <3>2, <3>3
  <2>6. ASSUME NEW x \in Addr
        PROVE  /\ x \in ds \/ pre[x] # None => obs[x] # None /\ ~obs[x].deleted
               /\ pre[x] # None =>
                     obs[x].committed = pre[x].storage /\ (obs[x].code = 0 => pre[x].code = 0)
               /\ obs[x] # None /\ ~obs[x].deleted =>
                     /\ pre[x] = None => x \in ds /\ obs[x].committed = NoStorage
                     /\ obs[x].code = 0 => obs[x].storage = NoStorage
                     /\ x \notin ds => /\ obs[x].bal = pre[x].bal /\ obs[x].code = pre[x].code
                                       /\ obs[x].storage = obs[x].committed
                     /\ \A k \in Key \ touched'[x][obs[x].id] : obs[x].storage[k] = obs[x].committed[k]
    <3>1. CASE x = a
      <4>1. obs[x] = o
        BY <1>3, <2>4, <3>1
      <4> QED
        BY <1>3, <2>2, <2>3, <2>4, <3>1, <4>1
    <3>2. CASE x # a
      <4>1. obs[x] = objects[x] /\ (x \in ds <=> x \in dirties)
        BY <1>3, <2>4, <3>2
      <4> QED
        BY <1>2, <2>5, <3>2, <4>1 DEF ObjInv
    <3> QED
      BY <3>1, <3>2
  <2>7. pre' = pre
    BY <1>2
  <2>8. ObjInv(obs, ds)'
    BY <2>6, <2>7 DEF ObjInv
  <2> QED
    BY <2>4, <2>8
<1>5. RevisionInv'
  <2>1. Id(objects[a]) <= Id(o) /\ Id(objects[a]) \in Int /\ Id(o) \in Int
    BY <1>3 DEF Id, Object, TypeOK
  <2>2. ASSUME NEW i \in 1 .. Len(revisions)
        PROVE  /\ ObjInv(revisions[i].objects, revisions[i].dirties)'
               /\ revisions[i].dirties \subseteq DOMAIN preAlloc'
               /\ \A x \in Addr : Id(revisions[i].objects[x]) <= Id(objects'[x])
    <3>1. revisions[i] \in Revision
      BY <2>2, ElementOfSeq DEF TypeOK
    <3>2. \A x \in Addr : Id(revisions[i].objects[x]) <= Id(objects[x])
      BY <1>2 DEF RevisionInv
    <3>3. ASSUME NEW x \in Addr, revisions[i].objects[x] # None
          PROVE  touched[x][revisions[i].objects[x].id] \subseteq touched'[x][revisions[i].objects[x].id]
      <4>1. revisions[i].objects[x].id \in 0 .. MaxObj
        BY <3>1, <3>3 DEF Revision, Object
      <4>2. revisions[i].objects[x].id <= Id(objects[x])
        BY <3>2, <3>3 DEF Id
      <4> QED
        BY <4>1, <4>2
    <3>4. ObjInv(revisions[i].objects, revisions[i].dirties)
      BY <1>2 DEF RevisionInv
    <3>5. ObjInv(revisions[i].objects, revisions[i].dirties)'
      <4> DEFINE obs == revisions[i].objects
                 ds == revisions[i].dirties
      <4>1. obs' = obs /\ ds' = ds
        BY <1>2
      <4>2. ASSUME NEW x \in Addr, obs[x] # None, ~obs[x].deleted
            PROVE  \A k \in Key \ touched'[x][obs[x].id] : obs[x].storage[k] = obs[x].committed[k]
        <5>1. touched[x][obs[x].id] \subseteq touched'[x][obs[x].id]
          BY <3>3, <4>2
        <5>2. \A k \in Key \ touched[x][obs[x].id] : obs[x].storage[k] = obs[x].committed[k]
          BY <3>4, <4>2 DEF ObjInv
        <5> QED
          BY <5>1, <5>2
      <4>3. ObjInv(obs, ds)
        BY <3>4
      <4> HIDE DEF obs, ds
      <4>4. ObjInv(obs, ds)'
        <5>1. pre' = pre
          BY <1>2
        <5>2. PICK os, dd : os = obs /\ dd = ds
          OBVIOUS
        <5>3. /\ ObjInv(os, dd)
              /\ \A x \in Addr : os[x] # None /\ ~os[x].deleted =>
                    \A k \in Key \ touched'[x][os[x].id] : os[x].storage[k] = os[x].committed[k]
          BY <4>2, <4>3, <5>2
        <5>4. ObjInv(os, dd)'
          BY <5>1, <5>3 DEF ObjInv
        <5> QED
          BY <4>1, <5>2, <5>4
      <4> QED
        BY <4>4 DEF obs, ds
    <3>6. \A x \in Addr : Id(revisions[i].objects[x]) \in Int
      BY <3>1 DEF Revision, Object, Id
    <3>7. \A x \in Addr : Id(revisions[i].objects[x]) <= Id(objects'[x])
      BY <1>3, <2>1, <3>2, <3>6
    <3> QED
      BY <1>1, <1>2, <3>5, <3>7 DEF RevisionInv
  <2> QED
    BY <1>2, <2>2 DEF RevisionInv
<1> QED
  BY <1>1, <1>2, <1>4, <1>5 DEF RecInv

(* A step that only looks up account a.                                    *)
LEMMA LookupStep ==
  ASSUME TypeOK, RecInv, phase = "run", NEW a \in Addr, Lookup(a), UNCHANGED tx
  PROVE  RecInv'
<1>1. /\ InputIsPreState'
      /\ \A x \in PreAccounts' : preAlloc'[x].storage = [k \in {} |-> 0]
      /\ DOMAIN preAlloc' = DOMAIN preAlloc \cup {a}
  BY FirstAccess DEF Lookup
<1>2. UNCHANGED <<objects, touched, dirties, revisions, pre, phase>>
  BY DEF Lookup, tx
<1>3. ObjInv(objects, dirties)'
  BY <1>2 DEF RecInv, ObjInv
<1>4. RevisionInv'
  <2>1. RevisionInv
    BY DEF RecInv
  <2>2. ASSUME NEW i \in 1 .. Len(revisions)
        PROVE  ObjInv(revisions[i].objects, revisions[i].dirties)'
    <3>1. ObjInv(revisions[i].objects, revisions[i].dirties)
      BY <2>1 DEF RevisionInv
    <3> QED
      BY <1>2, <3>1 DEF ObjInv
  <2> QED
    BY <1>1, <1>2, <2>1, <2>2 DEF RevisionInv
<1> QED
  BY <1>1, <1>2, <1>3, <1>4 DEF RecInv

(* What the strengthening says of a live object.                           *)
LEMMA LiveFacts ==
  ASSUME TypeOK, RecInv, phase = "run", NEW a \in Addr, Live(a)
  PROVE  /\ objects[a] \in Object
         /\ objects[a].code = 0 => objects[a].storage = NoStorage
         /\ \A k \in Key \ touched[a][objects[a].id] : objects[a].storage[k] = objects[a].committed[k]
<1>1. ObjInv(objects, dirties)
  BY DEF RecInv
<1>2. objects[a] # None /\ ~objects[a].deleted
  BY DEF Live
<1>3. objects[a] \in Object
  BY <1>2 DEF TypeOK
<1> QED
  BY <1>1, <1>2, <1>3 DEF ObjInv

(* What TypeOK says of one object, and of the touched sets.                *)
LEMMA ObjectType ==
  ASSUME TypeOK, NEW a \in Addr, objects[a] # None
  PROVE  objects[a] \in Object /\ objects[a].id \in 0 .. MaxObj
<1>1. objects[a] \in Object
  BY DEF TypeOK
<1> QED
  BY <1>1 DEF Object

LEMMA TouchedType ==
  ASSUME TypeOK
  PROVE  touched \in [Addr -> [0 .. MaxObj -> SUBSET Key]]
  BY DEF TypeOK

(* Ids of the objects of an address are numbered from 1; 0 is the trie's.  *)
LEMMA NextIdFact ==
  ASSUME TypeOK, NEW a \in Addr
  PROVE  NextId(a) = Id(objects[a]) + 1 /\ Id(objects[a]) \in 0 .. MaxObj
<1>1. CASE objects[a] = None
  BY <1>1, StateAssumption DEF NextId, Id
<1>2. CASE objects[a] # None
  BY <1>2, ObjectType DEF NextId, Id
<1> QED
  BY <1>1, <1>2

(* A new object starts with nothing touched; older ones keep theirs.       *)
LEMMA NewTouched ==
  ASSUME TypeOK, NEW a \in Addr, NEW id \in Int, NEW n \in 0 .. MaxObj, id = n + 1,
         touched' = [touched EXCEPT ![a][id] = {}]
  PROVE  \A x \in Addr : \A i \in 0 .. MaxObj : x # a \/ i <= n => touched[x][i] \subseteq touched'[x][i]
<1>1. touched \in [Addr -> [0 .. MaxObj -> SUBSET Key]]
  BY TouchedType
<1> QED
  BY <1>1

(* A setter on what GetOrNewStateObject returns.                           *)
LEMMA UpdateStep ==
  ASSUME TypeOK, RecInv, phase = "run", UNCHANGED tx, NEW a \in Addr, NEW dirt, NEW o \in Object,
         Update(a, o, dirt),
         o.id = GetOrNew(a).id, o.deleted = GetOrNew(a).deleted,
         o.storage = GetOrNew(a).storage, o.committed = GetOrNew(a).committed,
         o.code \in {Code(a), 1},
         dirt \/ (Live(a) /\ o = objects[a])
  PROVE  RecInv'
<1>1. objects' = [objects EXCEPT ![a] = o] /\ UNCHANGED revisions /\ getStateObject(a)
  BY DEF Update, createObject
<1>2. dirties' = dirties \cup {a} \/ (dirties' = dirties /\ Live(a) /\ o = objects[a])
  BY DEF Update
<1>3. CASE Live(a)
  <2>1. touched' = touched /\ GetOrNew(a) = objects[a] /\ objects[a] \in Object
    BY <1>3 DEF Update, GetOrNew, TypeOK, Live
  <2>2. ~o.deleted /\ o.id >= Id(objects[a]) /\ o.committed = objects[a].committed
    BY <1>3, <2>1 DEF Live, Id, Object
  <2>3. o.code = 0 => Code(a) = 0 /\ o.storage = NoStorage
    <3>1. objects[a].code = 0 => objects[a].storage = NoStorage
      BY <1>3, LiveFacts
    <3>2. Code(a) = objects[a].code
      BY <1>3 DEF Code
    <3> QED
      BY <2>1, <3>1, <3>2
  <2>4. \A k \in Key \ touched'[a][o.id] : o.storage[k] = o.committed[k]
    <3>1. \A k \in Key \ touched[a][objects[a].id] : objects[a].storage[k] = objects[a].committed[k]
      BY <1>3, LiveFacts
    <3> QED
      BY <2>1, <3>1
  <2> QED
    BY <1>1, <1>2, <1>3, <2>1, <2>2, <2>3, <2>4, WriteStep
<1>4. CASE ~Live(a)
  <2>1. /\ NextId(a) <= MaxObj /\ GetOrNew(a) = newObject(a) /\ Code(a) = 0
        /\ touched' = [touched EXCEPT ![a][NextId(a)] = {}]
    BY <1>4 DEF Update, createObject, GetOrNew, Code
  <2>2. /\ o.id = NextId(a) /\ ~o.deleted /\ o.storage = NoStorage /\ o.committed = NoStorage
        /\ NextId(a) = Id(objects[a]) + 1 /\ Id(objects[a]) \in 0 .. MaxObj
    <3>1. NextId(a) = Id(objects[a]) + 1 /\ Id(objects[a]) \in 0 .. MaxObj
      BY NextIdFact
    <3>2. newObject(a).id = NextId(a) /\ newObject(a).deleted = FALSE
          /\ newObject(a).storage = NoStorage /\ newObject(a).committed = NoStorage
      BY DEF newObject
    <3> QED
      BY <2>1, <3>1, <3>2
  <2>3. \A x \in Addr : \A i \in 0 .. MaxObj :
            x # a \/ i <= Id(objects[a]) => touched[x][i] \subseteq touched'[x][i]
    BY <2>1, <2>2, NewTouched
  <2>4. /\ o.id >= Id(objects[a]) /\ Code(a) = 0
        /\ o.code = 0 => o.storage = NoStorage
        /\ \A k \in Key \ touched'[a][o.id] : o.storage[k] = o.committed[k]
    BY <2>1, <2>2
  <2> QED
    BY <1>1, <1>2, <2>2, <2>3, <2>4, WriteStep
<1> QED
  BY <1>3, <1>4

(* SLOAD and SSTORE mark the slot before they use it.                      *)
LEMMA TouchGrows ==
  ASSUME TypeOK, NEW a \in Addr, NEW k \in Key, Live(a), Touch(a, k)
  PROVE  /\ \A x \in Addr : \A i \in 0 .. MaxObj : touched[x][i] \subseteq touched'[x][i]
         /\ k \in touched'[a][objects[a].id]
<1>1. objects[a].id \in 0 .. MaxObj
  BY ObjectType DEF Live
<1>2. touched \in [Addr -> [0 .. MaxObj -> SUBSET Key]]
  BY TouchedType
<1> QED
  BY <1>1, <1>2 DEF Touch

(* A step of a contract that changes the data of its object, to o.         *)
LEMMA ContractStep ==
  ASSUME TypeOK, RecInv, phase = "run", UNCHANGED tx, UNCHANGED revisions,
         NEW a \in Addr, NEW o \in Object, getStateObject(a), Code(a) = 1,
         objects' = [objects EXCEPT ![a] = o],
         dirties' = dirties \cup {a} \/ (dirties' = dirties /\ o = objects[a]),
         \A x \in Addr : \A i \in 0 .. MaxObj : touched[x][i] \subseteq touched'[x][i],
         o.id = objects[a].id, o.deleted = objects[a].deleted, o.code = objects[a].code,
         o.committed = objects[a].committed,
         \A k \in Key \ touched'[a][o.id] : o.storage[k] = o.committed[k]
  PROVE  RecInv'
<1>1. Live(a) /\ ~o.deleted /\ o.code = 1 /\ objects[a] \in Object
  BY DEF Code, Live, TypeOK
<1>2. o.id >= Id(objects[a])
  BY <1>1 DEF Id, Object, Live
<1>3. UNCHANGED <<tx, revisions>>
  OBVIOUS
<1>4. \A x \in Addr : \A i \in 0 .. MaxObj :
          x # a \/ i <= Id(objects[a]) => touched[x][i] \subseteq touched'[x][i]
  OBVIOUS
<1>5. dirties' = dirties \cup {a} \/ (dirties' = dirties /\ Live(a) /\ o = objects[a])
  BY <1>1
<1>6. o.code = 0 => Code(a) = 0 /\ o.storage = NoStorage
  BY <1>1
<1> QED
  BY <1>1, <1>2, <1>3, <1>4, <1>5, <1>6, WriteStep

(* Every operation of the EVM on the StateDB preserves the strengthening.  *)
LEMMA StateOpStep ==
  ASSUME TypeOK, RecInv, phase = "run", UNCHANGED tx, NEW a \in Addr, StateOp(a)
  PROVE  RecInv'
<1>1. ASSUME NEW o, NEW dirt, Update(a, o, dirt) PROVE Live(a) \/ NextId(a) <= MaxObj
  BY <1>1 DEF Update, createObject
<1>2. CASE Lookup(a)
  BY <1>2, LookupStep
<1>3. ASSUME NEW n \in {0, 1}, AddBalance(a, n) PROVE RecInv'
  <2> DEFINE g == GetOrNew(a)
             o == [g EXCEPT !.bal = @ + n]
             dirt == n > 0 \/ IsEmpty(a)
  <2>1. g \in Object /\ g.bal = Balance(a) /\ g.code = Code(a)
    BY <1>1, <1>3, GetOrNewType DEF AddBalance
  <2>2. o \in Object /\ o.id = g.id /\ o.deleted = g.deleted /\ o.storage = g.storage
        /\ o.committed = g.committed /\ o.code = g.code
    BY <1>3, <2>1 DEF AddBalance, Object
  <2>3. dirt \/ (Live(a) /\ o = objects[a])
    <3>1. ~dirt => Live(a) /\ n = 0 /\ g = objects[a]
      BY DEF IsEmpty, GetOrNew
    <3>2. n = 0 => o = g
      BY <2>1 DEF Object
    <3> QED
      BY <3>1, <3>2
  <2> QED
    BY <1>3, <2>1, <2>2, <2>3, UpdateStep DEF AddBalance
<1>4. ASSUME NEW n \in {0, 1}, SubBalance(a, n) PROVE RecInv'
  <2> DEFINE g == GetOrNew(a)
             o == [g EXCEPT !.bal = @ - n]
  <2>1. g \in Object /\ g.bal = Balance(a) /\ g.code = Code(a) /\ Live(a) /\ g = objects[a]
    BY <1>4, GetOrNewType DEF SubBalance, GetOrNew
  <2>2. o \in Object /\ o.id = g.id /\ o.deleted = g.deleted /\ o.storage = g.storage
        /\ o.committed = g.committed /\ o.code = g.code
    BY <1>4, <2>1 DEF SubBalance, Object
  <2>3. n > 0 \/ (Live(a) /\ o = objects[a])
    BY <2>1 DEF Object
  <2> QED
    BY <1>4, <2>1, <2>2, <2>3, UpdateStep DEF SubBalance
<1>5. CASE SetCode(a)
  <2> DEFINE g == GetOrNew(a)
             o == [g EXCEPT !.code = 1]
  <2>1. g \in Object
    BY <1>1, <1>5, GetOrNewType DEF SetCode
  <2>2. o \in Object /\ o.id = g.id /\ o.deleted = g.deleted /\ o.storage = g.storage
        /\ o.committed = g.committed /\ o.code = 1
    BY <2>1 DEF Object
  <2> QED
    BY <1>5, <2>1, <2>2, UpdateStep DEF SetCode
<1>6. CASE CreateAccount(a)
  <2> DEFINE o == [newObject(a) EXCEPT !.bal = Balance(a), !.code = 1]
  <2>1. /\ NextId(a) <= MaxObj /\ newObject(a) \in Object /\ Code(a) = 0
        /\ objects' = [objects EXCEPT ![a] = o] /\ dirties' = dirties \cup {a}
        /\ touched' = [touched EXCEPT ![a][NextId(a)] = {}]
        /\ UNCHANGED revisions /\ getStateObject(a)
    BY <1>6, NewObjectType DEF CreateAccount, createObject
  <2>2. Balance(a) \in 0 .. MaxBal
    BY DEF Balance, Live, TypeOK, Object
  <2>3. /\ o.id = NextId(a) /\ o.code = 1 /\ o.deleted = FALSE
        /\ o.storage = NoStorage /\ o.committed = NoStorage
    BY DEF newObject
  <2>4. o \in Object
    BY <2>1, <2>2 DEF Object
  <2>5. NextId(a) = Id(objects[a]) + 1 /\ Id(objects[a]) \in 0 .. MaxObj
    BY NextIdFact
  <2>6. \A x \in Addr : \A i \in 0 .. MaxObj :
            x # a \/ i <= Id(objects[a]) => touched[x][i] \subseteq touched'[x][i]
    BY <2>1, <2>5, NewTouched
  <2> HIDE DEF o
  <2>7. ~o.deleted /\ o.id >= Id(objects[a])
        /\ \A k \in Key \ touched'[a][o.id] : o.storage[k] = o.committed[k]
    BY <2>3, <2>5
  <2> QED
    BY <2>1, <2>3, <2>4, <2>6, <2>7, WriteStep
<1>7. ASSUME NEW k \in Key, GetState(a, k) PROVE RecInv'
  <2>1. Live(a) /\ objects[a] \in Object /\ ~objects[a].deleted
    BY <1>7 DEF GetState, Code, Live, TypeOK
  <2>2. /\ \A x \in Addr : \A i \in 0 .. MaxObj : touched[x][i] \subseteq touched'[x][i]
        /\ objects' = [objects EXCEPT ![a] = objects[a]]
        /\ UNCHANGED <<dirties, revisions>> /\ getStateObject(a) /\ Code(a) = 1
    BY <1>7, <2>1, TouchGrows DEF GetState, TypeOK
  <2>3. objects[a].id >= Id(objects[a]) /\ objects[a].code = 1 /\ objects[a].id \in 0 .. MaxObj
    BY <2>1, <2>2 DEF Id, Object, Code
  <2>4. \A j \in Key \ touched'[a][objects[a].id] : objects[a].storage[j] = objects[a].committed[j]
    BY <2>1, <2>2, <2>3 DEF RecInv, ObjInv
  <2> QED
    BY <2>1, <2>2, <2>3, <2>4, ContractStep
<1>8. ASSUME NEW k \in Key, NEW v \in Val, SetState(a, k, v) PROVE RecInv'
  <2>1. Live(a) /\ objects[a] \in Object /\ ~objects[a].deleted /\ objects[a].code = 1
    BY <1>8 DEF SetState, Code, Live, TypeOK
  <2>2. /\ \A x \in Addr : \A i \in 0 .. MaxObj : touched[x][i] \subseteq touched'[x][i]
        /\ k \in touched'[a][objects[a].id]
        /\ UNCHANGED revisions /\ getStateObject(a) /\ Code(a) = 1
    BY <1>8, <2>1, TouchGrows DEF SetState
  <2>3. objects[a].id >= Id(objects[a]) /\ objects[a].id \in 0 .. MaxObj
    BY <2>1 DEF Id, Object
  <2>4. \A j \in Key \ touched'[a][objects[a].id] : objects[a].storage[j] = objects[a].committed[j]
    <3>1. Live(a)
      BY <2>2 DEF Code
    <3>2. \A j \in Key \ touched[a][objects[a].id] : objects[a].storage[j] = objects[a].committed[j]
      BY <3>1, LiveFacts
    <3>3. touched[a][objects[a].id] \subseteq touched'[a][objects[a].id]
      BY <2>2, <2>3
    <3> QED
      BY <3>2, <3>3
  <2>5. CASE objects[a].storage[k] = v
    <3>1. objects' = [objects EXCEPT ![a] = objects[a]] /\ dirties' = dirties
      BY <1>8, <2>5 DEF SetState, TypeOK
    <3> QED
      BY <2>1, <2>2, <2>3, <2>4, <3>1, ContractStep
  <2>6. CASE objects[a].storage[k] # v
    <3> DEFINE o == [objects[a] EXCEPT !.storage[k] = v]
    <3>1. objects' = [objects EXCEPT ![a] = o] /\ dirties' = dirties \cup {a}
      BY <1>8, <2>6 DEF SetState
    <3>2. /\ o \in Object /\ o.id = objects[a].id /\ o.deleted = objects[a].deleted
          /\ o.code = objects[a].code /\ o.committed = objects[a].committed
          /\ \A j \in Key \ {k} : o.storage[j] = objects[a].storage[j]
      BY <2>1 DEF Object
    <3> HIDE DEF o
    <3>3. \A j \in Key \ touched'[a][o.id] : o.storage[j] = o.committed[j]
      BY <2>2, <2>4, <3>2
    <3> QED
      BY <2>1, <2>2, <2>3, <3>1, <3>2, <3>3, ContractStep
  <2> QED
    BY <2>5, <2>6
<1>9. CASE Suicide(a)
  <2> DEFINE o == [objects[a] EXCEPT !.suicided = TRUE, !.bal = 0]
  <2>1. Live(a) /\ objects[a] \in Object /\ ~objects[a].deleted /\ objects[a].code = 1
    BY <1>9 DEF Suicide, Code, Live, TypeOK
  <2>2. /\ objects' = [objects EXCEPT ![a] = o] /\ dirties' = dirties \cup {a}
        /\ UNCHANGED <<touched, revisions>> /\ getStateObject(a) /\ Code(a) = 1
    BY <1>9 DEF Suicide
  <2>3. /\ o.id = objects[a].id /\ o.deleted = objects[a].deleted
        /\ o.storage = objects[a].storage
        /\ o.code = objects[a].code /\ o.committed = objects[a].committed
    BY <2>1 DEF Object
  <2>4. o \in Object
    <3> DEFINE q == [objects[a] EXCEPT !.suicided = TRUE]
    <3>1. q \in Object
      BY <2>1 DEF Object
    <3>2. o = [q EXCEPT !.bal = 0]
      OBVIOUS
    <3> HIDE DEF q
    <3>3. [q EXCEPT !.bal = 0] \in Object
      BY <3>1 DEF Object
    <3> QED
      BY <3>2, <3>3
  <2> HIDE DEF o
  <2>5. \A k \in Key \ touched'[a][o.id] : o.storage[k] = o.committed[k]
    <3>1. \A k \in Key \ touched[a][objects[a].id] : objects[a].storage[k] = objects[a].committed[k]
      BY <2>1, LiveFacts
    <3> QED
      BY <2>2, <2>3, <3>1
  <2> QED
    BY <2>1, <2>2, <2>3, <2>4, <2>5, ContractStep
<1> QED
  BY <1>2, <1>3, <1>4, <1>5, <1>6, <1>7, <1>8, <1>9 DEF StateOp

(* A snapshot saves a state of which the strengthening already holds.      *)
LEMMA SnapshotStep ==
  ASSUME TypeOK, RecInv, phase = "run", UNCHANGED tx, Snapshot
  PROVE  RecInv'
<1> DEFINE r == [objects |-> objects, dirties |-> dirties]
<1>1. /\ UNCHANGED <<objects, touched, dirties, preAlloc, pre, phase>>
      /\ revisions' = Append(revisions, r)
  BY DEF Snapshot, tx
<1>2. /\ ObjInv(objects, dirties) /\ RevisionInv /\ dirties \subseteq DOMAIN preAlloc
      /\ InputIsPreState
  BY DEF RecInv
<1>3. InputIsPreState' /\ PreAccounts' = PreAccounts
  BY <1>1, <1>2 DEF InputIsPreState, PreAccounts
<1>5. /\ Len(revisions') = Len(revisions) + 1 /\ Len(revisions) \in Nat
      /\ \A i \in 1 .. Len(revisions) : revisions'[i] = revisions[i]
      /\ revisions'[Len(revisions) + 1] = r
  BY <1>1 DEF TypeOK
<1>6. r.objects = objects /\ r.dirties = dirties
  OBVIOUS
<1>7. \A a \in Addr : Id(objects[a]) \in Int
  BY DEF Id, Object, TypeOK
<1>8. ASSUME NEW i \in 1 .. Len(revisions')
      PROVE  /\ ObjInv(revisions'[i].objects, revisions'[i].dirties)
             /\ revisions'[i].dirties \subseteq DOMAIN preAlloc'
             /\ \A a \in Addr : Id(revisions'[i].objects[a]) <= Id(objects[a])
  <2>1. CASE i = Len(revisions) + 1
    <3>1. revisions'[i].objects = objects /\ revisions'[i].dirties = dirties
      BY <1>5, <1>6, <2>1
    <3>2. \A a \in Addr : Id(objects[a]) <= Id(objects[a])
      BY <1>7
    <3>3. dirties \subseteq DOMAIN preAlloc'
      BY <1>1, <1>2
    <3> QED
      BY <1>2, <3>1, <3>2, <3>3
  <2>2. CASE i \in 1 .. Len(revisions)
    <3>1. revisions'[i] = revisions[i]
      BY <1>5, <2>2
    <3> QED
      BY <1>1, <1>2, <2>2, <3>1 DEF RevisionInv
  <2>3. i = Len(revisions) + 1 \/ i \in 1 .. Len(revisions)
    BY <1>5
  <2> QED
    BY <2>1, <2>2, <2>3, Zenon
<1>9. ASSUME NEW i \in 1 .. Len(revisions'), NEW j \in 1 .. Len(revisions'), i <= j, NEW a \in Addr
      PROVE  Id(revisions'[i].objects[a]) <= Id(revisions'[j].objects[a])
  <2>1. CASE j = Len(revisions) + 1
    BY <1>5, <1>6, <1>8, <2>1
  <2>2. CASE j \in 1 .. Len(revisions)
    <3>1. i \in 1 .. Len(revisions)
      BY <1>5, <1>9, <2>2
    <3> QED
      BY <1>2, <1>5, <1>9, <2>2, <3>1 DEF RevisionInv
  <2> QED
    BY <1>5, <2>1, <2>2
<1>10. RevisionInv'
  <2>1. ASSUME NEW i \in 1 .. Len(revisions')
        PROVE  ObjInv(revisions[i].objects, revisions[i].dirties)'
    <3> DEFINE obs == revisions'[i].objects
               ds == revisions'[i].dirties
    <3>1. ObjInv(obs, ds)
      BY <1>8, <2>1
    <3> HIDE DEF obs, ds
    <3> QED
      BY <1>1, <3>1 DEF ObjInv, obs, ds
  <2> QED
    BY <1>1, <1>8, <1>9, <2>1 DEF RevisionInv
<1>11. ObjInv(objects, dirties)'
  BY <1>1, <1>2 DEF ObjInv
<1> QED
  BY <1>1, <1>2, <1>3, <1>10, <1>11 DEF RecInv

(* A revert goes back to one of the saved states, and forgets later ones.  *)
LEMMA RevertStep ==
  ASSUME TypeOK, RecInv, phase = "run", UNCHANGED tx,
         NEW n \in 1 .. Len(revisions), RevertToSnapshot(n)
  PROVE  RecInv'
<1>1. /\ UNCHANGED <<touched, preAlloc, pre, phase>>
      /\ objects' = revisions[n].objects /\ dirties' = revisions[n].dirties
      /\ revisions' = SubSeq(revisions, 1, n - 1)
  BY DEF RevertToSnapshot, tx
<1>2. RevisionInv /\ InputIsPreState
  BY DEF RecInv
<1>3. InputIsPreState' /\ PreAccounts' = PreAccounts
  BY <1>1, <1>2 DEF InputIsPreState, PreAccounts
<1>4. /\ Len(revisions') = n - 1 /\ Len(revisions) \in Nat
      /\ \A i \in 1 .. n - 1 : i \in 1 .. Len(revisions) /\ revisions'[i] = revisions[i]
  <2>1. revisions \in Seq(Revision)
    BY DEF TypeOK
  <2>2. Len(revisions) \in Nat /\ n \in 1 .. Len(revisions)
    BY <2>1
  <2> QED
    BY Z3T(30), <1>1, <2>1, <2>2
<1>5. ObjInv(objects, dirties)'
  <2>1. ObjInv(revisions[n].objects, revisions[n].dirties)
    BY <1>2 DEF RevisionInv
  <2> QED
    BY <1>1, <2>1 DEF ObjInv
<1>6. dirties' \subseteq DOMAIN preAlloc'
  BY <1>1, <1>2 DEF RevisionInv
<1>7. ASSUME NEW i \in 1 .. n - 1
      PROVE  /\ ObjInv(revisions[i].objects, revisions[i].dirties)'
             /\ revisions'[i].dirties \subseteq DOMAIN preAlloc'
             /\ \A a \in Addr : Id(revisions'[i].objects[a]) <= Id(objects'[a])
  <2>1. i \in 1 .. Len(revisions) /\ revisions'[i] = revisions[i] /\ i <= n
    BY <1>4
  <2>2. ObjInv(revisions[i].objects, revisions[i].dirties)
    BY <1>2, <2>1 DEF RevisionInv
  <2>3. ObjInv(revisions[i].objects, revisions[i].dirties)'
    <3>1. PICK obs, ds : obs = revisions[i].objects /\ ds = revisions[i].dirties
      OBVIOUS
    <3>2. pre' = pre /\ touched' = touched
      BY <1>1
    <3>3. ObjInv(obs, ds)
      BY <2>2, <3>1
    <3>4. ObjInv(obs, ds)'
      BY <3>2, <3>3 DEF ObjInv
    <3>5. revisions'[i].objects = obs /\ revisions'[i].dirties = ds
      BY <2>1, <3>1
    <3> QED
      BY <3>4, <3>5 DEF ObjInv
  <2>4. revisions[i].dirties \subseteq DOMAIN preAlloc
    BY <1>2, <2>1 DEF RevisionInv
  <2>5. \A a \in Addr : Id(revisions[i].objects[a]) <= Id(revisions[n].objects[a])
    BY <1>2, <2>1 DEF RevisionInv
  <2> QED
    BY <1>1, <2>1, <2>3, <2>4, <2>5
<1>8. RevisionInv'
  <2>1. ASSUME NEW i \in 1 .. n - 1, NEW j \in 1 .. n - 1, i <= j, NEW a \in Addr
        PROVE  Id(revisions'[i].objects[a]) <= Id(revisions'[j].objects[a])
    <3>1. /\ i \in 1 .. Len(revisions) /\ j \in 1 .. Len(revisions)
          /\ revisions'[i] = revisions[i] /\ revisions'[j] = revisions[j]
      BY <1>4
    <3> QED
      BY <1>2, <2>1, <3>1 DEF RevisionInv
  <2> QED
    BY <1>4, <1>7, <2>1 DEF RevisionInv
<1> QED
  BY <1>1, <1>3, <1>5, <1>6, <1>8 DEF RecInv

(* An account in memory is not nil.                                        *)
LEMMA AnyAccountExists == \A x \in AnyAccount : x # None
<1> DEFINE S == UNION {[K -> Val] : K \in SUBSET Key}
<1>1. ASSUME NEW st \in [Key -> Val] PROVE st \in S
  BY <1>1, Zenon
<1>2. ASSUME NEW x \in AnyAccount PROVE x \in SubstateAccount
  <2>1. x.storage \in S /\ x = [bal |-> x.bal, code |-> x.code, storage |-> x.storage]
        /\ x.bal \in 0 .. MaxBal /\ x.code \in {0, 1}
    BY <1>1 DEF AnyAccount
  <2> HIDE DEF S
  <2>2. x \in [bal : 0 .. MaxBal, code : {0, 1}, storage : S]
    BY <2>1
  <2> QED
    BY <2>2 DEF SubstateAccount, S
<1> QED
  BY <1>2

(* Prepare starts from a settled state, which becomes the pre-state.       *)
LEMMA StartTxStep ==
  ASSUME TypeOK, RecInv, StartTx
  PROVE  RecInv'
<1>1. /\ IdleInv /\ phase' = "run" /\ pre' = [a \in Addr |-> View(a)]
      /\ preAlloc' = EmptyAlloc /\ touched' = Untouched /\ UNCHANGED <<dirties, revisions>>
      /\ objects' = [a \in Addr |-> IF objects[a] = None THEN None ELSE [objects[a] EXCEPT !.id = 0]]
  BY DEF StartTx, Prepare, RecInv
<1>2. InputIsPreState' /\ PreAccounts' = {}
  BY <1>1 DEF InputIsPreState, PreAccounts, EmptyAlloc
<1>3. ASSUME NEW a \in Addr, Live(a)
      PROVE  /\ objects[a] \in Object
             /\ pre'[a] = Account(objects[a].bal, objects[a].code, objects[a].storage)
             /\ pre'[a] \in Accounts /\ pre'[a] # None
  <2>1. objects[a] \in Object
    BY <1>3 DEF Live, TypeOK
  <2>2. pre'[a] = Account(objects[a].bal, objects[a].code, objects[a].storage)
    BY <1>1, <1>3 DEF View
  <2>3. pre'[a] \in AnyAccount
    BY <2>1, <2>2 DEF Account, Object, AnyAccount
  <2>4. pre'[a] \in Accounts
    BY <1>1, <1>3, <2>2, <2>3 DEF IdleInv, Accounts, Account
  <2> QED
    BY <2>1, <2>2, <2>3, <2>4, AnyAccountExists
<1>4. \A a \in Addr : ~Live(a) => pre'[a] = None
  BY <1>1 DEF View
<1>5. \A a \in Addr : pre'[a] # None => pre'[a] \in Accounts
  BY <1>3, <1>4
<1>6. ObjInv(objects, dirties)'
  <2> DEFINE obs == objects'
  <2>1. ASSUME NEW a \in Addr, ~Live(a)
        PROVE  obs[a] = None \/ obs[a].deleted
    BY <1>1, <2>1 DEF Live, TypeOK, Object
  <2>2. ASSUME NEW a \in Addr, Live(a)
        PROVE  /\ obs[a] # None /\ ~obs[a].deleted
               /\ obs[a].bal = pre'[a].bal /\ obs[a].code = pre'[a].code
               /\ obs[a].storage = pre'[a].storage /\ obs[a].committed = pre'[a].storage
               /\ obs[a].code = 0 => obs[a].storage = NoStorage
    <3>1. objects[a] \in Object /\ objects[a] # None /\ ~objects[a].deleted
      BY <1>3, <2>2 DEF Live
    <3>2. obs[a] = [objects[a] EXCEPT !.id = 0] /\ obs[a] \in Object
      BY <1>1, <3>1 DEF Object
    <3>3. /\ obs[a].bal = objects[a].bal /\ obs[a].code = objects[a].code
          /\ obs[a].storage = objects[a].storage /\ obs[a].committed = objects[a].committed
          /\ obs[a].deleted = objects[a].deleted
      BY <3>1, <3>2 DEF Object
    <3>4. objects[a].storage = objects[a].committed
          /\ (objects[a].code = 0 => objects[a].storage = NoStorage)
      BY <1>1, <2>2 DEF IdleInv
    <3>5. /\ pre'[a].bal = objects[a].bal /\ pre'[a].code = objects[a].code
          /\ pre'[a].storage = objects[a].storage
      <4>1. pre'[a] = Account(objects[a].bal, objects[a].code, objects[a].storage)
        BY <1>3, <2>2
      <4> QED
        BY <4>1 DEF Account
    <3>6. obs[a] # None
      BY <3>2, StateAssumption
    <3> HIDE DEF obs
    <3> QED
      BY <3>1, <3>3, <3>4, <3>5, <3>6
  <2>3. dirties' = {}
    BY <1>1 DEF IdleInv
  <2> QED
    BY <1>3, <1>4, <2>1, <2>2, <2>3 DEF ObjInv
<1>7. dirties' = {} /\ RevisionInv'
  BY <1>1 DEF IdleInv, RevisionInv
<1> QED
  BY <1>1, <1>2, <1>5, <1>6, <1>7 DEF RecInv

(* What Finalise leaves of a recorded account.                             *)
LEMMA PreRecordStep ==
  ASSUME TypeOK, RecInv, phase = "run", NEW a \in PreAccounts
  PROVE  /\ a \in Addr /\ pre[a] # None /\ Live(a) /\ PreRecord(a) # None
         /\ PreRecord(a).bal = pre[a].bal /\ PreRecord(a).code = pre[a].code
         /\ DOMAIN PreRecord(a).storage \subseteq Key
         /\ \A k \in DOMAIN PreRecord(a).storage : PreRecord(a).storage[k] = pre[a].storage[k]
<1>1. /\ a \in Addr /\ pre[a] # None
      /\ preAlloc[a].bal = pre[a].bal /\ preAlloc[a].code = pre[a].code
  <2>1. InputIsPreState
    BY DEF RecInv
  <2>2. a \in DOMAIN preAlloc /\ preAlloc[a] # None
    BY DEF PreAccounts
  <2>3. a \in Addr
    BY <2>2 DEF TypeOK
  <2> QED
    BY <2>1, <2>2, <2>3 DEF InputIsPreState
<1>2. Live(a) /\ objects[a] \in Object /\ objects[a].committed = pre[a].storage
  <2>1. ObjInv(objects, dirties)
    BY DEF RecInv
  <2>2. objects[a] # None /\ ~objects[a].deleted /\ objects[a].committed = pre[a].storage
    BY <1>1, <2>1 DEF ObjInv
  <2>3. objects[a] \in Object
    BY <1>1, <2>2 DEF TypeOK
  <2> QED
    BY <2>2, <2>3 DEF Live
<1> DEFINE K == touched[a][objects[a].id]
           st == [k \in K |-> objects[a].committed[k]]
<1>3. K \subseteq Key
  <2>1. objects[a].id \in 0 .. MaxObj
    BY <1>2 DEF Object
  <2> QED
    BY <1>1, <2>1, TouchedType
<1>4. st \in [K -> Val]
  BY <1>2, <1>3 DEF Object
<1>5. PreRecord(a) = Account(pre[a].bal, pre[a].code, st)
  BY <1>1 DEF PreRecord, TouchedStorage
<1>6. pre[a].bal \in 0 .. MaxBal /\ pre[a].code \in {0, 1}
  BY <1>1 DEF TypeOK, AnyAccount
<1>7. PreRecord(a) \in SubstateAccount
  <2> DEFINE S == UNION {[D -> Val] : D \in SUBSET Key}
  <2> HIDE DEF K, st
  <2>1. st \in S
    BY <1>3, <1>4, Zenon
  <2> HIDE DEF S
  <2>2. PreRecord(a) \in [bal : 0 .. MaxBal, code : {0, 1}, storage : S]
    BY <1>5, <1>6, <2>1 DEF Account
  <2> QED
    BY <2>2 DEF SubstateAccount, S
<1>8. PreRecord(a) # None
  BY <1>7, StateAssumption
<1>9. /\ PreRecord(a).bal = pre[a].bal /\ PreRecord(a).code = pre[a].code
      /\ PreRecord(a).storage = st
  <2> HIDE DEF st, K
  <2> QED
    BY <1>5 DEF Account
<1>10. DOMAIN st = K /\ \A k \in K : st[k] = pre[a].storage[k]
  BY <1>2
<1> QED
  <2> HIDE DEF st, K
  <2> QED
    BY <1>1, <1>2, <1>3, <1>8, <1>9, <1>10

(* Finalise settles the state, and what it records of the input is true.   *)
LEMMA EndTxStep ==
  ASSUME TypeOK, RecInv, EndTx
  PROVE  RecInv'
<1>1. /\ phase = "run" /\ phase' = "done" /\ pre' = pre /\ dirties' = {} /\ revisions' = <<>>
      /\ preAlloc' = [a \in PreAccounts |-> PreRecord(a)]
      /\ ObjInv(objects, dirties)
      /\ \A a \in Addr : pre[a] # None => pre[a] \in Accounts
  BY DEF EndTx, Finalise, RecInv
<1>2. InputIsPreState'
  BY <1>1, PreRecordStep DEF InputIsPreState
<1>3. ASSUME NEW a \in Addr, Live(a)'
      PROVE  objects'[a].storage = objects'[a].committed
             /\ (objects'[a].code = 0 => objects'[a].storage = NoStorage)
  <2>1. CASE a \notin dirties
    BY <1>1, <1>3, <2>1 DEF EndTx, Finalise, ObjInv, Live
  <2>2. CASE a \in dirties
    <3>1. objects[a] \in Object /\ ~objects[a].deleted /\ objects[a] # None
      BY <1>1, <2>2 DEF ObjInv, TypeOK
    <3>2. ~Deletes(a)
      <4>1. Deletes(a) => objects'[a].deleted = TRUE
        BY <2>2, <3>1 DEF EndTx, Finalise, Object
      <4> QED
        BY <1>3, <4>1 DEF Live
    <3>3. objects'[a] = [objects[a] EXCEPT !.committed = objects[a].storage]
      BY <2>2, <3>2 DEF EndTx, Finalise
    <3>4. /\ objects'[a].storage = objects[a].storage /\ objects'[a].committed = objects[a].storage
          /\ objects'[a].code = objects[a].code
      BY <3>1, <3>3 DEF Object
    <3> QED
      BY <1>1, <3>1, <3>4 DEF ObjInv
  <2> QED
    BY <2>1, <2>2
<1>4. IdleInv'
  BY <1>1, <1>3 DEF IdleInv
<1> QED
  BY <1>1, <1>2, <1>4 DEF RecInv

(* The initial state is settled.                                           *)
LEMMA InitStep ==
  ASSUME Init
  PROVE  TypeOK /\ RecInv
<1>1. PICK s \in [Addr -> Accounts \cup {None}] : objects = Start(s) /\ pre = s
  BY DEF Init
<1>2. /\ touched = Untouched /\ dirties = {} /\ revisions = <<>>
      /\ preAlloc = EmptyAlloc /\ postAlloc = EmptyAlloc /\ phase = "idle" /\ txs = 0
  BY DEF Init
<1>3. ASSUME NEW a \in Addr, s[a] # None
      PROVE  /\ s[a] \in Accounts /\ objects[a] = Load(s[a]) /\ objects[a] \in Object
  <2>1. s[a] \in Accounts /\ objects[a] = Load(s[a])
    BY <1>1, <1>3 DEF Start
  <2>2. s[a].bal \in 0 .. MaxBal /\ s[a].code \in {0, 1} /\ s[a].storage \in [Key -> Val]
    BY <2>1 DEF Accounts, AnyAccount
  <2>3. Load(s[a]) \in Object
    BY <2>2 DEF Load, Object
  <2> QED
    BY <2>1, <2>3
<1>4. \A a \in Addr : s[a] = None => objects[a] = None
  BY <1>1 DEF Start
<1>5. objects \in [Addr -> Object \cup {None}]
  BY <1>1, <1>3, <1>4 DEF Start
<1>6. TypeOK
  <2>1. touched \in [Addr -> [0 .. MaxObj -> SUBSET Key]]
    BY <1>2 DEF Untouched
  <2>2. pre \in [Addr -> AnyAccount \cup {None}]
    BY <1>1 DEF Accounts
  <2> QED
    BY <1>2, <1>5, <2>1, <2>2 DEF TypeOK, EmptyAlloc
<1>7. IdleInv
  <2>1. ASSUME NEW a \in Addr, Live(a)
        PROVE  objects[a].storage = objects[a].committed
               /\ (objects[a].code = 0 => objects[a].storage = NoStorage)
    <3>1. s[a] \in Accounts /\ objects[a] = Load(s[a])
      BY <1>3, <1>4, <2>1 DEF Live
    <3> QED
      BY <3>1 DEF Load, Accounts
  <2> QED
    BY <1>2, <2>1 DEF IdleInv
<1>8. InputIsPreState
  BY <1>2 DEF InputIsPreState, EmptyAlloc
<1> QED
  BY <1>1, <1>2, <1>6, <1>7, <1>8 DEF RecInv

(* The strengthening is inductive, together with the types.                *)
LEMMA RecInvStep ==
  ASSUME TypeOK, RecInv, [Next]_vars
  PROVE  RecInv'
<1>1. CASE StartTx
  BY <1>1, StartTxStep
<1>2. CASE Operate
  BY <1>2, StateOpStep, SnapshotStep, RevertStep DEF Operate
<1>3. CASE EndTx
  BY <1>3, EndTxStep
<1>4. CASE UNCHANGED vars
  <2>1. UNCHANGED <<objects, touched, dirties, revisions, preAlloc, postAlloc, phase, pre, txs>>
    BY <1>4 DEF vars, sdb, tx
  <2>2. InputIsPreState' /\ PreAccounts' = PreAccounts
    BY <2>1 DEF RecInv, InputIsPreState, PreAccounts
  <2>3. IdleInv => IdleInv'
    BY <2>1 DEF IdleInv, Live
  <2>4. ASSUME ObjInv(objects, dirties) PROVE ObjInv(objects, dirties)'
    BY <2>1, <2>4 DEF ObjInv
  <2>5. ASSUME RevisionInv PROVE RevisionInv'
    <3>1. ASSUME NEW i \in 1 .. Len(revisions)
          PROVE  ObjInv(revisions[i].objects, revisions[i].dirties)'
      <4>1. ObjInv(revisions[i].objects, revisions[i].dirties)
        BY <2>5 DEF RevisionInv
      <4> QED
        BY <2>1, <4>1 DEF ObjInv
    <3> QED
      BY <2>1, <2>5, <3>1 DEF RevisionInv
  <2> QED
    BY <2>1, <2>2, <2>3, <2>4, <2>5 DEF RecInv
<1> QED
  BY <1>1, <1>2, <1>3, <1>4 DEF Next

(* For every set of accounts and slots and every bound: only touched slots *)
(* of dirty objects differ from the start of the transaction, in the       *)
(* present state and in all that RevertToSnapshot may restore, and Finalise*)
(* leaves a settled state.                                                 *)
THEOREM RecorderInvariant == Spec => [](TypeOK /\ RecInv)
<1>1. Init => TypeOK /\ RecInv
  BY InitStep
<1>2. TypeOK /\ RecInv /\ [Next]_vars => (TypeOK /\ RecInv)'
  BY TypeStep, RecInvStep
<1> QED
  BY <1>1, <1>2, PTL DEF Spec

(* ResearchPreAlloc holds the accounts as they were when the transaction   *)
(* started, whatever the transaction wrote and reverted.                   *)
THEOREM InputIsTrue == Spec => []InputIsPreState
<1>1. RecInv => InputIsPreState
  BY DEF RecInv
<1> QED
  BY <1>1, RecorderInvariant, PTL

(* Finalise never dereferences a missing object.                           *)
THEOREM FinaliseIsSafe == Spec => []RecordedObjectExists
<1>1. TypeOK /\ RecInv => RecordedObjectExists
  <2>1. ASSUME TypeOK, RecInv, phase = "run", NEW a \in PreAccounts
        PROVE  objects[a] # None /\ ~objects[a].deleted
    BY <2>1, PreRecordStep DEF Live
  <2> QED
    BY <2>1 DEF RecordedObjectExists
<1> QED
  BY <1>1, RecorderInvariant, PTL

(* The fields of an account.                                               *)
LEMMA AccountFields ==
  ASSUME NEW b, NEW c, NEW s
  PROVE  /\ Account(b, c, s).bal = b
         /\ Account(b, c, s).code = c
         /\ Account(b, c, s).storage = s
BY DEF Account

(* Finalise leaves in the two allocs all that the transaction changed.     *)
LEMMA OutputStep ==
  ASSUME TypeOK, RecInv, EndTx
  PROVE  OutputCompletesInput'
<1>1. /\ phase = "run" /\ pre' = pre
      /\ preAlloc' = [a \in PreAccounts |-> PreRecord(a)]
      /\ postAlloc' = [a \in {x \in PreAccounts \cup dirties : ~Deletes(x)} |-> PostRecord(a)]
      /\ ObjInv(objects, dirties) /\ dirties \subseteq DOMAIN preAlloc /\ InputIsPreState
  BY DEF EndTx, Finalise, RecInv
<1>2. ASSUME NEW a \in Addr PROVE View(a)' = Applied(a)'
  <2> DEFINE Old(k) == IF pre[a] = None THEN 0 ELSE pre[a].storage[k]
             Over(st) == [k \in Key |-> IF k \in DOMAIN st THEN st[k] ELSE Old(k)]
  <2>1. CASE a \in dirties /\ Deletes(a)
    <3>1. objects[a] \in Object /\ objects'[a] = [objects[a] EXCEPT !.deleted = TRUE]
      <4>1. objects[a] # None
        BY <1>1, <2>1 DEF ObjInv
      <4>2. objects'[a] = [objects[a] EXCEPT !.deleted = TRUE]
        BY <2>1 DEF EndTx, Finalise
      <4> QED
        BY <4>1, <4>2, ObjectType
    <3>2. View(a)' = None
      BY <3>1 DEF View, Live, Object
    <3>3. a \notin DOMAIN postAlloc' /\ (a \notin DOMAIN preAlloc' => pre'[a] = None)
      BY <1>1, <2>1 DEF PreAccounts, InputIsPreState
    <3> QED
      BY <3>2, <3>3 DEF Applied
  <2>2. CASE a \in dirties /\ ~Deletes(a)
    <3>1. objects[a] \in Object /\ objects[a] # None /\ ~objects[a].deleted
      <4>1. objects[a] # None /\ ~objects[a].deleted
        BY <1>1, <2>2 DEF ObjInv
      <4> QED
        BY <4>1, ObjectType
    <3>2. objects'[a] = [objects[a] EXCEPT !.committed = objects[a].storage]
      BY <2>2 DEF EndTx, Finalise
    <3>3. View(a)' = Account(objects[a].bal, objects[a].code, objects[a].storage)
      <4>1. objects'[a] \in Object
        BY <3>1, <3>2 DEF Object
      <4>2. /\ ~objects'[a].deleted /\ objects'[a].storage = objects[a].storage
            /\ objects'[a].bal = objects[a].bal /\ objects'[a].code = objects[a].code
        BY <3>1, <3>2 DEF Object
      <4> QED
        BY <4>1, <4>2 DEF View, Live
    <3> DEFINE st == TouchedStorage(a, objects[a].storage)
    <3>4. a \in DOMAIN postAlloc' /\ postAlloc'[a] = Account(objects[a].bal, objects[a].code, st)
      BY <1>1, <2>2 DEF PostRecord
    <3>5. /\ DOMAIN st = touched[a][objects[a].id]
          /\ \A k \in DOMAIN st : st[k] = objects[a].storage[k]
      BY DEF TouchedStorage
    <3>6. objects[a].storage = Over(st)
      <4>1. \A k \in Key \ touched[a][objects[a].id] : objects[a].storage[k] = Old(k)
        <5>1. /\ \A k \in Key \ touched[a][objects[a].id] : objects[a].storage[k] = objects[a].committed[k]
              /\ pre[a] # None => objects[a].committed = pre[a].storage
              /\ pre[a] = None => objects[a].committed = NoStorage
          BY <1>1, <3>1 DEF ObjInv
        <5> QED
          BY <5>1 DEF NoStorage
      <4>2. objects[a].storage \in [Key -> Val]
        BY <3>1 DEF Object
      <4> HIDE DEF st, Old
      <4> QED
        BY <3>5, <4>1, <4>2
    <3>7. Applied(a)' = Account(objects[a].bal, objects[a].code, Over(st))
      <4> HIDE DEF st
      <4>1. /\ postAlloc'[a].bal = objects[a].bal /\ postAlloc'[a].code = objects[a].code
            /\ postAlloc'[a].storage = st
        BY <3>4, AccountFields
      <4>2. pre' = pre /\ a \in DOMAIN postAlloc'
        BY <1>1, <3>4
      <4> QED
        BY <4>1, <4>2 DEF Applied
    <3> QED
      BY <3>3, <3>6, <3>7
  <2>3. CASE a \notin dirties
    <3>1. objects'[a] = objects[a] /\ View(a)' = View(a)
      BY <2>3 DEF EndTx, Finalise, View, Live
    <3>2. View(a) = pre[a]
      <4>1. CASE Live(a)
        <5>1. pre[a] # None /\ objects[a].bal = pre[a].bal /\ objects[a].code = pre[a].code
              /\ objects[a].storage = pre[a].storage
          BY <1>1, <2>3, <4>1 DEF ObjInv, Live
        <5>2. pre[a] = Account(pre[a].bal, pre[a].code, pre[a].storage)
          BY <5>1 DEF TypeOK, AnyAccount, Account
        <5> QED
          BY <4>1, <5>1, <5>2 DEF View
      <4>2. CASE ~Live(a)
        BY <1>1, <4>2 DEF ObjInv, Live, View
      <4> QED
        BY <4>1, <4>2
    <3>3. CASE a \in PreAccounts
      <4>1. a \in DOMAIN postAlloc' /\ postAlloc'[a] = PreRecord(a)
        BY <1>1, <2>3, <3>3 DEF PostRecord, Deletes
      <4> DEFINE st == PreRecord(a).storage
      <4>2. /\ pre[a] # None /\ PreRecord(a).bal = pre[a].bal /\ PreRecord(a).code = pre[a].code
            /\ \A k \in DOMAIN st : st[k] = pre[a].storage[k]
        BY <1>1, <3>3, PreRecordStep
      <4>3. pre[a] = Account(pre[a].bal, pre[a].code, pre[a].storage)
            /\ pre[a].storage \in [Key -> Val]
        BY <4>2 DEF TypeOK, AnyAccount, Account
      <4>4. pre[a].storage = Over(st)
        <5> HIDE DEF st
        <5> QED
          BY <4>2, <4>3
      <4>5. Applied(a)' = Account(pre[a].bal, pre[a].code, Over(st))
        BY <1>1, <4>1, <4>2 DEF Applied
      <4> QED
        BY <3>1, <3>2, <4>3, <4>4, <4>5
    <3>4. CASE a \notin PreAccounts
      BY <1>1, <2>3, <3>1, <3>2, <3>4 DEF Applied
    <3> QED
      BY <3>3, <3>4
  <2> QED
    BY <2>1, <2>2, <2>3
<1> QED
  BY <1>2 DEF OutputCompletesInput

(* The accounts after a transaction are those before it overwritten by     *)
(* ResearchPostAlloc, without those of ResearchPreAlloc missing from it.   *)
THEOREM OutputIsComplete == Spec => []OutputCompletesInput
<1>1. Init => OutputCompletesInput
  BY DEF Init, OutputCompletesInput
<1>2. TypeOK /\ RecInv /\ OutputCompletesInput /\ [Next]_vars => OutputCompletesInput'
  <2> SUFFICES ASSUME TypeOK, RecInv, OutputCompletesInput, [Next]_vars
               PROVE  OutputCompletesInput'
    OBVIOUS
  <2>1. CASE EndTx
    BY <2>1, OutputStep
  <2>2. CASE StartTx \/ Operate
    <3>1. phase' = "run"
      BY <2>2 DEF StartTx, Operate, tx
    <3> QED
      BY <3>1 DEF OutputCompletesInput
  <2>3. CASE UNCHANGED vars
    BY <2>3 DEF vars, sdb, tx, OutputCompletesInput, View, Live, Applied
  <2> QED
    BY <2>1, <2>2, <2>3 DEF Next
<1> QED
  BY <1>1, <1>2, RecorderInvariant, PTL DEF Spec
=============================================================================
