------------------------- MODULE RecordReplayProofs -------------------------
(* Proofs about RecordReplay, for every set of addresses and keys and      *)
(* every bound: a recorded transaction replays to its recorded output.     *)
EXTENDS RecordReplay, RecorderProofs

-----------------------------------------------------------------------------
(* The recorder of RecordReplay is the one of Recorder.                    *)

(* A step of replayTask leaves the recorder to do what it does alone.      *)
LEMMA ReplayStep == [RNext]_rvars => [Next]_vars
<1>1. RStartTx => StartTx
  BY DEF RStartTx
<1>2. ROperate => Operate
  BY DEF ROperate, ReplayOp, Operate, StateOp, Follow
<1>3. REndTx => EndTx
  BY DEF REndTx
<1>4. UNCHANGED rvars => UNCHANGED vars
  BY DEF rvars
<1> QED
  BY <1>1, <1>2, <1>3, <1>4 DEF RNext, Next

(* What has been recorded only grows, so that an input which can be what   *)
(* is recorded now could be before.                                        *)
LEMMA StillCompatible ==
  ASSUME TypeOK, UNCHANGED <<tx, input>>, DOMAIN preAlloc \subseteq DOMAIN preAlloc',
         \A x \in Addr : Contract(x) => touched[x][0] \subseteq touched'[x][0],
         Compatible'
  PROVE  Compatible
  BY DEF Compatible, Known, Keys, Contract, TypeOK, tx

(* An account that both StateDBs have in step looks the same through every *)
(* getter.                                                                 *)
LEMMA SameGetters ==
  ASSUME Linked, NEW a \in Addr, Known(a)
  PROVE  /\ Same(a, objects[a], rObjects[a])
         /\ Live(a) = Rep!Live(a) /\ NextId(a) = Rep!NextId(a)
         /\ Balance(a) = Rep!Balance(a) /\ Code(a) = Rep!Code(a) /\ IsEmpty(a) = Rep!IsEmpty(a)
         /\ SameAccount(a)
<1>1. Same(a, objects[a], rObjects[a])
  BY DEF Linked, Agree
<1>2. Live(a) = Rep!Live(a)
  BY <1>1 DEF Same, Present, Live, Rep!Live
<1>3. NextId(a) = Rep!NextId(a)
  BY <1>1 DEF Same, Id, NextId, Rep!NextId
<1>4. Live(a) => /\ objects[a].bal = rObjects[a].bal /\ objects[a].code = rObjects[a].code
                 /\ objects[a].suicided = rObjects[a].suicided
  BY <1>1 DEF Same, Present, Live
<1>5. Balance(a) = Rep!Balance(a) /\ Code(a) = Rep!Code(a)
  BY <1>2, <1>4 DEF Balance, Code, Rep!Balance, Rep!Code
<1>6. IsEmpty(a) = Rep!IsEmpty(a)
  BY <1>2, <1>4 DEF IsEmpty, Rep!IsEmpty, Empty, Rep!Empty
<1>7. SameAccount(a)
  BY <1>2, <1>4 DEF SameAccount, Seen, Rep!Seen
<1> QED
  BY <1>1, <1>2, <1>3, <1>5, <1>6, <1>7

(* The first access is recorded in both in the same way.                   *)
LEMMA SamePreAlloc ==
  ASSUME Linked, NEW a \in Addr, Known(a), getStateObject(a), Rep!getStateObject(a)
  PROVE  rPre' = preAlloc'
<1>1. Live(a) = Rep!Live(a)
  BY SameGetters
<1>2. Live(a) => objects[a].bal = rObjects[a].bal /\ objects[a].code = rObjects[a].code
  BY SameGetters DEF Same, Present, Live
<1>3. Live(a) => NewSubstateAccount(objects[a]) = Rep!NewSubstateAccount(rObjects[a])
  BY <1>2 DEF NewSubstateAccount, Rep!NewSubstateAccount, Account, Rep!Account
<1>4. rPre = preAlloc
  BY DEF Linked
<1> QED
  BY <1>1, <1>3, <1>4 DEF getStateObject, Rep!getStateObject

-----------------------------------------------------------------------------
(* Steps of the two StateDBs, in step.                                     *)

(* An operation on one account: the objects become o and r.                *)
LEMMA LinkWrite ==
  ASSUME TypeOK, Linked, UNCHANGED <<tx, input, revisions, rRevisions>>,
         NEW a \in Addr, NEW o, NEW r \in Object, Same(a, o, r),
         objects' = [objects EXCEPT ![a] = o], rObjects' = [rObjects EXCEPT ![a] = r],
         rTouched' = touched', rDirties' = dirties', rPre' = preAlloc'
  PROVE  Linked'
<1>1. /\ \A x : Known(x)' = Known(x)
      /\ \A x, u, v : Same(x, u, v)' = Same(x, u, v)
  BY DEF Known, Same, Keys, Contract, tx, Present, Id
<1>2. \A x, y : Agree(x, y)' = Agree(x, y)
  BY <1>1 DEF Agree
<1>3. objects \in [Addr -> Object \cup {None}] /\ rObjects \in [Addr -> Object \cup {None}]
  BY DEF TypeOK, Linked
<1>4. rObjects' \in [Addr -> Object \cup {None}]
  BY <1>3
<1>5. Agree(objects', rObjects')
  <2> SUFFICES ASSUME NEW x \in Addr, Known(x) PROVE Same(x, objects'[x], rObjects'[x])
    BY DEF Agree
  <2>1. CASE x = a
    BY <1>3, <2>1
  <2>2. CASE x # a
    <3>1. objects'[x] = objects[x] /\ rObjects'[x] = rObjects[x]
      BY <1>3, <2>2
    <3> QED
      BY <3>1 DEF Linked, Agree
  <2> QED
    BY <2>1, <2>2
<1> QED
  BY <1>2, <1>4, <1>5 DEF Linked

(* An operation that changes no object.                                    *)
LEMMA LinkRead ==
  ASSUME TypeOK, Linked, UNCHANGED <<tx, input, revisions, rRevisions, objects, rObjects>>,
         rTouched' = touched', rDirties' = dirties', rPre' = preAlloc'
  PROVE  Linked'
<1>1. /\ \A x : Known(x)' = Known(x)
      /\ \A x, u, v : Same(x, u, v)' = Same(x, u, v)
  BY DEF Known, Same, Keys, Contract, tx, Present, Id
<1>2. \A x, y : Agree(x, y)' = Agree(x, y)
  BY <1>1 DEF Agree
<1> QED
  BY <1>2 DEF Linked

(* GetOrNewStateObject returns two objects in step.                        *)
LEMMA SameGetOrNew ==
  ASSUME TypeOK, Linked, NEW a \in Addr, Known(a), Live(a) \/ NextId(a) <= MaxObj
  PROVE  /\ Same(a, GetOrNew(a), Rep!GetOrNew(a))
         /\ Present(GetOrNew(a)) /\ Rep!GetOrNew(a) \in Object
<1>1. Live(a) = Rep!Live(a) /\ NextId(a) = Rep!NextId(a) /\ Same(a, objects[a], rObjects[a])
  BY SameGetters
<1>2. CASE Live(a)
  <2>1. rObjects[a] \in Object
    BY <1>1, <1>2 DEF Linked, Rep!Live
  <2> QED
    BY <1>1, <1>2, <2>1 DEF GetOrNew, Rep!GetOrNew, Live, Present
<1>3. CASE ~Live(a)
  <2>1. GetOrNew(a) = newObject(a) /\ Rep!GetOrNew(a) = newObject(a)
    BY <1>1, <1>3 DEF GetOrNew, Rep!GetOrNew, newObject, Rep!newObject, NoStorage, Rep!NoStorage
  <2>2. newObject(a) \in Object /\ newObject(a) # None /\ ~newObject(a).deleted
    BY <1>3, NewObjectType, StateAssumption DEF newObject
  <2> QED
    BY <2>1, <2>2 DEF Same, Present
<1> QED
  BY <1>2, <1>3

(* A setter, applied to what GetOrNewStateObject returns.                  *)
LEMMA LinkUpdate ==
  ASSUME TypeOK, Linked, UNCHANGED <<tx, input>>, NEW a \in Addr, Known(a),
         NEW o, NEW r \in Object, Same(a, o, r), NEW dirt, NEW rdirt,
         Update(a, o, dirt), Rep!Update(a, r, rdirt),
         dirt <=> rdirt, Live(a) \/ dirt
  PROVE  Linked'
<1>1. Live(a) = Rep!Live(a) /\ NextId(a) = Rep!NextId(a)
  BY SameGetters
<1>2. rTouched = touched /\ rDirties = dirties
  BY DEF Linked
<1>3. objects' = [objects EXCEPT ![a] = o] /\ rObjects' = [rObjects EXCEPT ![a] = r]
  BY DEF Update, createObject, Rep!Update, Rep!createObject
<1>4. rTouched' = touched'
  BY <1>1, <1>2 DEF Update, createObject, Rep!Update, Rep!createObject
<1>5. rDirties' = dirties'
  <2>1. CASE dirt
    BY <1>2, <2>1 DEF Update, Rep!Update
  <2>2. CASE ~dirt
    BY <1>1, <1>2, <2>2 DEF Update, Rep!Update, Live, Rep!Live
  <2> QED
    BY <2>1, <2>2
<1>6. rPre' = preAlloc'
  BY SamePreAlloc DEF Update, Rep!Update
<1>7. UNCHANGED <<tx, input, revisions, rRevisions>>
  BY DEF Update, Rep!Update
<1> QED
  BY <1>3, <1>4, <1>5, <1>6, <1>7, LinkWrite

(* Setting the balance keeps two objects in step.                          *)
LEMMA SameBalance ==
  ASSUME NEW a \in Addr, NEW g \in Object, NEW h \in Object, Same(a, g, h), Present(g),
         NEW b \in 0 .. MaxBal
  PROVE  /\ [g EXCEPT !.bal = b] \in Object /\ [h EXCEPT !.bal = b] \in Object
         /\ Same(a, [g EXCEPT !.bal = b], [h EXCEPT !.bal = b])
<1>1. [g EXCEPT !.bal = b] \in Object /\ [h EXCEPT !.bal = b] \in Object
  BY DEF Object
<1>2. [g EXCEPT !.bal = b] # None /\ [h EXCEPT !.bal = b] # None /\ h # None
  BY <1>1, StateAssumption
<1> QED
  BY <1>1, <1>2 DEF Same, Present, Id, Object

(* The setters of the balance, the nonce and the code.                     *)
LEMMA LinkAddBalance ==
  ASSUME TypeOK, Linked, UNCHANGED <<tx, input>>, NEW a \in Addr, Known(a), NEW n \in {0, 1},
         AddBalance(a, n), Rep!AddBalance(a, n)
  PROVE  Linked'
<1> DEFINE g == GetOrNew(a)
           h == Rep!GetOrNew(a)
           o == [g EXCEPT !.bal = @ + n]
           r == [h EXCEPT !.bal = @ + n]
<1>1. Live(a) \/ NextId(a) <= MaxObj
  BY DEF AddBalance, Update, createObject
<1>2. Same(a, g, h) /\ Present(g) /\ h \in Object /\ g \in Object /\ g.bal = Balance(a)
  BY <1>1, SameGetOrNew, GetOrNewType
<1>3. g.bal + n \in 0 .. MaxBal /\ h.bal = g.bal
  BY <1>2 DEF AddBalance, Same, Object
<1>4. o \in Object /\ r \in Object /\ Same(a, o, r)
  BY <1>2, <1>3, SameBalance
<1>5. IsEmpty(a) = Rep!IsEmpty(a) /\ (Live(a) \/ IsEmpty(a))
  BY SameGetters DEF IsEmpty
<1>6. Update(a, o, n > 0 \/ IsEmpty(a)) /\ Rep!Update(a, r, n > 0 \/ Rep!IsEmpty(a))
  BY DEF AddBalance, Rep!AddBalance
<1> HIDE DEF g, h, o, r
<1> QED
  BY <1>4, <1>5, <1>6, LinkUpdate

LEMMA LinkSubBalance ==
  ASSUME TypeOK, Linked, UNCHANGED <<tx, input>>, NEW a \in Addr, Known(a), NEW n \in {0, 1},
         SubBalance(a, n), Rep!SubBalance(a, n)
  PROVE  Linked'
<1> DEFINE g == GetOrNew(a)
           h == Rep!GetOrNew(a)
           o == [g EXCEPT !.bal = @ - n]
           r == [h EXCEPT !.bal = @ - n]
<1>1. Live(a)
  BY DEF SubBalance
<1>2. Same(a, g, h) /\ Present(g) /\ h \in Object /\ g \in Object /\ g.bal = Balance(a)
  BY <1>1, SameGetOrNew, GetOrNewType
<1>3. g.bal - n \in 0 .. MaxBal /\ h.bal = g.bal
  <2>1. g.bal \in 0 .. MaxBal /\ h.bal = g.bal
    BY <1>2 DEF Same, Object
  <2>2. g.bal >= n
    BY <1>2 DEF SubBalance
  <2> HIDE DEF g, h
  <2> QED
    BY <2>1, <2>2, StateAssumption
<1>4. o \in Object /\ r \in Object /\ Same(a, o, r)
  BY <1>2, <1>3, SameBalance
<1>5. Update(a, o, n > 0) /\ Rep!Update(a, r, n > 0)
  BY DEF SubBalance, Rep!SubBalance
<1> HIDE DEF g, h, o, r
<1> QED
  BY <1>1, <1>4, <1>5, LinkUpdate

LEMMA LinkSetCode ==
  ASSUME TypeOK, Linked, UNCHANGED <<tx, input>>, NEW a \in Addr, Known(a),
         SetCode(a), Rep!SetCode(a)
  PROVE  Linked'
<1> DEFINE g == GetOrNew(a)
           h == Rep!GetOrNew(a)
           o == [g EXCEPT !.code = 1]
           r == [h EXCEPT !.code = 1]
<1>1. Live(a) \/ NextId(a) <= MaxObj
  BY DEF SetCode, Update, createObject
<1>2. Same(a, g, h) /\ Present(g) /\ h \in Object /\ g \in Object
  BY <1>1, SameGetOrNew, GetOrNewType
<1>3. o \in Object /\ r \in Object
  BY <1>2 DEF Object
<1>4. Same(a, o, r)
  <2>1. o # None /\ r # None /\ h # None
    BY <1>2, <1>3, StateAssumption
  <2> QED
    BY <1>2, <2>1 DEF Same, Present, Id, Object
<1>5. Update(a, o, TRUE) /\ Rep!Update(a, r, TRUE)
  BY DEF SetCode, Rep!SetCode
<1> HIDE DEF g, h, o, r
<1> QED
  BY <1>3, <1>4, <1>5, LinkUpdate

(* CreateAccount puts a new object in the place of one without code.       *)
LEMMA LinkCreateAccount ==
  ASSUME TypeOK, Linked, UNCHANGED <<tx, input>>, NEW a \in Addr, Known(a),
         CreateAccount(a), Rep!CreateAccount(a)
  PROVE  Linked'
<1> DEFINE o == [newObject(a) EXCEPT !.bal = Balance(a), !.code = 1]
<1>1. NextId(a) <= MaxObj /\ NextId(a) = Rep!NextId(a) /\ Balance(a) = Rep!Balance(a)
  BY SameGetters DEF CreateAccount, createObject
<1>2. newObject(a) = Rep!newObject(a)
  BY <1>1 DEF newObject, Rep!newObject, NoStorage, Rep!NoStorage
<1>3. o \in Object
  <2>1. Balance(a) \in 0 .. MaxBal
    BY StateAssumption DEF Balance, Live, TypeOK, Object
  <2>2. newObject(a) \in Object
    BY <1>1, NewObjectType
  <2> QED
    BY <2>1, <2>2 DEF Object
<1>4. objects' = [objects EXCEPT ![a] = o] /\ rObjects' = [rObjects EXCEPT ![a] = o]
  BY <1>1, <1>2 DEF CreateAccount, createObject, Rep!CreateAccount, Rep!createObject
<1>5. rTouched' = touched' /\ rDirties' = dirties' /\ UNCHANGED <<revisions, rRevisions>>
  BY <1>1 DEF CreateAccount, createObject, Rep!CreateAccount, Rep!createObject, Linked
<1>6. rPre' = preAlloc'
  BY SamePreAlloc DEF CreateAccount, Rep!CreateAccount
<1>7. Same(a, o, o)
  BY DEF Same
<1> HIDE DEF o
<1> QED
  BY <1>3, <1>4, <1>5, <1>6, <1>7, LinkWrite

(* What Suicide makes of an object.                                        *)
LEMMA SuicidedObject ==
  ASSUME NEW g \in Object
  PROVE  [g EXCEPT !.suicided = TRUE, !.bal = 0] \in Object
<1> DEFINE q == [g EXCEPT !.suicided = TRUE]
<1>1. q \in Object
  BY DEF Object
<1>2. [g EXCEPT !.suicided = TRUE, !.bal = 0] = [q EXCEPT !.bal = 0]
  OBVIOUS
<1> HIDE DEF q
<1>3. [q EXCEPT !.bal = 0] \in Object
  BY <1>1, StateAssumption DEF Object
<1> QED
  BY <1>2, <1>3

(* Suicide empties the balance of the object and flags it.                 *)
LEMMA LinkSuicide ==
  ASSUME TypeOK, Linked, UNCHANGED <<tx, input>>, NEW a \in Addr, Known(a),
         Suicide(a), Rep!Suicide(a)
  PROVE  Linked'
<1> DEFINE g == objects[a]
           h == rObjects[a]
           o == [g EXCEPT !.suicided = TRUE, !.bal = 0]
           r == [h EXCEPT !.suicided = TRUE, !.bal = 0]
<1>1. Same(a, g, h) /\ Present(g) /\ Present(h)
  BY SameGetters DEF Suicide, Code, Live, Same, Present
<1>2. g \in Object /\ h \in Object
  BY <1>1 DEF TypeOK, Linked, Present
<1>3. o \in Object /\ r \in Object
  BY <1>2, SuicidedObject
<1>4. Same(a, o, r)
  <2>1. o # None /\ r # None
    BY <1>3, StateAssumption
  <2> QED
    BY <1>1, <1>2, <2>1 DEF Same, Present, Id, Object
<1>5. objects' = [objects EXCEPT ![a] = o] /\ rObjects' = [rObjects EXCEPT ![a] = r]
  BY DEF Suicide, Rep!Suicide
<1>6. rTouched' = touched' /\ rDirties' = dirties' /\ UNCHANGED <<revisions, rRevisions>>
  BY DEF Suicide, Rep!Suicide, Linked
<1>7. rPre' = preAlloc'
  BY SamePreAlloc DEF Suicide, Rep!Suicide
<1> HIDE DEF g, h, o, r
<1> QED
  BY <1>3, <1>4, <1>5, <1>6, <1>7, LinkWrite

(* Both mark a slot of the same object.                                    *)
LEMMA SameTouched ==
  ASSUME Linked, NEW a \in Addr, Known(a), Live(a), NEW k, Touch(a, k), Rep!Touch(a, k)
  PROVE  rTouched' = touched'
<1>1. objects[a].id = rObjects[a].id
  BY SameGetters DEF Same, Live, Rep!Live, Id
<1> QED
  BY <1>1 DEF Touch, Rep!Touch, Linked

(* SSTORE: the slot holds the same value in both, or is set in both.       *)
LEMMA LinkSetState ==
  ASSUME TypeOK, Linked, UNCHANGED <<tx, input>>, NEW a \in Addr, Known(a), Keys(a) \subseteq Key,
         NEW k \in Keys(a), NEW v \in Val, SetState(a, k, v), Rep!SetState(a, k, v)
  PROVE  Linked'
<1> DEFINE g == objects[a]
           h == rObjects[a]
           o == [g EXCEPT !.storage[k] = v]
           r == [h EXCEPT !.storage[k] = v]
<1>1. Same(a, g, h) /\ Present(g) /\ Present(h) /\ Live(a)
  BY SameGetters DEF SetState, Code, Live, Same, Present
<1>2. g \in Object /\ h \in Object /\ g.storage[k] = h.storage[k]
  BY <1>1 DEF TypeOK, Linked, Present, Same
<1>3. rTouched' = touched' /\ UNCHANGED <<revisions, rRevisions>>
  BY <1>1, SameTouched DEF SetState, Rep!SetState
<1>4. rPre' = preAlloc'
  BY SamePreAlloc DEF SetState, Rep!SetState
<1>5. CASE g.storage[k] = v
  <2>1. UNCHANGED <<objects, rObjects, dirties, rDirties>>
    BY <1>2, <1>5 DEF SetState, Rep!SetState
  <2> QED
    BY <1>3, <1>4, <2>1, LinkRead DEF Linked
<1>6. CASE g.storage[k] # v
  <2>1. /\ objects' = [objects EXCEPT ![a] = o] /\ rObjects' = [rObjects EXCEPT ![a] = r]
        /\ dirties' = dirties \cup {a} /\ rDirties' = rDirties \cup {a}
    BY <1>2, <1>6 DEF SetState, Rep!SetState
  <2>2. r \in Object /\ o \in Object
    BY <1>2 DEF Object
  <2>3. Same(a, o, r)
    <3>1. o # None /\ r # None /\ g # None /\ h # None
      BY <1>1, <2>2, StateAssumption DEF Present
    <3>2. /\ o.deleted = g.deleted /\ o.id = g.id /\ o.bal = g.bal /\ o.code = g.code
          /\ o.suicided = g.suicided /\ o.committed = g.committed
          /\ o.storage = [g.storage EXCEPT ![k] = v]
      BY <1>2 DEF Object
    <3>3. /\ r.deleted = h.deleted /\ r.id = h.id /\ r.bal = h.bal /\ r.code = h.code
          /\ r.suicided = h.suicided /\ r.committed = h.committed
          /\ r.storage = [h.storage EXCEPT ![k] = v]
      BY <1>2 DEF Object
    <3>4. g.storage \in [Key -> Val] /\ h.storage \in [Key -> Val]
      BY <1>2 DEF Object
    <3>5. \A x \in Keys(a) : g.storage[x] = h.storage[x] => o.storage[x] = r.storage[x]
      BY <3>2, <3>3, <3>4
    <3> HIDE DEF g, h, o, r
    <3> QED
      BY <1>1, <3>1, <3>2, <3>3, <3>5 DEF Same, Present, Id
  <2>4. rDirties' = dirties'
    BY <2>1 DEF Linked
  <2> HIDE DEF g, h, o, r
  <2> QED
    BY <1>3, <1>4, <2>1, <2>2, <2>3, <2>4, LinkWrite
<1> QED
  BY <1>5, <1>6

(* Snapshot takes two revisions in step.                                   *)
LEMMA LinkSnapshot ==
  ASSUME TypeOK, Linked, UNCHANGED <<tx, input>>, Snapshot, Rep!Snapshot
  PROVE  Linked'
<1> DEFINE u == [objects |-> objects, dirties |-> dirties]
           v == [objects |-> rObjects, dirties |-> rDirties]
<1>1. \A x, y : Agree(x, y)' = Agree(x, y)
  <2>1. /\ \A x : Known(x)' = Known(x)
        /\ \A x, p, q : Same(x, p, q)' = Same(x, p, q)
    BY DEF Known, Same, Keys, Contract, tx, Present, Id
  <2> QED
    BY <2>1 DEF Agree
<1>2. /\ revisions' = Append(revisions, u) /\ rRevisions' = Append(rRevisions, v)
      /\ UNCHANGED <<objects, touched, dirties, preAlloc, rObjects, rTouched, rDirties, rPre>>
  BY DEF Snapshot, Rep!Snapshot
<1>3. /\ u \in Revision /\ v \in Revision /\ Agree(u.objects, v.objects) /\ v.dirties = u.dirties
  BY DEF TypeOK, Linked, Revision
<1>4. revisions \in Seq(Revision) /\ rRevisions \in Seq(Revision) /\ Len(rRevisions) = Len(revisions)
  BY DEF TypeOK, Linked
<1>5. \A i \in 1 .. Len(revisions) :
          /\ Agree(revisions[i].objects, rRevisions[i].objects)
          /\ rRevisions[i].dirties = revisions[i].dirties
  BY DEF Linked
<1> HIDE DEF u, v
<1>6. /\ rRevisions' \in Seq(Revision)
      /\ Len(revisions') = Len(revisions) + 1 /\ Len(rRevisions') = Len(revisions')
      /\ \A i \in 1 .. Len(revisions) : revisions'[i] = revisions[i] /\ rRevisions'[i] = rRevisions[i]
      /\ revisions'[Len(revisions')] = u /\ rRevisions'[Len(revisions')] = v
  BY <1>2, <1>3, <1>4, AppendProperties
<1>7. ASSUME NEW i \in 1 .. Len(revisions')
      PROVE  /\ Agree(revisions'[i].objects, rRevisions'[i].objects)
             /\ rRevisions'[i].dirties = revisions'[i].dirties
  <2>1. CASE i \in 1 .. Len(revisions)
    BY <1>5, <1>6, <2>1
  <2>2. CASE i = Len(revisions')
    BY <1>3, <1>6, <2>2
  <2>3. Len(revisions) \in Nat
    BY <1>4, LenProperties
  <2> QED
    BY <1>6, <2>1, <2>2, <2>3
<1>8. rObjects' \in [Addr -> Object \cup {None}] /\ Agree(objects', rObjects')
      /\ rTouched' = touched' /\ rDirties' = dirties' /\ rPre' = preAlloc'
  BY <1>2 DEF Linked
<1> QED
  BY <1>1, <1>6, <1>7, <1>8 DEF Linked

(* RevertToSnapshot restores two revisions in step.                        *)
LEMMA LinkRevert ==
  ASSUME TypeOK, Linked, UNCHANGED <<tx, input>>, NEW n \in 1 .. Len(revisions),
         RevertToSnapshot(n), Rep!RevertToSnapshot(n)
  PROVE  Linked'
<1>1. \A x, y : Agree(x, y)' = Agree(x, y)
  <2>1. /\ \A x : Known(x)' = Known(x)
        /\ \A x, p, q : Same(x, p, q)' = Same(x, p, q)
    BY DEF Known, Same, Keys, Contract, tx, Present, Id
  <2> QED
    BY <2>1 DEF Agree
<1>2. /\ objects' = revisions[n].objects /\ rObjects' = rRevisions[n].objects
      /\ dirties' = revisions[n].dirties /\ rDirties' = rRevisions[n].dirties
      /\ revisions' = SubSeq(revisions, 1, n - 1) /\ rRevisions' = SubSeq(rRevisions, 1, n - 1)
      /\ UNCHANGED <<touched, preAlloc, rTouched, rPre>>
  BY DEF RevertToSnapshot, Rep!RevertToSnapshot
<1>3. revisions \in Seq(Revision) /\ rRevisions \in Seq(Revision) /\ Len(rRevisions) = Len(revisions)
  BY DEF TypeOK, Linked
<1>4. \A i \in 1 .. Len(revisions) :
          /\ Agree(revisions[i].objects, rRevisions[i].objects)
          /\ rRevisions[i].dirties = revisions[i].dirties
  BY DEF Linked
<1>5. rObjects' \in [Addr -> Object \cup {None}] /\ Agree(objects', rObjects') /\ rDirties' = dirties'
  <2>1. rRevisions[n] \in Revision
    BY <1>3, ElementOfSeq
  <2> QED
    BY <1>2, <1>4, <2>1 DEF Revision
<1>6. /\ rRevisions' \in Seq(Revision)
      /\ Len(revisions') = n - 1 /\ Len(rRevisions') = n - 1
      /\ \A i \in 1 .. n - 1 : revisions'[i] = revisions[i] /\ rRevisions'[i] = rRevisions[i]
  BY <1>2, <1>3, SubSeqProperties
<1>7. \A i \in 1 .. Len(revisions') :
          /\ Agree(revisions'[i].objects, rRevisions'[i].objects)
          /\ rRevisions'[i].dirties = revisions'[i].dirties
  BY <1>3, <1>4, <1>6, LenProperties
<1>8. rTouched' = touched' /\ rPre' = preAlloc'
  BY <1>2 DEF Linked
<1> QED
  BY <1>1, <1>5, <1>6, <1>7, <1>8 DEF Linked

-----------------------------------------------------------------------------
(* What the recorder's operations keep.                                    *)

(* Creating an object leaves the touched slots of the trie's object alone. *)
LEMMA CreateKeepsTouched ==
  ASSUME TypeOK, NEW a \in Addr, NEW o, createObject(a, o)
  PROVE  \A x \in Addr : touched[x][0] \subseteq touched'[x][0]
<1>1. NextId(a) = Id(objects[a]) + 1 /\ Id(objects[a]) \in 0 .. MaxObj
  BY NextIdFact
<1>2. touched' = [touched EXCEPT ![a][NextId(a)] = {}]
  BY DEF createObject
<1>3. 0 \in 0 .. MaxObj
  BY StateAssumption
<1>4. \A x \in Addr : \A i \in 0 .. MaxObj :
          x # a \/ i <= Id(objects[a]) => touched[x][i] \subseteq touched'[x][i]
  BY <1>1, <1>2, NewTouched
<1> QED
  BY <1>1, <1>3, <1>4

(* A change of the object at one address.                                  *)
LEMMA LifeWrite ==
  ASSUME TypeOK, UNCHANGED tx, LifeInv(objects, dirties), NEW a \in Addr, NEW o,
         objects' = [objects EXCEPT ![a] = o], dirties \subseteq dirties',
         Contract(a) => o.id = 0, o.suicided => a \in dirties'
  PROVE  LifeInv(objects, dirties)'
<1> SUFFICES ASSUME NEW x \in Addr
             PROVE  /\ Contract(x) => objects'[x].id = 0
                    /\ objects'[x] # None /\ ~objects'[x].deleted /\ objects'[x].suicided
                          => x \in dirties'
  BY DEF LifeInv, Contract, tx
<1>1. objects'[x] = IF x = a THEN o ELSE objects[x]
  BY DEF TypeOK
<1> QED
  BY <1>1 DEF LifeInv

(* A contract of the trie is never without an object, nor loses its code.  *)
LEMMA ContractLives ==
  ASSUME RecInv, phase = "run", NEW a \in Addr, Contract(a)
  PROVE  Live(a) /\ Code(a) # 0
<1>1. ObjInv(objects, dirties)
  BY DEF RecInv
<1>2. Live(a) /\ objects[a].code # 0
  BY <1>1 DEF ObjInv, Contract, Live
<1> QED
  BY <1>2 DEF Code

(* A setter on what GetOrNewStateObject returns.                           *)
LEMMA LifeUpdate ==
  ASSUME TypeOK, RecInv, phase = "run", UNCHANGED tx, LifeInv(objects, dirties),
         NEW a \in Addr, NEW o, NEW dirt, Update(a, o, dirt),
         o.id = GetOrNew(a).id, o.suicided = GetOrNew(a).suicided
  PROVE  /\ LifeInv(objects, dirties)'
         /\ \A x \in Addr : touched[x][0] \subseteq touched'[x][0]
<1>1. objects' = [objects EXCEPT ![a] = o] /\ dirties \subseteq dirties'
  BY DEF Update, createObject
<1>2. CASE Live(a)
  <2>1. GetOrNew(a) = objects[a] /\ touched' = touched
    BY <1>2 DEF GetOrNew, Update
  <2>2. /\ Contract(a) => o.id = 0
        /\ o.suicided => a \in dirties'
    BY <1>1, <1>2, <2>1 DEF LifeInv, Live
  <2> QED
    BY <1>1, <2>1, <2>2, LifeWrite
<1>3. CASE ~Live(a)
  <2>1. GetOrNew(a) = newObject(a) /\ createObject(a, o)
    BY <1>3 DEF GetOrNew, Update
  <2>2. ~o.suicided /\ ~Contract(a)
    BY <1>3, <2>1, ContractLives DEF newObject
  <2> QED
    BY <1>1, <2>1, <2>2, LifeWrite, CreateKeepsTouched
<1> QED
  BY <1>2, <1>3

(* The operations of the EVM: accounts and slots are only added to the     *)
(* record, and the trie's contracts keep their objects.                    *)
LEMMA LifeOp ==
  ASSUME TypeOK, RecInv, phase = "run", UNCHANGED tx, LifeInv(objects, dirties),
         NEW a \in Addr, StateOp(a)
  PROVE  /\ LifeInv(objects, dirties)' /\ UNCHANGED revisions
         /\ \A x \in Addr : touched[x][0] \subseteq touched'[x][0]
         /\ DOMAIN preAlloc' = DOMAIN preAlloc \cup {a}
<1>1. getStateObject(a) /\ UNCHANGED revisions
  BY DEF StateOp, Lookup, AddBalance, SubBalance, SetCode, Update, CreateAccount, GetState, SetState, Suicide
<1>2. DOMAIN preAlloc' = DOMAIN preAlloc \cup {a}
  BY <1>1 DEF getStateObject
<1>3. ASSUME NEW o, NEW dirt, Update(a, o, dirt) PROVE GetOrNew(a) \in Object
  BY <1>3, GetOrNewType DEF Update, createObject
<1> DEFINE Goal == LifeInv(objects, dirties)' /\ \A x \in Addr : touched[x][0] \subseteq touched'[x][0]
<1>4. ASSUME Lookup(a) PROVE Goal
  BY <1>4 DEF Lookup, LifeInv, Contract, tx
<1>5. ASSUME NEW n \in {0, 1}, AddBalance(a, n) PROVE Goal
  <2> DEFINE o == [GetOrNew(a) EXCEPT !.bal = @ + n]
  <2>1. Update(a, o, n > 0 \/ IsEmpty(a))
    BY <1>5 DEF AddBalance
  <2>2. o.id = GetOrNew(a).id /\ o.suicided = GetOrNew(a).suicided
    BY <1>3, <2>1 DEF Object
  <2> HIDE DEF o
  <2> QED
    BY <2>1, <2>2, LifeUpdate
<1>6. ASSUME NEW n \in {0, 1}, SubBalance(a, n) PROVE Goal
  <2> DEFINE o == [GetOrNew(a) EXCEPT !.bal = @ - n]
  <2>1. Update(a, o, n > 0)
    BY <1>6 DEF SubBalance
  <2>2. o.id = GetOrNew(a).id /\ o.suicided = GetOrNew(a).suicided
    BY <1>3, <2>1 DEF Object
  <2> HIDE DEF o
  <2> QED
    BY <2>1, <2>2, LifeUpdate
<1>7. ASSUME SetCode(a) PROVE Goal
  <2> DEFINE o == [GetOrNew(a) EXCEPT !.code = 1]
  <2>1. Update(a, o, TRUE)
    BY <1>7 DEF SetCode
  <2>2. o.id = GetOrNew(a).id /\ o.suicided = GetOrNew(a).suicided
    BY <1>3, <2>1 DEF Object
  <2> HIDE DEF o
  <2> QED
    BY <2>1, <2>2, LifeUpdate
<1>8. ASSUME CreateAccount(a) PROVE Goal
  <2> DEFINE o == [newObject(a) EXCEPT !.bal = Balance(a), !.code = 1]
  <2>1. createObject(a, o) /\ dirties' = dirties \cup {a} /\ Code(a) = 0
    BY <1>8 DEF CreateAccount
  <2>2. ~Contract(a) /\ objects' = [objects EXCEPT ![a] = o]
    BY <2>1, ContractLives DEF createObject
  <2> HIDE DEF o
  <2> QED
    BY <2>1, <2>2, LifeWrite, CreateKeepsTouched
<1>9. ASSUME NEW k \in Key, Code(a) = 1, Touch(a, k)
      PROVE  \A x \in Addr : touched[x][0] \subseteq touched'[x][0]
  <2>1. Live(a) /\ 0 \in 0 .. MaxObj
    BY <1>9, StateAssumption DEF Code
  <2> QED
    BY <1>9, <2>1, TouchGrows
<1>10. ASSUME NEW k \in Key, GetState(a, k) PROVE Goal
  BY <1>9, <1>10 DEF GetState, LifeInv, Contract, tx
<1>11. ASSUME NEW k \in Key, NEW v \in Val, SetState(a, k, v) PROVE Goal
  <2>1. \A x \in Addr : touched[x][0] \subseteq touched'[x][0]
    BY <1>9, <1>11 DEF SetState
  <2>2. CASE UNCHANGED <<objects, dirties>>
    BY <2>1, <2>2 DEF LifeInv, Contract, tx
  <2>3. CASE /\ objects' = [objects EXCEPT ![a] = [@ EXCEPT !.storage[k] = v]]
             /\ dirties' = dirties \cup {a}
    <3> DEFINE o == [objects[a] EXCEPT !.storage[k] = v]
    <3>1. objects[a] \in Object
      BY <1>11 DEF SetState, Code, Live, TypeOK
    <3>2. o.id = objects[a].id /\ objects' = [objects EXCEPT ![a] = o]
      BY <2>3, <3>1 DEF Object
    <3>3. Contract(a) => objects[a].id = 0
      BY DEF LifeInv
    <3> HIDE DEF o
    <3> QED
      BY <2>1, <2>3, <3>2, <3>3, LifeWrite
  <2> QED
    BY <1>11, <2>2, <2>3 DEF SetState
<1>12. ASSUME Suicide(a) PROVE Goal
  <2> DEFINE o == [objects[a] EXCEPT !.suicided = TRUE, !.bal = 0]
  <2>1. objects[a] \in Object
    BY <1>12 DEF Suicide, Code, Live, TypeOK
  <2>2. /\ o.id = objects[a].id /\ objects' = [objects EXCEPT ![a] = o]
        /\ dirties' = dirties \cup {a} /\ touched' = touched
    BY <1>12, <2>1 DEF Object, Suicide
  <2>3. Contract(a) => objects[a].id = 0
    BY DEF LifeInv
  <2> HIDE DEF o
  <2> QED
    BY <2>2, <2>3, LifeWrite
<1> HIDE DEF Goal
<1>13. Goal
  BY <1>4, <1>5, <1>6, <1>7, <1>8, <1>10, <1>11, <1>12 DEF StateOp, Goal
<1> QED
  BY <1>1, <1>2, <1>13 DEF Goal

-----------------------------------------------------------------------------
(* The replay stays in step for as long as input can be what is recorded.  *)

(* An access to account a, if it is in input, finds it in step.            *)
LEMMA AccessInStep ==
  ASSUME TypeOK, RecInv, InStepInv, phase = "run", UNCHANGED <<tx, input>>,
         NEW a \in Addr, StateOp(a), Compatible'
  PROVE  Known(a) /\ Linked /\ ~diverged /\ SameAccount(a) /\ Keys(a) \subseteq Key
<1>1. LifeInv(objects, dirties)
  BY DEF InStepInv
<1>2. /\ \A x \in Addr : touched[x][0] \subseteq touched'[x][0]
      /\ DOMAIN preAlloc' = DOMAIN preAlloc \cup {a}
  BY <1>1, LifeOp
<1>3. Compatible
  BY <1>2, StillCompatible
<1>4. Linked /\ ~diverged
  BY <1>3 DEF InStepInv
<1>5. Known(a)
  BY <1>2 DEF Compatible, Known, tx
<1>6. Keys(a) \subseteq Key
  BY <1>5 DEF InStepInv, Keys, Known, Contract
<1> QED
  BY <1>4, <1>5, <1>6, SameGetters

(* An access to slot k finds it in step: had it not been in input, the     *)
(* recorder would have touched a slot that input lacks.                    *)
LEMMA SlotInStep ==
  ASSUME TypeOK, InStepInv, phase = "run", UNCHANGED <<tx, input>>,
         NEW a \in Addr, NEW k \in Key, Code(a) = 1, Touch(a, k), getStateObject(a),
         Compatible', Linked, Known(a), SameAccount(a)
  PROVE  k \in Keys(a) /\ SameSlot(a, k)
<1>1. Live(a) /\ a \in DOMAIN preAlloc'
  <2>1. Live(a)
    BY DEF Code
  <2>2. a \in DOMAIN preAlloc'
    BY DEF getStateObject
  <2> QED
    BY <2>1, <2>2
<1>2. k \in touched'[a][objects[a].id]
  BY <1>1, TouchGrows
<1>3. k \in Keys(a)
  <2>1. CASE Contract(a)
    <3>1. objects[a].id = 0
      BY <2>1 DEF InStepInv, LifeInv
    <3>2. touched'[a][0] \subseteq Keys(a)
      BY <1>1, <2>1 DEF Compatible, Contract, Keys, tx
    <3> QED
      BY <1>2, <3>1, <3>2
  <2>2. CASE ~Contract(a)
    BY <2>2 DEF Keys
  <2> QED
    BY <2>1, <2>2
<1>4. Live(a) = Rep!Live(a) /\ Same(a, objects[a], rObjects[a])
  BY SameGetters
<1>5. objects[a].storage[k] = rObjects[a].storage[k] /\ objects[a].committed[k] = rObjects[a].committed[k]
  BY <1>1, <1>3, <1>4 DEF Same, Present, Live
<1> QED
  BY <1>1, <1>3, <1>4, <1>5 DEF SameSlot, Slot, Rep!Slot

(* A step of the two StateDBs on one account keeps them in step.           *)
LEMMA LinkOp ==
  ASSUME TypeOK, RecInv, InStepInv, phase = "run", NEW a \in Addr, ReplayOp(a), Compatible'
  PROVE  ~diverged' /\ Linked'
<1>1. UNCHANGED <<tx, input>> /\ StateOp(a)
  BY DEF ReplayOp, StateOp, Follow
<1>2. Known(a) /\ Linked /\ ~diverged /\ SameAccount(a) /\ Keys(a) \subseteq Key
  BY <1>1, AccessInStep
<1>3. CASE Lookup(a) /\ Follow(SameAccount(a), Rep!Lookup(a))
  <2>1. ~diverged' /\ Lookup(a) /\ Rep!Lookup(a)
    BY <1>2, <1>3 DEF Follow
  <2>2. rPre' = preAlloc'
    BY <1>2, <2>1, SamePreAlloc DEF Lookup, Rep!Lookup
  <2>3. /\ rTouched' = touched' /\ rDirties' = dirties'
        /\ UNCHANGED <<objects, rObjects, revisions, rRevisions>>
    BY <1>2, <2>1 DEF Lookup, Rep!Lookup, Linked
  <2> QED
    BY <1>1, <1>2, <2>1, <2>2, <2>3, LinkRead
<1>4. ASSUME NEW n \in {0, 1}, AddBalance(a, n) /\ Follow(SameAccount(a), Rep!AddBalance(a, n))
      PROVE  ~diverged' /\ Linked'
  <2>1. ~diverged' /\ AddBalance(a, n) /\ Rep!AddBalance(a, n)
    BY <1>2, <1>4 DEF Follow
  <2> QED
    BY <1>1, <1>2, <2>1, LinkAddBalance
<1>5. ASSUME NEW n \in {0, 1}, SubBalance(a, n) /\ Follow(SameAccount(a), Rep!SubBalance(a, n))
      PROVE  ~diverged' /\ Linked'
  <2>1. ~diverged' /\ SubBalance(a, n) /\ Rep!SubBalance(a, n)
    BY <1>2, <1>5 DEF Follow
  <2> QED
    BY <1>1, <1>2, <2>1, LinkSubBalance
<1>6. CASE SetCode(a) /\ Follow(SameAccount(a), Rep!SetCode(a))
  <2>1. ~diverged' /\ SetCode(a) /\ Rep!SetCode(a)
    BY <1>2, <1>6 DEF Follow
  <2> QED
    BY <1>1, <1>2, <2>1, LinkSetCode
<1>7. CASE CreateAccount(a) /\ Follow(SameAccount(a), Rep!CreateAccount(a))
  <2>1. ~diverged' /\ CreateAccount(a) /\ Rep!CreateAccount(a)
    BY <1>2, <1>7 DEF Follow
  <2> QED
    BY <1>1, <1>2, <2>1, LinkCreateAccount
<1>8. CASE Suicide(a) /\ Follow(SameAccount(a), Rep!Suicide(a))
  <2>1. ~diverged' /\ Suicide(a) /\ Rep!Suicide(a)
    BY <1>2, <1>8 DEF Follow
  <2> QED
    BY <1>1, <1>2, <2>1, LinkSuicide
<1>9. ASSUME NEW k \in Key, GetState(a, k) /\ Follow(SameSlot(a, k), Rep!GetState(a, k))
      PROVE  ~diverged' /\ Linked'
  <2>1. k \in Keys(a) /\ SameSlot(a, k)
    BY <1>1, <1>2, <1>9, SlotInStep DEF GetState
  <2>2. ~diverged' /\ GetState(a, k) /\ Rep!GetState(a, k)
    BY <1>2, <1>9, <2>1 DEF Follow
  <2>3. rPre' = preAlloc'
    BY <1>2, <2>2, SamePreAlloc DEF GetState, Rep!GetState
  <2>4. rTouched' = touched'
    <3>1. Live(a) /\ Touch(a, k) /\ Rep!Touch(a, k)
      BY <2>2 DEF GetState, Rep!GetState, Code
    <3> QED
      BY <1>2, <3>1, SameTouched
  <2>5. rDirties' = dirties' /\ UNCHANGED <<objects, rObjects, revisions, rRevisions>>
    BY <1>2, <2>2 DEF GetState, Rep!GetState, Linked
  <2> QED
    BY <1>1, <1>2, <2>2, <2>3, <2>4, <2>5, LinkRead
<1>10. ASSUME NEW k \in Key, NEW v \in Val,
              SetState(a, k, v) /\ Follow(SameSlot(a, k), Rep!SetState(a, k, v))
       PROVE  ~diverged' /\ Linked'
  <2>1. k \in Keys(a) /\ SameSlot(a, k)
    BY <1>1, <1>2, <1>10, SlotInStep DEF SetState
  <2>2. ~diverged' /\ SetState(a, k, v) /\ Rep!SetState(a, k, v)
    BY <1>2, <1>10, <2>1 DEF Follow
  <2> QED
    BY <1>1, <1>2, <2>1, <2>2, LinkSetState
<1> QED
  BY <1>3, <1>4, <1>5, <1>6, <1>7, <1>8, <1>9, <1>10 DEF ReplayOp

(* The operations of a transaction.                                        *)
LEMMA ReplayOperate ==
  ASSUME TypeOK, RecInv, InStepInv, ROperate
  PROVE  InStepInv'
<1>1. phase = "run" /\ UNCHANGED <<tx, input>>
  BY DEF ROperate, ReplayOp, Follow
<1>2. phase' = "run" /\ pre' = pre
  BY <1>1 DEF tx
<1>3. /\ LifeInv(objects, dirties)
      /\ \A i \in 1 .. Len(revisions) : LifeInv(revisions[i].objects, revisions[i].dirties)
      /\ \A a \in DOMAIN input : DOMAIN input[a].storage \subseteq Key
      /\ Compatible => ~diverged /\ Linked
  BY <1>1 DEF InStepInv
<1>4. \A obs, ds : LifeInv(obs, ds)' = LifeInv(obs, ds)
  BY <1>2 DEF LifeInv, Contract
<1> SUFFICES /\ LifeInv(objects, dirties)'
             /\ \A i \in 1 .. Len(revisions') : LifeInv(revisions'[i].objects, revisions'[i].dirties)
             /\ Compatible' => ~diverged' /\ Linked'
  BY <1>1, <1>2, <1>3, <1>4 DEF InStepInv, ReplayIsFaithful
<1>5. ASSUME NEW a \in Addr, ReplayOp(a)
      PROVE  /\ LifeInv(objects, dirties)' /\ UNCHANGED revisions
             /\ Compatible' => ~diverged' /\ Linked'
  <2>1. StateOp(a)
    BY <1>5 DEF ReplayOp, StateOp
  <2>2. LifeInv(objects, dirties)' /\ UNCHANGED revisions
    BY <1>1, <1>3, <2>1, LifeOp
  <2>3. Compatible' => ~diverged' /\ Linked'
    BY <1>1, <1>5, LinkOp
  <2> QED
    BY <2>2, <2>3
<1>6. revisions \in Seq(Revision) /\ Len(revisions) \in Nat
  BY LenProperties DEF TypeOK
<1>7. CASE Snapshot /\ Follow(TRUE, Rep!Snapshot)
  <2>1. /\ UNCHANGED <<objects, dirties, touched, preAlloc>>
        /\ revisions' = Append(revisions, [objects |-> objects, dirties |-> dirties])
    BY <1>7 DEF Snapshot
  <2>2. LifeInv(objects, dirties)'
    BY <1>2, <1>3, <2>1 DEF LifeInv, Contract
  <2>3. ASSUME NEW i \in 1 .. Len(revisions')
        PROVE  LifeInv(revisions'[i].objects, revisions'[i].dirties)
    <3>1. CASE i \in 1 .. Len(revisions)
      <4>1. revisions'[i] = revisions[i]
        BY <1>6, <2>1, <3>1
      <4> QED
        BY <1>3, <3>1, <4>1
    <3>2. CASE i = Len(revisions) + 1
      <4>1. revisions'[i] = [objects |-> objects, dirties |-> dirties]
        BY <1>6, <2>1, <3>2
      <4> QED
        BY <1>3, <4>1
    <3> QED
      BY <1>6, <2>1, <3>1, <3>2
  <2>4. ASSUME Compatible' PROVE ~diverged' /\ Linked'
    <3>1. Compatible
      BY <1>1, <2>1, <2>4, StillCompatible
    <3>2. ~diverged' /\ Snapshot /\ Rep!Snapshot /\ Linked
      BY <1>3, <1>7, <3>1 DEF Follow
    <3> QED
      BY <1>1, <3>2, LinkSnapshot
  <2> QED
    BY <2>2, <2>3, <2>4
<1>8. ASSUME NEW n \in 1 .. Len(revisions), RevertToSnapshot(n) /\ Follow(TRUE, Rep!RevertToSnapshot(n))
      PROVE  /\ LifeInv(objects, dirties)'
             /\ \A i \in 1 .. Len(revisions') : LifeInv(revisions'[i].objects, revisions'[i].dirties)
             /\ Compatible' => ~diverged' /\ Linked'
  <2>1. /\ objects' = revisions[n].objects /\ dirties' = revisions[n].dirties
        /\ revisions' = SubSeq(revisions, 1, n - 1) /\ UNCHANGED <<touched, preAlloc>>
    BY <1>8 DEF RevertToSnapshot
  <2>2. LifeInv(objects', dirties')
    BY <1>3, <2>1
  <2>3. LifeInv(objects, dirties)'
    BY <1>2, <2>2 DEF LifeInv, Contract
  <2>4. Len(revisions') = n - 1 /\ \A i \in 1 .. n - 1 : revisions'[i] = revisions[i]
    BY <1>6, <2>1, SubSeqProperties
  <2>5. \A i \in 1 .. Len(revisions') : LifeInv(revisions'[i].objects, revisions'[i].dirties)
    BY <1>3, <1>6, <2>4
  <2>6. ASSUME Compatible' PROVE ~diverged' /\ Linked'
    <3>1. Compatible
      BY <1>1, <2>1, <2>6, StillCompatible
    <3>2. ~diverged' /\ RevertToSnapshot(n) /\ Rep!RevertToSnapshot(n) /\ Linked
      BY <1>3, <1>8, <3>1 DEF Follow
    <3> QED
      BY <1>1, <3>2, LinkRevert
  <2> QED
    BY <2>3, <2>5, <2>6
<1> QED
  BY <1>3, <1>5, <1>7, <1>8 DEF ROperate

-----------------------------------------------------------------------------
(* The start and the end of a transaction.                                 *)

(* What a recorded alloc holds of the accounts s.                          *)
LEMMA InputFields ==
  ASSUME NEW s, NEW alloc \in InputAllocs(s), NEW a \in DOMAIN alloc
  PROVE  /\ a \in Addr /\ s[a] # None
         /\ alloc[a].bal = s[a].bal /\ alloc[a].code = s[a].code
         /\ DOMAIN alloc[a].storage \subseteq Key
         /\ \A k \in DOMAIN alloc[a].storage : alloc[a].storage[k] = s[a].storage[k]
         /\ \A st : [alloc[a] EXCEPT !.storage = st] = Account(s[a].bal, s[a].code, st)
<1>1. PICK D \in SUBSET {x \in Addr : s[x] # None} : \E ks \in [D -> SUBSET Key] :
          alloc = [x \in D |-> Account(s[x].bal, s[x].code, [k \in ks[x] |-> s[x].storage[k]])]
  BY DEF InputAllocs
<1>2. PICK ks \in [D -> SUBSET Key] :
          alloc = [x \in D |-> Account(s[x].bal, s[x].code, [k \in ks[x] |-> s[x].storage[k]])]
  BY <1>1
<1>3. a \in D /\ ks[a] \subseteq Key
        /\ alloc[a] = Account(s[a].bal, s[a].code, [k \in ks[a] |-> s[a].storage[k]])
  BY <1>2
<1> QED
  BY <1>3 DEF Account

(* What MakeOffTheChainStateDB makes of an account of the alloc.           *)
LEMMA OpenAccount ==
  ASSUME NEW s, NEW alloc \in InputAllocs(s), NEW a \in DOMAIN alloc, s[a] \in AnyAccount
  PROVE  LET r == Open(alloc)[a] IN
         /\ r \in Object /\ r.id = 0 /\ ~r.deleted /\ ~r.suicided
         /\ r.bal = s[a].bal /\ r.code = s[a].code /\ r.committed = r.storage
         /\ r.storage = [k \in Key |-> IF k \in DOMAIN alloc[a].storage THEN s[a].storage[k] ELSE 0]
<1> DEFINE st == [k \in Key |-> IF k \in DOMAIN alloc[a].storage THEN alloc[a].storage[k] ELSE 0]
           r  == Open(alloc)[a]
<1>1. a \in Addr /\ [alloc[a] EXCEPT !.storage = st] = Account(s[a].bal, s[a].code, st)
  BY InputFields
<1>2. st = [k \in Key |-> IF k \in DOMAIN alloc[a].storage THEN s[a].storage[k] ELSE 0]
  BY InputFields
<1>3. st \in [Key -> Val]
  BY <1>2, StateAssumption DEF AnyAccount, Val
<1>4. r = Load([alloc[a] EXCEPT !.storage = st])
  BY <1>1 DEF Open
<1> HIDE DEF st
<1>5. r = Load(Account(s[a].bal, s[a].code, st))
  BY <1>1, <1>4
<1> HIDE DEF r
<1>6. /\ r.id = 0 /\ ~r.deleted /\ ~r.suicided
      /\ r.bal = s[a].bal /\ r.code = s[a].code /\ r.storage = st /\ r.committed = st
  BY <1>5 DEF Load, Account
<1>7. r \in Object
  <2>1. s[a].bal \in 0 .. MaxBal /\ s[a].code \in {0, 1} /\ 0 \in 0 .. MaxObj
    BY StateAssumption DEF AnyAccount
  <2> QED
    BY <1>3, <1>5, <2>1 DEF Load, Account, Object
<1> QED
  BY <1>2, <1>6, <1>7 DEF r

(* Prepare and MakeOffTheChainStateDB leave two StateDBs in step.          *)
LEMMA ReplayStart ==
  ASSUME TypeOK, RecInv, InStepInv, TypeOK', RecInv', RStartTx
  PROVE  InStepInv'
<1>1. /\ phase # "run" /\ phase' = "run" /\ IdleInv
      /\ pre' = [a \in Addr |-> View(a)]
      /\ objects' = [a \in Addr |-> IF objects[a] = None THEN None ELSE [objects[a] EXCEPT !.id = 0]]
      /\ touched' = Untouched /\ preAlloc' = EmptyAlloc
      /\ dirties' = dirties /\ revisions' = revisions
  BY DEF RStartTx, StartTx, Prepare, RecInv
<1>2. /\ input' \in InputAllocs(pre') /\ rObjects' = Open(input') /\ diverged' = FALSE
      /\ rTouched' = Untouched /\ rDirties' = {} /\ rRevisions' = <<>> /\ rPre' = EmptyAlloc
  BY DEF RStartTx, Fresh
<1>3. dirties' = {} /\ revisions' = <<>>
  BY <1>1 DEF IdleInv
<1>4. ASSUME NEW a \in Addr, Live(a)
      PROVE  /\ objects[a] \in Object /\ objects'[a] \in Object
             /\ Present(objects'[a]) /\ objects'[a].id = 0 /\ ~objects'[a].suicided
             /\ pre'[a] # None /\ pre'[a] \in AnyAccount
             /\ objects'[a].bal = pre'[a].bal /\ objects'[a].code = pre'[a].code
             /\ objects'[a].storage = pre'[a].storage /\ objects'[a].committed = pre'[a].storage
  <2>1. /\ objects[a] \in Object /\ objects[a] # None /\ ~objects[a].deleted /\ ~objects[a].suicided
        /\ objects[a].storage = objects[a].committed
    BY <1>1, <1>4 DEF InStepInv, Live, TypeOK, IdleInv
  <2>2. objects'[a] = [objects[a] EXCEPT !.id = 0]
    BY <1>1, <2>1
  <2>3. pre'[a] = Account(objects[a].bal, objects[a].code, objects[a].storage)
    BY <1>1, <1>4 DEF View
  <2>4. pre'[a] \in AnyAccount
    BY <2>1, <2>3 DEF Account, AnyAccount, Object
  <2>5. pre'[a] # None
    BY <2>4, AnyAccountExists
  <2>6. objects'[a] \in Object
    BY <2>1, <2>2, StateAssumption DEF Object
  <2>7. /\ pre'[a].bal = objects[a].bal /\ pre'[a].code = objects[a].code
        /\ pre'[a].storage = objects[a].storage
    BY Z3T(30), <2>3 DEF Account
  <2>8. /\ objects'[a].id = 0 /\ objects'[a].bal = objects[a].bal /\ objects'[a].code = objects[a].code
        /\ objects'[a].suicided = objects[a].suicided /\ objects'[a].deleted = objects[a].deleted
        /\ objects'[a].storage = objects[a].storage /\ objects'[a].committed = objects[a].committed
    BY <2>1, <2>2 DEF Object
  <2>9. objects'[a] # None
    BY <2>6, StateAssumption
  <2> QED
    BY <2>1, <2>4, <2>5, <2>6, <2>7, <2>8, <2>9 DEF Present
<1>5. ASSUME NEW a \in Addr, ~Live(a)
      PROVE  pre'[a] = None /\ ~Present(objects'[a]) /\ Id(objects'[a]) = 0
  <2>1. pre'[a] = None
    BY <1>1, <1>5 DEF View
  <2>2. CASE objects[a] = None
    BY <1>1, <2>1, <2>2 DEF Present, Id
  <2>3. CASE objects[a] # None
    <3>1. objects[a] \in Object /\ objects[a].deleted
      BY <1>5, <2>3 DEF Live, TypeOK
    <3>2. objects'[a] = [objects[a] EXCEPT !.id = 0]
      BY <1>1, <2>3
    <3>3. objects'[a].deleted /\ objects'[a].id = 0
      BY <3>1, <3>2 DEF Object
    <3> QED
      BY <2>1, <3>3 DEF Present, Id
  <2> QED
    BY <2>2, <2>3
<1>6. LifeInv(objects, dirties)'
  <2> SUFFICES ASSUME NEW a \in Addr
               PROVE  /\ Contract(a)' => objects'[a].id = 0
                      /\ ~(Present(objects'[a]) /\ objects'[a].suicided)
    BY DEF LifeInv, Present
  <2>1. CASE Live(a)
    BY <1>4, <2>1
  <2>2. CASE ~Live(a)
    BY <1>5, <2>2 DEF Contract
  <2> QED
    BY <2>1, <2>2
<1>7. rObjects' \in [Addr -> Object \cup {None}]
  <2>1. ASSUME NEW a \in Addr PROVE Open(input')[a] \in Object \cup {None}
    <3>1. CASE a \in DOMAIN input'
      <4>1. pre'[a] # None
        BY <1>2, <3>1, InputFields
      <4>2. pre'[a] \in AnyAccount
        BY <1>4, <1>5, <4>1
      <4> QED
        BY <1>2, <3>1, <4>2, OpenAccount
    <3>2. CASE a \notin DOMAIN input'
      BY <3>2 DEF Open
    <3> QED
      BY <3>1, <3>2
  <2>2. Open(input') = [a \in Addr |-> Open(input')[a]]
    BY DEF Open
  <2> HIDE DEF Open
  <2> QED
    BY <1>2, <2>1, <2>2
<1>8. ASSUME NEW a \in Addr, Known(a)' PROVE Same(a, objects[a], rObjects[a])'
  <2>1. CASE ~Live(a)
    <3>1. a \notin DOMAIN input'
      BY <1>2, <1>5, <2>1, InputFields
    <3>2. rObjects'[a] = None
      BY <1>2, <3>1 DEF Open
    <3> QED
      BY <1>5, <2>1, <3>2 DEF Same, Present, Id
  <2>2. CASE Live(a)
    <3>1. a \in DOMAIN input' /\ pre'[a] \in AnyAccount
      BY <1>4, <1>8, <2>2 DEF Known
    <3> DEFINE r == rObjects'[a]
    <3>2. /\ r \in Object /\ r.id = 0 /\ ~r.deleted /\ ~r.suicided
          /\ r.bal = pre'[a].bal /\ r.code = pre'[a].code /\ r.committed = r.storage
          /\ r.storage = [k \in Key |-> IF k \in DOMAIN input'[a].storage THEN pre'[a].storage[k] ELSE 0]
      BY Z3T(30), <1>2, <3>1, OpenAccount
    <3>3. DOMAIN input'[a].storage \subseteq Key
      BY <1>2, <3>1, InputFields
    <3>4. \A k \in Keys(a)' : r.storage[k] = pre'[a].storage[k]
      <4>1. CASE Contract(a)'
        BY <3>2, <3>3, <4>1 DEF Keys
      <4>2. CASE ~Contract(a)'
        <5>1. pre'[a] \in Accounts /\ pre'[a].code = 0
          BY <1>4, <2>2, <4>2 DEF RecInv, Contract, AnyAccount
        <5>2. pre'[a].storage = NoStorage
          BY <5>1 DEF Accounts
        <5> QED
          BY <3>2, <4>2, <5>2 DEF Keys, NoStorage
      <4> QED
        BY <4>1, <4>2
    <3>5. Present(r) /\ Id(r) = 0 /\ Id(objects'[a]) = 0
      BY <1>4, <2>2, <3>2, StateAssumption DEF Present, Id
    <3>6. /\ Present(objects'[a]) /\ objects'[a].bal = r.bal /\ objects'[a].code = r.code
          /\ objects'[a].suicided = r.suicided
      <4>1. objects'[a].suicided = FALSE /\ r.suicided = FALSE
        BY <1>4, <2>2, <3>2 DEF Object
      <4> QED
        BY <1>4, <2>2, <3>2, <4>1
    <3>7. \A k \in Keys(a)' : objects'[a].storage[k] = r.storage[k] /\ objects'[a].committed[k] = r.committed[k]
      <4>1. r.committed = r.storage
        BY <3>2
      <4> HIDE DEF r
      <4> QED
        BY <1>4, <2>2, <3>4, <4>1
    <3> QED
      BY <3>5, <3>6, <3>7 DEF Same
  <2> QED
    BY <2>1, <2>2
<1>9. Linked'
  <2>1. Agree(objects, rObjects)'
    BY <1>8 DEF Agree
  <2>2. rRevisions' \in Seq(Revision) /\ Len(rRevisions') = 0 /\ Len(revisions') = 0
    BY <1>2, <1>3
  <2> QED
    BY <1>1, <1>2, <1>3, <1>7, <2>1, <2>2 DEF Linked
<1>10. \A a \in DOMAIN input' : DOMAIN input'[a].storage \subseteq Key
  BY <1>2, InputFields
<1>11. Len(revisions') = 0
  BY <1>3
<1> QED
  BY <1>1, <1>2, <1>6, <1>9, <1>10, <1>11 DEF InStepInv, ReplayIsFaithful

(* A transaction that ends with input as its record has been compatible    *)
(* with it all along.                                                      *)
LEMMA RecordedIsCompatible ==
  ASSUME TypeOK, RecInv, InStepInv, EndTx, preAlloc' = input
  PROVE  Compatible
<1>1. phase = "run" /\ preAlloc' = [a \in PreAccounts |-> PreRecord(a)]
  BY DEF EndTx, Finalise
<1>2. ASSUME NEW a \in DOMAIN preAlloc, pre[a] # None
      PROVE  /\ a \in DOMAIN input
             /\ DOMAIN input[a].storage = touched[a][objects[a].id]
  <2>1. a \in PreAccounts
    BY <1>2 DEF RecInv, InputIsPreState, PreAccounts
  <2>2. input[a] = PreRecord(a) /\ a \in DOMAIN input
    BY <1>1, <2>1
  <2> QED
    BY Z3T(30), <2>2, AccountFields DEF PreRecord, TouchedStorage
<1>3. \A a \in Addr : Contract(a) => objects[a].id = 0
  BY <1>1 DEF InStepInv, LifeInv
<1>4. DOMAIN preAlloc \subseteq Addr
  BY DEF TypeOK
<1> QED
  BY <1>2, <1>3, <1>4 DEF Compatible, Known, Keys, Contract

(* Finalise records the same of an account in both StateDBs.               *)
LEMMA SameRecord ==
  ASSUME TypeOK, RecInv, InStepInv, phase = "run", Compatible, NEW a \in PreAccounts \cup dirties
  PROVE  /\ Deletes(a) <=> Rep!Deletes(a)
         /\ PostRecord(a) = Rep!PostRecord(a)
<1>1. Linked
  BY DEF InStepInv
<1>2. a \in DOMAIN preAlloc /\ a \in Addr
  BY DEF RecInv, PreAccounts, TypeOK
<1>3. Known(a)
  BY <1>2 DEF Compatible
<1>4. Present(objects[a])
  BY <1>2 DEF RecInv, ObjInv, PreAccounts, InputIsPreState, Present
<1>5. Same(a, objects[a], rObjects[a])
  BY <1>1, <1>2, <1>3, SameGetters
<1>6. /\ objects[a].bal = rObjects[a].bal /\ objects[a].code = rObjects[a].code
      /\ objects[a].suicided = rObjects[a].suicided /\ objects[a].id = rObjects[a].id
      /\ \A k \in Keys(a) : /\ objects[a].storage[k] = rObjects[a].storage[k]
                            /\ objects[a].committed[k] = rObjects[a].committed[k]
  BY <1>4, <1>5 DEF Same, Present, Id
<1>7. touched[a][objects[a].id] \subseteq Keys(a)
  <2>1. CASE Contract(a)
    BY <1>2, <2>1 DEF Compatible, InStepInv, LifeInv
  <2>2. CASE ~Contract(a)
    <3>1. objects[a].id \in 0 .. MaxObj
      BY <1>2, <1>4, ObjectType DEF Present
    <3> QED
      BY <1>2, <2>2, <3>1, TouchedType DEF Keys
  <2> QED
    BY <2>1, <2>2
<1>8. rTouched = touched /\ rDirties = dirties /\ rPre = preAlloc
  BY <1>1 DEF Linked
<1>9. Deletes(a) <=> Rep!Deletes(a)
  BY <1>6, <1>8 DEF Deletes, Rep!Deletes, Empty, Rep!Empty
<1>10. /\ TouchedStorage(a, objects[a].storage) = Rep!TouchedStorage(a, rObjects[a].storage)
       /\ TouchedStorage(a, objects[a].committed) = Rep!TouchedStorage(a, rObjects[a].committed)
  BY <1>6, <1>7, <1>8 DEF TouchedStorage, Rep!TouchedStorage
<1>11. PostRecord(a) = Rep!PostRecord(a)
  BY <1>6, <1>8, <1>10 DEF PostRecord, Rep!PostRecord, PreRecord, Rep!PreRecord, Account, Rep!Account
<1> QED
  BY <1>9, <1>11

(* Finalise: replayTask compares the two OutputAllocs.                     *)
LEMMA ReplayEnd ==
  ASSUME TypeOK, RecInv, InStepInv, REndTx
  PROVE  InStepInv'
<1>1. EndTx /\ phase = "run" /\ phase' = "done" /\ UNCHANGED <<input, diverged>>
  BY DEF REndTx, EndTx
<1>2. ASSUME NEW a \in Addr, Live(a)' PROVE ~objects'[a].suicided
  <2>1. LifeInv(objects, dirties)
    BY <1>1 DEF InStepInv
  <2>2. objects'[a] = IF a \notin dirties THEN objects[a]
                      ELSE IF Deletes(a) THEN [objects[a] EXCEPT !.deleted = TRUE]
                      ELSE [objects[a] EXCEPT !.committed = objects[a].storage]
    BY <1>1 DEF EndTx, Finalise
  <2>3. CASE a \notin dirties
    <3>1. objects'[a] = objects[a]
      BY <2>2, <2>3
    <3> QED
      BY <1>2, <2>1, <2>3, <3>1 DEF LifeInv, Live
  <2>4. CASE a \in dirties
    <3>1. objects[a] \in Object
      BY <1>1, <2>4 DEF RecInv, ObjInv, TypeOK
    <3>2. CASE Deletes(a)
      <4>1. objects'[a].deleted = TRUE
        BY <2>2, <2>4, <3>1, <3>2 DEF Object
      <4> QED
        BY <1>2, <4>1 DEF Live
    <3>3. CASE ~Deletes(a)
      <4>1. objects'[a].suicided = objects[a].suicided
        BY <2>2, <2>4, <3>1, <3>3 DEF Object
      <4> QED
        BY <2>4, <3>3, <4>1 DEF Deletes
    <3> QED
      BY <3>2, <3>3
  <2> QED
    BY <2>3, <2>4
<1>3. ASSUME preAlloc' = input' PROVE ~diverged' /\ rPost' = postAlloc'
  <2>1. Compatible
    BY <1>1, <1>3, RecordedIsCompatible
  <2>2. ~diverged /\ Linked
    BY <1>1, <2>1 DEF InStepInv
  <2>3. Rep!Finalise /\ Finalise
    BY <1>1, <2>2 DEF REndTx, EndTx
  <2>4. rDirties = dirties /\ Rep!PreAccounts = PreAccounts
    BY <2>2 DEF Linked, PreAccounts, Rep!PreAccounts
  <2> DEFINE D == {x \in PreAccounts \cup dirties : ~Deletes(x)}
  <2>5. {x \in Rep!PreAccounts \cup rDirties : ~Rep!Deletes(x)} = D
    BY <1>1, <2>1, <2>4, SameRecord
  <2>6. rPost' = [a \in D |-> Rep!PostRecord(a)] /\ postAlloc' = [a \in D |-> PostRecord(a)]
    BY <2>3, <2>5 DEF Finalise, Rep!Finalise
  <2>7. \A a \in D : PostRecord(a) = Rep!PostRecord(a)
    BY <1>1, <2>1, SameRecord
  <2> QED
    BY <1>1, <2>2, <2>6, <2>7
<1> QED
  BY <1>1, <1>2, <1>3 DEF InStepInv, ReplayIsFaithful

-----------------------------------------------------------------------------
(* The theorems.                                                           *)

(* A StateDB fresh from the trie has no suicided object.                   *)
LEMMA InStepInvInit == RInit => InStepInv
<1> SUFFICES ASSUME RInit PROVE InStepInv
  OBVIOUS
<1>1. phase = "idle" /\ Init
  BY DEF RInit, Init
<1>2. PICK s \in [Addr -> Accounts \cup {None}] : objects = Start(s)
  BY <1>1 DEF Init
<1>3. ASSUME NEW a \in Addr, Live(a) PROVE ~objects[a].suicided
  BY <1>2, <1>3 DEF Start, Live, Load
<1> QED
  BY <1>1, <1>3 DEF InStepInv, ReplayIsFaithful

(* Every step of the recorder and the replay keeps them in step.           *)
LEMMA InStepInvStep ==
  ASSUME TypeOK, RecInv, InStepInv, [RNext]_rvars
  PROVE  (TypeOK /\ RecInv /\ InStepInv)'
<1>1. TypeOK' /\ RecInv'
  BY ReplayStep, TypeStep, RecInvStep
<1>2. CASE RStartTx
  BY <1>1, <1>2, ReplayStart
<1>3. CASE ROperate
  BY <1>1, <1>3, ReplayOperate
<1>4. CASE REndTx
  BY <1>1, <1>4, ReplayEnd
<1>5. CASE UNCHANGED rvars
  <2>1. UNCHANGED <<objects, touched, dirties, revisions, preAlloc, postAlloc, phase, pre, rObjects,
                    rTouched, rDirties, rRevisions, rPre, rPost, input, diverged>>
    BY <1>5 DEF rvars, vars, sdb, tx, rsdb
  <2>2. \A x : Known(x)' = Known(x) /\ Keys(x)' = Keys(x) /\ Contract(x)' = Contract(x)
               /\ Live(x)' = Live(x)
    BY <2>1 DEF Known, Keys, Contract, Live
  <2>3. \A x, u, v : Same(x, u, v)' = Same(x, u, v)
    BY Z3T(30), <2>2 DEF Same, Present, Id
  <2>4. \A u, v : Agree(u, v)' = Agree(u, v) /\ LifeInv(u, v)' = LifeInv(u, v)
    BY <2>2, <2>3 DEF Agree, LifeInv
  <2>5. LifeInv(objects, dirties)' = LifeInv(objects, dirties)
    BY <2>1, <2>2 DEF LifeInv
  <2>6. Linked' = Linked /\ Compatible' = Compatible /\ ReplayIsFaithful' = ReplayIsFaithful
    BY <2>1, <2>2, <2>4 DEF Linked, Compatible, ReplayIsFaithful
  <2> QED
    BY <1>1, <2>1, <2>2, <2>4, <2>5, <2>6 DEF InStepInv
<1> QED
  BY <1>1, <1>2, <1>3, <1>4, <1>5 DEF RNext

(* The two StateDBs are in step, in every state of every replay, as long   *)
(* as what is being recorded can still be the replay's input.              *)
THEOREM ReplayStaysInStep == RSpec => [](TypeOK /\ ReplayInv)
<1>1. RInit => TypeOK /\ RecInv /\ InStepInv
  BY InitStep, InStepInvInit DEF RInit
<1>2. TypeOK /\ RecInv /\ InStepInv /\ [RNext]_rvars => (TypeOK /\ RecInv /\ InStepInv)'
  BY InStepInvStep
<1> QED
  BY <1>1, <1>2, PTL DEF RSpec, ReplayInv

(* replayTask never reports "inconsistent output" for a recorded           *)
(* transaction: on its InputAlloc every operation returns what it returned *)
(* on the chain, and Finalise leaves the recorded OutputAlloc.             *)
THEOREM ReplaysAreFaithful == RSpec => []ReplayIsFaithful
<1>1. ReplayInv => ReplayIsFaithful
  BY DEF ReplayInv, InStepInv
<1> QED
  BY <1>1, ReplayStaysInStep, PTL
=============================================================================
