---------------------------- MODULE RecordReplay ----------------------------
(***************************************************************************)
(* replayTask (cmd/substate-cli/replay/replay.go) against the recorder: a  *)
(* second StateDB, opened on an InputAlloc, performs the same operations.  *)
(* input is chosen when the transaction starts, among all the allocs that  *)
(* could be recorded; the replay counts when the recorder ends up with it. *)
(***************************************************************************)
EXTENDS Recorder

VARIABLES
    rObjects, rTouched, rDirties, rRevisions, rPre, rPost,  \* the replaying StateDB
    input,      \* substate.InputAlloc
    diverged    \* an operation returned something else than when recorded

rsdb  == <<rObjects, rTouched, rDirties, rRevisions, rPre, rPost>>
rvars == <<vars, rsdb, input, diverged>>

Rep == INSTANCE StateDB WITH
    objects <- rObjects, touched <- rTouched, dirties <- rDirties,
    revisions <- rRevisions, preAlloc <- rPre, postAlloc <- rPost

(* The allocs the recorder could save for a transaction that starts in s.  *)
InputAllocs(s) ==
    UNION {{[a \in D |-> Account(s[a].bal, s[a].code, [k \in ks[a] |-> s[a].storage[k]])] :
               ks \in [D -> SUBSET Key]} : D \in SUBSET {a \in Addr : s[a] # None}}

(* A fresh StateDB, made by MakeOffTheChainStateDB and prepared.           *)
Fresh(alloc) ==
    /\ rObjects' = Open(alloc)
    /\ rTouched' = Untouched /\ rDirties' = {} /\ rRevisions' = <<>>
    /\ rPre' = EmptyAlloc /\ rPost' = EmptyAlloc

RInit ==
    /\ Init
    /\ rObjects = [a \in Addr |-> None] /\ rTouched = Untouched
    /\ rDirties = {} /\ rRevisions = <<>> /\ rPre = EmptyAlloc /\ rPost = EmptyAlloc
    /\ input = EmptyAlloc /\ diverged = FALSE

RStartTx ==
    /\ StartTx
    /\ input' \in InputAllocs(pre')
    /\ Fresh(input')
    /\ diverged' = FALSE

(* The replay performs act as long as it has seen what the recorder saw.   *)
Follow(same, act) ==
    /\ IF diverged \/ ~same
       THEN diverged' = TRUE /\ Fresh(EmptyAlloc)
       ELSE diverged' = FALSE /\ act
    /\ UNCHANGED <<tx, input>>

SameAccount(a) == Seen(a) = Rep!Seen(a)
SameSlot(a, k) == SameAccount(a) /\ Slot(a, k) = Rep!Slot(a, k)

ReplayOp(a) ==
    \/ Lookup(a) /\ Follow(SameAccount(a), Rep!Lookup(a))
    \/ \E n \in {0, 1} : AddBalance(a, n) /\ Follow(SameAccount(a), Rep!AddBalance(a, n))
    \/ \E n \in {0, 1} : SubBalance(a, n) /\ Follow(SameAccount(a), Rep!SubBalance(a, n))
    \/ SetCode(a) /\ Follow(SameAccount(a), Rep!SetCode(a))
    \/ CreateAccount(a) /\ Follow(SameAccount(a), Rep!CreateAccount(a))
    \/ Suicide(a) /\ Follow(SameAccount(a), Rep!Suicide(a))
    \/ \E k \in Key : GetState(a, k) /\ Follow(SameSlot(a, k), Rep!GetState(a, k))
    \/ \E k \in Key, v \in Val :
          SetState(a, k, v) /\ Follow(SameSlot(a, k), Rep!SetState(a, k, v))

ROperate ==
    /\ phase = "run"
    /\ \/ \E a \in Addr : ReplayOp(a)
       \/ Snapshot /\ Follow(TRUE, Rep!Snapshot)
       \/ \E i \in 1 .. Len(revisions) :
             RevertToSnapshot(i) /\ Follow(TRUE, Rep!RevertToSnapshot(i))

REndTx ==
    /\ EndTx
    /\ IF diverged THEN UNCHANGED rsdb ELSE Rep!Finalise
    /\ UNCHANGED <<input, diverged>>

RNext == RStartTx \/ ROperate \/ REndTx

RSpec == RInit /\ [][RNext]_rvars

-----------------------------------------------------------------------------
(* A transaction replayed on its recorded InputAlloc sees every account    *)
(* and slot as it did on the chain, and ends with the recorded OutputAlloc:*)
(* replayTask reports "inconsistent output" for no recorded transaction.   *)
ReplayIsFaithful ==
    phase = "done" /\ preAlloc = input => ~diverged /\ rPost = postAlloc

(* Why it holds.  An account the trie has as a contract keeps its object   *)
(* (id 0) for the whole transaction, and only dirty objects are suicided,  *)
(* now and in every revision.                                              *)
Contract(a) == pre[a] # None /\ pre[a].code = 1
LifeInv(obs, ds) ==
    \A a \in Addr :
        /\ Contract(a) => obs[a].id = 0
        /\ obs[a] # None /\ ~obs[a].deleted /\ obs[a].suicided => a \in ds

(* What has been recorded so far is in input: as accounts and touched      *)
(* slots are only added, this holds throughout if input is what Finalise   *)
(* leaves.                                                                 *)
Known(a) == pre[a] = None \/ a \in DOMAIN input
Keys(a)  == IF Contract(a) THEN DOMAIN input[a].storage ELSE Key
Compatible ==
    \A a \in DOMAIN preAlloc : Known(a) /\ (Contract(a) => touched[a][0] \subseteq Keys(a))

(* The replaying StateDB has the accounts of input as the recording one    *)
(* has them, but for the slots that input leaves out.                      *)
Present(o) == o # None /\ ~o.deleted
Same(a, o, r) ==
    /\ Present(o) <=> Present(r)
    /\ Id(o) = Id(r)
    /\ Present(o) =>
          /\ o.bal = r.bal /\ o.code = r.code /\ o.suicided = r.suicided
          /\ \A k \in Keys(a) : o.storage[k] = r.storage[k] /\ o.committed[k] = r.committed[k]
Agree(obs, robs) == \A a \in Addr : Known(a) => Same(a, obs[a], robs[a])
Linked ==
    /\ rObjects \in [Addr -> Object \cup {None}] /\ Agree(objects, rObjects)
    /\ rTouched = touched /\ rDirties = dirties /\ rPre = preAlloc
    /\ rRevisions \in Seq(Revision) /\ Len(rRevisions) = Len(revisions)
    /\ \A i \in 1 .. Len(revisions) :
          /\ Agree(revisions[i].objects, rRevisions[i].objects)
          /\ rRevisions[i].dirties = revisions[i].dirties

(* As long as input can be what is being recorded, the two StateDBs are in *)
(* step.                                                                   *)
InStepInv ==
    /\ phase = "run" =>
          /\ LifeInv(objects, dirties)
          /\ \A i \in 1 .. Len(revisions) : LifeInv(revisions[i].objects, revisions[i].dirties)
          /\ \A a \in DOMAIN input : DOMAIN input[a].storage \subseteq Key
          /\ Compatible => ~diverged /\ Linked
    /\ phase # "run" => \A a \in Addr : Live(a) => ~objects[a].suicided
    /\ ReplayIsFaithful

(* The inductive strengthening of ReplayIsFaithful: the recorder's, and    *)
(* the link between the two StateDBs, now and in every revision.           *)
ReplayInv == RecInv /\ InStepInv
=============================================================================
