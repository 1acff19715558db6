----------------------------- MODULE SubstateDB -----------------------------
(***************************************************************************)
(* The writers of a substate DB: the workers of "substate-cli db clone",   *)
(* which read the substates of a source DB.  PutSubstate puts the codes    *)
(* one by one and then the substate.  LevelDB journals the puts in order   *)
(* and PutSubstate does not sync: a crash keeps some prefix of the         *)
(* journal.  The command is then run again from the start.  Workers share  *)
(* keys as TaskPool shares blocks.                                         *)
(*                                                                         *)
(* The state processor under "geth import" puts its substates in the same  *)
(* way, as one worker that does not crash.  After a crash the importer     *)
(* does not start from the beginning: it skips the blocks that its chain   *)
(* DB has (missingBlocks), which is not modelled here.                     *)
(***************************************************************************)
EXTENDS SubstateRLP

CONSTANTS
    Worker, Key,
    Sources,       \* bound: the source DBs to consider
    MaxCrash       \* bound: how often the machine crashes

(* A source is what was once recorded, and by which generation.            *)
ASSUME SourceAssumption ==
    /\ MaxCrash \in Nat
    /\ \A src \in Sources : \A k \in Key :
         src[k].gen \in Generation /\ src[k].sub \in Substate /\ Recordable(src[k].gen, src[k].sub)

VARIABLES
    src,       \* the source, never written
    db,        \* the puts into the DB that is written
    todo,      \* keys that no worker has taken yet
    job,       \* what each worker is writing
    crashes,
    done       \* the command has returned

vars == <<src, db, todo, job, crashes, done>>

(* A worker's job: the substate it puts, and the codes that PutSubstate    *)
(* has still to put, those of the input before those of the output before  *)
(* the init code, each group in any order.                                 *)
Idle == [key |-> Nil, sub |-> Nil, rest |-> <<>>]

(* The source DB has all the codes of its substates.                       *)
SourceCode(h) == CHOOSE c \in MaybeCode : CodeHash(c) = h
Decoded(k) ==
    LET v == DecodeRLP(Encode(src[k].gen, src[k].sub))
    IN  SetRLP(v, [h \in CodeHashes(v) |-> SourceCode(h)])

(* Mutant: the init code is forgotten.                                     *)
CodesToPut_NoInit(s) == <<Range(s.input) \ {Empty}, Range(s.output) \ {Empty}>>

CodesToPut(s) ==
    <<Range(s.input) \ {Empty}, Range(s.output) \ {Empty},
      IF s.msg.to = Nil THEN {s.msg.data} \ {Empty} ELSE {}>>

AllPut(rest) == \A i \in DOMAIN rest : rest[i] = {}

Init ==
    /\ src \in Sources /\ db = <<>> /\ todo = Key
    /\ job = [w \in Worker |-> Idle] /\ crashes = 0 /\ done = FALSE

Take(w, k) ==
    /\ ~done /\ job[w] = Idle /\ k \in todo
    /\ todo' = todo \ {k}
    /\ job' = [job EXCEPT ![w] = [key |-> k, sub |-> Decoded(k), rest |-> CodesToPut(Decoded(k))]]
    /\ UNCHANGED <<src, db, crashes, done>>

PutCode(w, c) ==
    /\ ~done /\ job[w] # Idle
    /\ \E i \in DOMAIN job[w].rest :
         /\ c \in job[w].rest[i] /\ \A j \in 1 .. i - 1 : job[w].rest[j] = {}
         /\ job' = [job EXCEPT ![w].rest[i] = @ \ {c}]
    /\ db' = Append(db, [key |-> CodeKey(CodeHash(c)), value |-> c])
    /\ UNCHANGED <<src, todo, crashes, done>>

(* Mutant: the substate is put before its codes.                           *)
PutSubstate_First(w) ==
    /\ ~done /\ job[w] # Idle /\ ~Has(db, SubstateKey(job[w].key))
    /\ db' = Append(db, [key |-> SubstateKey(job[w].key), value |-> NewSubstateRLP(job[w].sub)])
    /\ job' = IF AllPut(job[w].rest) THEN [job EXCEPT ![w] = Idle] ELSE job
    /\ UNCHANGED <<src, todo, crashes, done>>

(* Mutant: the worker does not go on to the next substate.                 *)
PutSubstate_Stuck(w) ==
    /\ ~done /\ job[w] # Idle /\ AllPut(job[w].rest)
    /\ db' = db /\ UNCHANGED <<src, todo, job, crashes, done>>

PutSubstate(w) ==
    /\ ~done /\ job[w] # Idle /\ AllPut(job[w].rest)
    /\ db' = Append(db, [key |-> SubstateKey(job[w].key), value |-> NewSubstateRLP(job[w].sub)])
    /\ job' = [job EXCEPT ![w] = Idle]
    /\ UNCHANGED <<src, todo, crashes, done>>

Step(w) ==
    \/ \E k \in Key : Take(w, k)
    \/ \E c \in Code : PutCode(w, c)
    \/ PutSubstate(w)

Return ==
    /\ ~done /\ todo = {} /\ \A w \in Worker : job[w] = Idle
    /\ done' = TRUE
    /\ UNCHANGED <<src, db, todo, job, crashes>>

(* The machine stops; clone starts again on what the journal kept.         *)
Crash ==
    /\ ~done /\ crashes < MaxCrash
    /\ \E n \in 0 .. Len(db) : db' = SubSeq(db, 1, n)
    /\ todo' = Key /\ job' = [w \in Worker |-> Idle]
    /\ crashes' = crashes + 1
    /\ UNCHANGED <<src, done>>

Next == (\E w \in Worker : Step(w)) \/ Return \/ Crash

(* Each worker is a goroutine that nothing blocks; Execute returns when    *)
(* they are done (TaskPool).  Crashes are not fair.                        *)
Spec == Init /\ [][Next]_vars /\ (\A w \in Worker : WF_vars(Step(w))) /\ WF_vars(Return)

-----------------------------------------------------------------------------
(* The types of the writers' state.                                        *)
TypeOK ==
    /\ src \in Sources /\ todo \subseteq Key /\ crashes \in 0 .. MaxCrash /\ done \in BOOLEAN
    /\ \A i \in DOMAIN db : DOMAIN db[i] = {"key", "value"}
    /\ \A w \in Worker : job[w] = Idle \/ job[w].key \in Key \ todo

(* At any moment, hence also after a crash at any moment, every substate   *)
(* of the DB refers only to codes of the DB: GetCode does not panic for a  *)
(* substate that HasSubstate finds.                                        *)
NoDanglingCode ==
    \A k \in Key : Has(db, SubstateKey(k)) =>
        \A h \in CodeHashes(Value(db, SubstateKey(k))) :
            h = CodeHash(Empty) \/ Has(db, CodeKey(h))

(* Reading a substate of the copy gives what was once recorded, field by   *)
(* field, whatever generation wrote the source; only the access list of a  *)
(* record from before London is lost, which setBerlinRLP sets to nil.      *)
AsRead(g, s) == IF g = "latest" THEN s ELSE [s EXCEPT !.msg.list = Nil]
CopyReadsAsSource ==
    \A k \in Key : Has(db, SubstateKey(k)) => GetSubstate(db, k) = AsRead(src[k].gen, src[k].sub)

(* When the command returns, every substate is there.                      *)
CompleteWhenDone == done => \A k \in Key : Has(db, SubstateKey(k))

(* The command returns, also after crashes.                                *)
Returns == <>done

(* The contract: a map that holds whole substates or none of them.         *)
Store == [k \in {x \in Key : Has(db, SubstateKey(x))} |-> GetSubstate(db, k)]
Map == INSTANCE SubstateMap WITH goal <- [k \in Key |-> Decoded(k)], store <- Store
ImplementsMap == Map!Spec
=============================================================================
