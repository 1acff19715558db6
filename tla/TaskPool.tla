------------------------------ MODULE TaskPool ------------------------------
(***************************************************************************)
(* SubstateTaskPool.Execute (research/substate_task.go): a producer        *)
(* goroutine, pool.Workers worker goroutines and the calling goroutine,    *)
(* which collects results in block order and then shuts the others down.  *)
(* They share three buffered channels and a WaitGroup.                     *)
(***************************************************************************)
EXTENDS Integers, Sequences, FiniteSets, Functions

CONSTANTS
    Workers,     \* pool.Workers
    First, Last, \* block range of the pool
    ChanFactor,  \* channel slots per worker: 10 in the code
    NumTx,       \* [block -> transactions ExecuteBlock counts when none fails]
    MayFail      \* blocks whose ExecuteBlock may return an error

Blocks == First .. Last
WorkerIds == 1 .. Workers

ASSUME PoolAssumption ==
    /\ Workers \in Nat \ {0}
    /\ First \in Nat /\ Last \in Int
    /\ ChanFactor \in Nat \ {0}
    /\ NumTx \in [Blocks -> Nat]
    /\ MayFail \subseteq Blocks

VARIABLES
    workChan,      \* buffered blocks to execute
    doneChan,      \* buffered results
    stopChan,      \* number of buffered stop tokens
    produced,      \* the producer's loop variable
    pc,            \* control state of each worker
    job,           \* block a busy worker holds
    bad,           \* whether that block's ExecuteBlock returned an error
    workersUp,     \* workers that have not called wg.Done
    producerUp,    \* the producer has not called wg.Done
    main,          \* control state of the calling goroutine
    next,          \* the collector's loop variable
    waitMap,       \* finished blocks not yet counted in order
    sent,          \* stop tokens sent by the deferred shutdown
    result,        \* the value Execute returns
    totalNumBlock, totalNumTx,
    runs,          \* history: how often ExecuteBlock ran on a block
    failed         \* history: blocks whose ExecuteBlock returned an error

chans   == <<workChan, doneChan, stopChan>>
workers == <<pc, job, bad, workersUp>>
prod    == <<produced, producerUp>>
caller  == <<main, next, waitMap, sent, result>>
stats   == <<totalNumBlock, totalNumTx>>
history == <<runs, failed>>
vars    == <<chans, workers, prod, caller, stats, history>>

ChanCap == Workers * ChanFactor
StopCap == Workers
Done    == [block : Blocks, err : BOOLEAN]

Init ==
    /\ workChan = <<>> /\ doneChan = <<>> /\ stopChan = 0
    /\ produced = First /\ producerUp = TRUE
    /\ pc = [w \in WorkerIds |-> "select"]
    /\ job = [w \in WorkerIds |-> First]
    /\ bad = [w \in WorkerIds |-> FALSE]
    /\ workersUp = WorkerIds
    /\ main = "collect" /\ next = First /\ waitMap = {}
    /\ sent = 0 /\ result = "none"
    /\ totalNumBlock = 0 /\ totalNumTx = 0
    /\ runs = [b \in Blocks |-> 0] /\ failed = {}

-----------------------------------------------------------------------------
(* The producer: for block := First; block <= Last; block++ { select }.    *)

Produce ==
    /\ producerUp /\ produced <= Last
    /\ Len(workChan) < ChanCap
    /\ workChan' = Append(workChan, produced)
    /\ produced' = produced + 1
    /\ UNCHANGED <<doneChan, stopChan, producerUp, workers, caller, stats, history>>

ProducerStopped ==
    /\ producerUp /\ produced <= Last
    /\ stopChan > 0
    /\ stopChan' = stopChan - 1
    /\ producerUp' = FALSE
    /\ UNCHANGED <<workChan, doneChan, produced, workers, caller, stats, history>>

ProducerFinished ==
    /\ producerUp /\ produced > Last
    /\ producerUp' = FALSE
    /\ UNCHANGED <<chans, produced, workers, caller, stats, history>>

-----------------------------------------------------------------------------
(* A worker.                                                               *)

(* Mutant: the block is read but not removed from the channel.             *)
TakeBlock_Peeks(w) ==
    /\ w \in workersUp /\ pc[w] = "select"
    /\ workChan # <<>>
    /\ job' = [job EXCEPT ![w] = Head(workChan)]
    /\ pc' = [pc EXCEPT ![w] = "exec"]
    /\ UNCHANGED <<chans, bad, workersUp, prod, caller, stats, history>>

TakeBlock(w) ==
    /\ w \in workersUp /\ pc[w] = "select"
    /\ workChan # <<>>
    /\ job' = [job EXCEPT ![w] = Head(workChan)]
    /\ workChan' = Tail(workChan)
    /\ pc' = [pc EXCEPT ![w] = "exec"]
    /\ UNCHANGED <<doneChan, stopChan, bad, workersUp, prod, caller, stats, history>>

(* What ExecuteBlock(b) may return: the count of transactions and whether  *)
(* it is an error.  Transactions are visited in map order, so an error may *)
(* come before or after any of the others.                                 *)
ExecuteBlockResults(b) ==
    {<<NumTx[b], FALSE>>} \cup
    (IF b \in MayFail THEN {<<n, TRUE>> : n \in 0 .. NumTx[b]} ELSE {})

(* ExecuteBlock and the atomic addition to totalNumTx.                     *)
Execute(w) ==
    /\ pc[w] = "exec"
    /\ \E r \in ExecuteBlockResults(job[w]) :
          /\ totalNumTx' = totalNumTx + r[1]
          /\ bad' = [bad EXCEPT ![w] = r[2]]
          /\ failed' = IF r[2] THEN failed \cup {job[w]} ELSE failed
    /\ runs' = [runs EXCEPT ![job[w]] = @ + 1]
    /\ pc' = [pc EXCEPT ![w] = "count"]
    /\ UNCHANGED <<chans, job, workersUp, prod, caller, totalNumBlock>>

(* Mutant: only successful blocks are counted.                             *)
CountBlock_OnlySuccess(w) ==
    /\ pc[w] = "count"
    /\ totalNumBlock' = totalNumBlock + (IF bad[w] THEN 0 ELSE 1)
    /\ pc' = [pc EXCEPT ![w] = "send"]
    /\ UNCHANGED <<chans, job, bad, workersUp, prod, caller, totalNumTx, history>>

CountBlock(w) ==
    /\ pc[w] = "count"
    /\ totalNumBlock' = totalNumBlock + 1
    /\ pc' = [pc EXCEPT ![w] = "send"]
    /\ UNCHANGED <<chans, job, bad, workersUp, prod, caller, totalNumTx, history>>

SendDone(w) ==
    /\ pc[w] = "send"
    /\ Len(doneChan) < ChanCap
    /\ doneChan' = Append(doneChan, [block |-> job[w], err |-> bad[w]])
    /\ pc' = [pc EXCEPT ![w] = "select"]
    /\ UNCHANGED <<workChan, stopChan, job, bad, workersUp, prod, caller, stats, history>>

(* Mutant: the worker takes the token and goes on (break instead of return). *)
WorkerStopped_Continues(w) ==
    /\ w \in workersUp /\ pc[w] = "select"
    /\ stopChan > 0
    /\ stopChan' = stopChan - 1
    /\ UNCHANGED <<workChan, doneChan, workers, prod, caller, stats, history>>

WorkerStopped(w) ==
    /\ w \in workersUp /\ pc[w] = "select"
    /\ stopChan > 0
    /\ stopChan' = stopChan - 1
    /\ workersUp' = workersUp \ {w}
    /\ UNCHANGED <<workChan, doneChan, pc, job, bad, prod, caller, stats, history>>

-----------------------------------------------------------------------------
(* The calling goroutine: collect in order, then the deferred shutdown.    *)

(* Mutant: the counted block stays in waitMap.                             *)
CountInOrder_Keeps ==
    /\ main = "collect" /\ next <= Last
    /\ next \in waitMap
    /\ next' = next + 1
    /\ UNCHANGED <<chans, workers, prod, main, waitMap, sent, result, stats, history>>

CountInOrder ==
    /\ main = "collect" /\ next <= Last
    /\ next \in waitMap
    /\ waitMap' = waitMap \ {next}
    /\ next' = next + 1
    /\ UNCHANGED <<chans, workers, prod, main, sent, result, stats, history>>

(* Mutant: a result is received and forgotten.                             *)
Collect_Drops ==
    /\ main = "collect" /\ next <= Last
    /\ next \notin waitMap
    /\ doneChan # <<>>
    /\ doneChan' = Tail(doneChan)
    /\ UNCHANGED <<workChan, stopChan, workers, prod, caller, stats, history>>

Collect ==
    /\ main = "collect" /\ next <= Last
    /\ next \notin waitMap
    /\ doneChan # <<>>
    /\ doneChan' = Tail(doneChan)
    /\ IF Head(doneChan).err
       THEN /\ main' = "stop" /\ result' = "err"
            /\ UNCHANGED waitMap
       ELSE /\ waitMap' = waitMap \cup {Head(doneChan).block}
            /\ UNCHANGED <<main, result>>
    /\ UNCHANGED <<workChan, stopChan, workers, prod, next, sent, stats, history>>

(* Mutant: the loop condition is block < Last.                             *)
CollectedAll_Early ==
    /\ main = "collect" /\ next >= Last
    /\ main' = "stop" /\ result' = "nil"
    /\ UNCHANGED <<chans, workers, prod, next, waitMap, sent, stats, history>>

CollectedAll ==
    /\ main = "collect" /\ next > Last
    /\ main' = "stop" /\ result' = "nil"
    /\ UNCHANGED <<chans, workers, prod, next, waitMap, sent, stats, history>>

SendStop ==
    /\ main = "stop" /\ sent < Workers + 1
    /\ stopChan < StopCap
    /\ stopChan' = stopChan + 1
    /\ sent' = sent + 1
    /\ main' = IF sent + 1 = Workers + 1 THEN "wait" ELSE "stop"
    /\ UNCHANGED <<workChan, doneChan, workers, prod, next, waitMap, result, stats, history>>

(* Mutant: wg.Wait is dropped.                                             *)
Return_NoWait ==
    /\ main = "wait"
    /\ main' = "returned"
    /\ UNCHANGED <<chans, workers, prod, next, waitMap, sent, result, stats, history>>

(* wg.Wait, the two closes and the return.                                 *)
Return ==
    /\ main = "wait"
    /\ workersUp = {} /\ ~producerUp
    /\ main' = "returned"
    /\ UNCHANGED <<chans, workers, prod, next, waitMap, sent, result, stats, history>>

-----------------------------------------------------------------------------
Producer  == Produce \/ ProducerStopped \/ ProducerFinished
Worker(w) == TakeBlock(w) \/ Execute(w) \/ CountBlock(w) \/ SendDone(w) \/ WorkerStopped(w)
Caller    == CountInOrder \/ Collect \/ CollectedAll \/ SendStop \/ Return

Next == Producer \/ (\E w \in WorkerIds : Worker(w)) \/ Caller

Spec == Init /\ [][Next]_vars

(* Every goroutine that can run is eventually run by the Go scheduler.     *)
Fairness ==
    /\ WF_vars(Producer) /\ WF_vars(Caller)
    /\ \A w \in WorkerIds : WF_vars(Worker(w))

FairSpec == Spec /\ Fairness

-----------------------------------------------------------------------------
(* Properties.                                                             *)

ChansOK ==
    /\ workChan \in Seq(Blocks) /\ Len(workChan) <= ChanCap
    /\ doneChan \in Seq(Done) /\ Len(doneChan) <= ChanCap
    /\ stopChan \in 0 .. StopCap
WorkersOK ==
    /\ pc \in [WorkerIds -> {"select", "exec", "count", "send"}]
    /\ job \in [WorkerIds -> Int]
    /\ \A w \in WorkerIds : pc[w] # "select" => job[w] \in Blocks
    /\ bad \in [WorkerIds -> BOOLEAN]
    /\ workersUp \subseteq WorkerIds
ProducerOK == produced \in Int /\ produced >= First /\ producerUp \in BOOLEAN
CallerOK ==
    /\ main \in {"collect", "stop", "wait", "returned"}
    /\ next \in Int /\ waitMap \subseteq Blocks
    /\ sent \in 0 .. Workers + 1
    /\ result \in {"none", "nil", "err"}
CountsOK ==
    /\ totalNumBlock \in Nat /\ totalNumTx \in Nat
    /\ runs \in [Blocks -> Nat] /\ failed \subseteq Blocks

(* Types of the goroutines' variables and of the channels of Execute: no   *)
(* channel holds more than its capacity and a busy worker holds a block of *)
(* the range.                                                              *)
TypeOK == ChansOK /\ WorkersOK /\ ProducerOK /\ CallerOK /\ CountsOK

(* Execute schedules "one block per worker" exactly once: no interleaving  *)
(* of producer and workers runs ExecuteBlock twice on a block.             *)
ExecutedAtMostOnce == \A b \in Blocks : runs[b] <= 1

(* Execute decides to return nil only after ExecuteBlock ran on every      *)
(* block of the range and none of them returned an error.                  *)
NilMeansAllRan ==
    result = "nil" => failed = {} /\ \A b \in Blocks : runs[b] = 1

(* The inductive strengthening of the two properties above: the blocks     *)
(* below Handed have left workChan, each for one worker.                   *)
Handed == produced - Len(workChan)

QueueInv ==
    /\ Handed >= First
    /\ \A i \in 1 .. Len(workChan) : workChan[i] = Handed + i - 1
HeldInv ==
    /\ \A w \in WorkerIds : pc[w] # "select" => job[w] < Handed /\ w \in workersUp
    /\ \A v, w \in WorkerIds :
          v # w /\ pc[v] # "select" /\ pc[w] # "select" => job[v] # job[w]
RunsInv ==
    /\ \A b \in Blocks : runs[b] \in {0, 1} /\ (b >= Handed => runs[b] = 0)
    /\ \A b \in failed : runs[b] = 1
    /\ \A w \in WorkerIds : pc[w] = "exec" => runs[job[w]] = 0
    /\ \A w \in WorkerIds : pc[w] \in {"count", "send"} =>
          runs[job[w]] = 1 /\ (bad[w] <=> job[w] \in failed)
ReportInv ==
    /\ \A i \in 1 .. Len(doneChan) :
          runs[doneChan[i].block] = 1 /\ (doneChan[i].err <=> doneChan[i].block \in failed)
    /\ \A b \in Blocks : b \in waitMap \/ b < next => runs[b] = 1 /\ b \notin failed
ResultInv ==
    /\ (main = "collect") <=> (result = "none")
    /\ result = "nil" => next > Last
    /\ result = "err" => failed # {}
    /\ main = "returned" => workersUp = {}

(* The reason why Execute's result can be trusted: every block is handed   *)
(* to one worker, runs once, and reaches waitMap and the counted prefix    *)
(* only through a report without error.                                    *)
PoolInv == QueueInv /\ HeldInv /\ RunsInv /\ ReportInv /\ ResultInv

(* Where a block that the producer has sent may be.                        *)
Queued(b)    == \E i \in 1 .. Len(workChan) : workChan[i] = b
HeldBy(w, b) == pc[w] # "select" /\ job[w] = b
Reported(b)  == \E i \in 1 .. Len(doneChan) : doneChan[i].block = b
Counted(b)   == b < next

(* No block is lost or duplicated on its way from the producer to the      *)
(* collector: it is in exactly one channel, worker, waitMap or the counted *)
(* prefix, unless it is the failed block the collector has taken.          *)
BlockConserved ==
    \A b \in Blocks :
        LET places == {<<"queued", i>> : i \in {j \in 1 .. Len(workChan) : workChan[j] = b}}
                 \cup {<<"held", w>> : w \in {v \in WorkerIds : HeldBy(v, b)}}
                 \cup {<<"reported", i>> : i \in {j \in 1 .. Len(doneChan) : doneChan[j].block = b}}
                 \cup {<<"waiting", x>> : x \in {b} \cap waitMap}
                 \cup {<<"counted", x>> : x \in {b} \cap (First .. next - 1)}
        IN  IF b >= produced THEN places = {}
            ELSE \/ Cardinality(places) = 1
                 \/ places = {} /\ b \in failed /\ result = "err"

(* The shutdown cannot starve a goroutine: the stop tokens in the channel  *)
(* and those still to be sent are enough for every goroutine that is up,   *)
(* although any goroutine may take any token.                              *)
EnoughStopTokens ==
    stopChan + (Workers + 1 - sent) >=
        Cardinality(workersUp) + (IF producerUp THEN 1 ELSE 0)

(* The counters printed by the first deferred function: it runs after      *)
(* wg.Wait, so it reports every block ExecuteBlock ran on, and every       *)
(* transaction of the range when the result is nil.                        *)
TotalsAreFinal ==
    main = "returned" =>
        /\ totalNumBlock = Cardinality({b \in Blocks : runs[b] = 1})
        /\ result = "nil" => totalNumTx = SumFunctionOnSet(NumTx, Blocks)

(* After an error the collector no longer receives.  While the range has   *)
(* at most one block more than doneChan has slots, a worker still finds    *)
(* room for its result, so the shutdown does not block.                    *)
RoomAfterError ==
    result = "err" /\ Last - First <= ChanCap =>
        \A w \in WorkerIds : pc[w] = "send" => Len(doneChan) < ChanCap

(* Execute returns, also when blocks fail, as long as the range fits       *)
(* doneChan: every goroutine finds its stop token and wg.Wait ends.        *)
Returns == <>(main = "returned")

(* "If substate-cli replay finds an execution result that is not           *)
(* equivalent to the recorded result, it returns an error immediately"     *)
(* (research/README.md): an error met by the collector is returned.        *)
ErrorIsReturned == (result = "err") ~> (main = "returned")

(* Execute implements the contract of BlockRange.                          *)
Contract == INSTANCE BlockRange WITH
    outcome <- IF main = "returned" THEN result ELSE "running"

ImplementsBlockRange == Contract!Spec
=============================================================================
