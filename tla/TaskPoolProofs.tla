--------------------------- MODULE TaskPoolProofs ---------------------------
(* Proofs about TaskPool, for every number of workers, every block range   *)
(* and every channel size.                                                 *)
EXTENDS TaskPool, SequenceTheorems, FiniteSetTheorems, SumTheorems, TLAPS

(* The buffers of workChan and doneChan are allocated with a positive size. *)
LEMMA ChanCapPositive == ChanCap \in Nat \ {0}
BY PoolAssumption, SMT DEF ChanCap

-----------------------------------------------------------------------------
(* Type correctness.                                                       *)

(* The variables of Execute's goroutines keep their types and no channel   *)
(* of Execute is filled beyond its capacity.                               *)
LEMMA TypeStep == TypeOK /\ [Next]_vars => TypeOK'
<1> SUFFICES ASSUME TypeOK, [Next]_vars PROVE TypeOK'
  OBVIOUS
<1> USE PoolAssumption, ChanCapPositive DEF TypeOK
<1>1. CASE Produce
  <2>1. ChansOK'
    <3>1. produced \in Blocks
      BY <1>1 DEF Produce, ProducerOK, Blocks
    <3> QED
      BY <1>1, <3>1 DEF Produce, ChansOK
  <2> QED
    BY <1>1, <2>1 DEF Produce, workers, caller, stats, history, WorkersOK,
                      ProducerOK, CallerOK, CountsOK
<1>2. CASE ProducerStopped
  <2>1. ChansOK'
    BY <1>2 DEF ProducerStopped, ChansOK, StopCap
  <2> QED
    BY <1>2, <2>1 DEF ProducerStopped, workers, caller, stats, history,
                      WorkersOK, ProducerOK, CallerOK, CountsOK
<1>3. CASE ProducerFinished
  BY <1>3 DEF ProducerFinished, chans, workers, caller, stats, history, ChansOK,
              WorkersOK, ProducerOK, CallerOK, CountsOK
<1>4. ASSUME NEW w \in WorkerIds, TakeBlock(w) PROVE TypeOK'
  <2>1. Head(workChan) \in Blocks /\ ChansOK'
    BY <1>4, HeadTailProperties DEF TakeBlock, ChansOK
  <2>2. WorkersOK'
    BY <1>4, <2>1 DEF TakeBlock, WorkersOK, Blocks
  <2> QED
    BY <1>4, <2>1, <2>2 DEF TakeBlock, prod, caller, stats, history,
                            ProducerOK, CallerOK, CountsOK
<1>5. ASSUME NEW w \in WorkerIds, Execute(w) PROVE TypeOK'
  <2>1. job[w] \in Blocks
    BY <1>5 DEF Execute, WorkersOK
  <2>2. PICK r \in ExecuteBlockResults(job[w]) :
          /\ totalNumTx' = totalNumTx + r[1]
          /\ bad' = [bad EXCEPT ![w] = r[2]]
          /\ failed' = IF r[2] THEN failed \cup {job[w]} ELSE failed
    BY <1>5 DEF Execute
  <2>3. r[1] \in Nat /\ r[2] \in BOOLEAN
    <3>1. NumTx[job[w]] \in Nat
      BY <2>1
    <3>2. CASE r = <<NumTx[job[w]], FALSE>>
      BY <3>1, <3>2
    <3>3. CASE \E n \in 0 .. NumTx[job[w]] : r = <<n, TRUE>>
      BY <3>1, <3>3
    <3>4. \/ r = <<NumTx[job[w]], FALSE>>
          \/ \E n \in 0 .. NumTx[job[w]] : r = <<n, TRUE>>
      BY <2>2, Zenon DEF ExecuteBlockResults
    <3> QED
      BY <3>2, <3>3, <3>4
  <2>4. WorkersOK'
    BY <1>5, <2>1, <2>2, <2>3 DEF Execute, WorkersOK
  <2>5. CountsOK'
    BY <1>5, <2>1, <2>2, <2>3 DEF Execute, CountsOK
  <2> QED
    BY <1>5, <2>4, <2>5 DEF Execute, chans, prod, caller, ChansOK, ProducerOK, CallerOK
<1>6. ASSUME NEW w \in WorkerIds, CountBlock(w) PROVE TypeOK'
  BY <1>6 DEF CountBlock, chans, prod, caller, history, ChansOK,
              WorkersOK, ProducerOK, CallerOK, CountsOK
<1>7. ASSUME NEW w \in WorkerIds, SendDone(w) PROVE TypeOK'
  <2>1. [block |-> job[w], err |-> bad[w]] \in Done
    BY <1>7 DEF SendDone, WorkersOK, Done
  <2>2. ChansOK'
    BY <1>7, <2>1 DEF SendDone, ChansOK
  <2> QED
    BY <1>7, <2>2 DEF SendDone, prod, caller, stats, history,
                      WorkersOK, ProducerOK, CallerOK, CountsOK
<1>8. ASSUME NEW w \in WorkerIds, WorkerStopped(w) PROVE TypeOK'
  BY <1>8 DEF WorkerStopped, prod, caller, stats, history, ChansOK, StopCap,
              WorkersOK, ProducerOK, CallerOK, CountsOK
<1>9. CASE CountInOrder
  BY <1>9 DEF CountInOrder, chans, workers, prod, stats, history, ChansOK,
              WorkersOK, ProducerOK, CallerOK, CountsOK
<1>10. CASE Collect
  <2>1. Head(doneChan) \in Done /\ ChansOK'
    BY <1>10, HeadTailProperties DEF Collect, ChansOK
  <2>2. CallerOK'
    BY <1>10, <2>1 DEF Collect, CallerOK, Done
  <2> QED
    BY <1>10, <2>1, <2>2 DEF Collect, workers, prod, stats, history,
                             WorkersOK, ProducerOK, CountsOK
<1>11. CASE CollectedAll
  BY <1>11 DEF CollectedAll, chans, workers, prod, stats, history, ChansOK,
               WorkersOK, ProducerOK, CallerOK, CountsOK
<1>12. CASE SendStop
  BY <1>12 DEF SendStop, workers, prod, stats, history, ChansOK, StopCap,
               WorkersOK, ProducerOK, CallerOK, CountsOK
<1>13. CASE Return
  BY <1>13 DEF Return, chans, workers, prod, stats, history, ChansOK,
               WorkersOK, ProducerOK, CallerOK, CountsOK
<1>14. CASE UNCHANGED vars
  BY <1>14 DEF vars, chans, workers, prod, caller, stats, history, ChansOK,
               WorkersOK, ProducerOK, CallerOK, CountsOK
<1> QED
  BY <1>1, <1>2, <1>3, <1>4, <1>5, <1>6, <1>7, <1>8, <1>9, <1>10, <1>11,
     <1>12, <1>13, <1>14 DEF Next, Producer, Worker, Caller

(* Execute's goroutines keep the types of their variables, whatever the    *)
(* interleaving.                                                           *)
THEOREM TypeCorrect == Spec => []TypeOK
<1>1. Init => TypeOK
  BY PoolAssumption, ChanCapPositive, EmptySeq
     DEF Init, TypeOK, ChansOK, WorkersOK, ProducerOK, CallerOK, CountsOK, StopCap
<1> QED
  BY <1>1, TypeStep, PTL DEF Spec

-----------------------------------------------------------------------------
(* The inductive invariant.                                                *)

(* Initially nothing is queued, held, executed or reported.                *)
LEMMA PoolInvInit == Init => PoolInv
<1> SUFFICES ASSUME Init PROVE PoolInv
  OBVIOUS
<1> USE PoolAssumption DEF Init
<1>1. Len(workChan) = 0 /\ Len(doneChan) = 0
  BY EmptySeq
<1>2. QueueInv
  BY <1>1 DEF QueueInv, Handed
<1>3. HeldInv
  BY DEF HeldInv
<1>4. RunsInv
  BY <1>1 DEF RunsInv, Handed
<1>5. ReportInv
  BY <1>1 DEF ReportInv, Blocks
<1> QED
  BY <1>2, <1>3, <1>4, <1>5 DEF PoolInv, ResultInv

(* Taking a block moves Handed past it and gives it to one worker.         *)
LEMMA TakeBlockStep ==
  ASSUME TypeOK, PoolInv, NEW w \in WorkerIds, TakeBlock(w)
  PROVE  PoolInv'
<1> USE PoolAssumption DEF TypeOK, PoolInv
<1>1. /\ Len(workChan) \in Nat \ {0}
      /\ Len(workChan') = Len(workChan) - 1
      /\ \A i \in 1 .. Len(workChan') : workChan'[i] = workChan[i + 1]
      /\ Head(workChan) = workChan[1]
  BY HeadTailProperties, EmptySeq DEF TakeBlock, ChansOK
<1>2. Handed \in Int /\ Handed' = Handed + 1 /\ Head(workChan) = Handed
  BY <1>1 DEF TakeBlock, prod, QueueInv, Handed, ProducerOK
<1>3. job' = [job EXCEPT ![w] = Handed] /\ pc' = [pc EXCEPT ![w] = "exec"] /\ Handed \in Blocks
  <2>1. Head(workChan) \in Blocks
    BY HeadTailProperties DEF TakeBlock, ChansOK
  <2> QED
    BY <1>2, <2>1 DEF TakeBlock
<1>4. QueueInv'
  BY <1>1, <1>2 DEF QueueInv, ChansOK
<1>5. HeldInv'
  <2>1. \A v \in WorkerIds : pc'[v] # "select" => job'[v] < Handed' /\ v \in workersUp'
    BY <1>2, <1>3 DEF HeldInv, TakeBlock, WorkersOK, Blocks
  <2>2. ASSUME NEW v \in WorkerIds, NEW u \in WorkerIds, v # u,
               pc'[v] # "select", pc'[u] # "select"
        PROVE  job'[v] # job'[u]
    BY <1>2, <1>3, <2>2 DEF HeldInv, WorkersOK, Blocks
  <2> QED
    BY <2>1, <2>2 DEF HeldInv
<1>6. RunsInv'
  <2>1. runs[Handed] = 0
    BY <1>2, <1>3 DEF RunsInv
  <2>2. UNCHANGED <<runs, failed, bad>>
    BY DEF TakeBlock, history
  <2>3. \A b \in Blocks : runs[b] \in {0, 1} /\ (b >= Handed' => runs[b] = 0)
    BY <1>2 DEF RunsInv, Blocks
  <2>4. \A v \in WorkerIds : pc'[v] = "exec" => runs[job'[v]] = 0
    BY <1>3, <2>1 DEF RunsInv, WorkersOK
  <2>5. \A v \in WorkerIds : pc'[v] \in {"count", "send"} =>
            runs[job'[v]] = 1 /\ (bad[v] <=> job'[v] \in failed)
    BY <1>3 DEF RunsInv, WorkersOK
  <2> QED
    BY <2>2, <2>3, <2>4, <2>5 DEF RunsInv
<1>7. ReportInv'
  BY DEF TakeBlock, ReportInv, caller, history
<1>8. ResultInv'
  BY DEF TakeBlock, ResultInv, caller, history
<1> QED
  BY <1>4, <1>5, <1>6, <1>7, <1>8

(* Running ExecuteBlock on a held block touches no other block's history.  *)
LEMMA ExecuteStep ==
  ASSUME TypeOK, PoolInv, NEW w \in WorkerIds, Execute(w)
  PROVE  PoolInv'
<1> USE PoolAssumption DEF TypeOK, PoolInv
<1> DEFINE j == job[w]
<1>1. j \in Blocks /\ runs[j] = 0 /\ j \notin failed /\ j < Handed
  BY DEF Execute, WorkersOK, RunsInv, HeldInv
<1>2. /\ runs' = [runs EXCEPT ![j] = 1]
      /\ pc' = [pc EXCEPT ![w] = "count"]
      /\ UNCHANGED <<chans, job, workersUp, prod, caller>>
  BY <1>1 DEF Execute, CountsOK
<1>3. \E f \in BOOLEAN :
        /\ bad' = [bad EXCEPT ![w] = f]
        /\ failed' = IF f THEN failed \cup {j} ELSE failed
  <2>1. PICK r \in ExecuteBlockResults(j) :
          /\ bad' = [bad EXCEPT ![w] = r[2]]
          /\ failed' = IF r[2] THEN failed \cup {j} ELSE failed
    BY DEF Execute
  <2>2. \/ r = <<NumTx[j], FALSE>>
        \/ \E n \in 0 .. NumTx[j] : r = <<n, TRUE>>
    BY <2>1, Zenon DEF ExecuteBlockResults
  <2>3. CASE r = <<NumTx[j], FALSE>>
    <3>1. bad' = [bad EXCEPT ![w] = FALSE] /\ failed' = failed
      BY <2>1, <2>3
    <3> QED
      BY <3>1, Zenon
  <2>4. CASE \E n \in 0 .. NumTx[j] : r = <<n, TRUE>>
    <3>1. bad' = [bad EXCEPT ![w] = TRUE] /\ failed' = failed \cup {j}
      BY <2>1, <2>4
    <3> QED
      BY <3>1, Zenon
  <2> QED
    BY <2>2, <2>3, <2>4
<1>4. PICK f \in BOOLEAN :
        /\ bad' = [bad EXCEPT ![w] = f]
        /\ failed' = IF f THEN failed \cup {j} ELSE failed
  BY <1>3
<1>5. Handed' = Handed /\ Handed \in Int
  BY <1>2 DEF Handed, chans, prod, ProducerOK, ChansOK
<1>6. QueueInv'
  BY <1>2, <1>5 DEF QueueInv, chans
<1>7. HeldInv'
  BY <1>2, <1>5 DEF HeldInv, WorkersOK, Execute
<1>8. RunsInv'
  <2>1. \A b \in Blocks : runs'[b] \in {0, 1} /\ (b >= Handed' => runs'[b] = 0)
    BY <1>1, <1>2, <1>5 DEF RunsInv, CountsOK, Blocks
  <2>2. \A b \in failed' : runs'[b] = 1
    BY <1>1, <1>2, <1>4 DEF RunsInv, CountsOK
  <2>3. ASSUME NEW v \in WorkerIds, pc'[v] = "exec"
        PROVE  runs'[job'[v]] = 0
    <3>1. v # w /\ pc[v] = "exec" /\ job[v] # j
      BY <1>2, <2>3 DEF HeldInv, WorkersOK, Execute
    <3> QED
      BY <1>1, <1>2, <3>1 DEF RunsInv, CountsOK, WorkersOK
  <2>4. ASSUME NEW v \in WorkerIds, pc'[v] \in {"count", "send"}
        PROVE  runs'[job'[v]] = 1 /\ (bad'[v] <=> job'[v] \in failed')
    <3>1. CASE v = w
      BY <1>1, <1>2, <1>4, <3>1 DEF CountsOK, WorkersOK
    <3>2. CASE v # w
      <4>1. pc[v] \in {"count", "send"} /\ job[v] # j /\ job[v] \in Blocks
        BY <1>2, <2>4, <3>2 DEF HeldInv, WorkersOK, Execute
      <4> QED
        BY <1>1, <1>2, <1>4, <3>2, <4>1 DEF RunsInv, CountsOK, WorkersOK
    <3> QED
      BY <3>1, <3>2
  <2> QED
    BY <2>1, <2>2, <2>3, <2>4 DEF RunsInv
<1>9. ReportInv'
  <2>1. ASSUME NEW i \in 1 .. Len(doneChan)
        PROVE  runs'[doneChan[i].block] = 1 /\ (doneChan[i].err <=> doneChan[i].block \in failed')
    <3>1. doneChan[i] \in Done
      BY <2>1, ElementOfSeq DEF ChansOK
    <3>2. runs[doneChan[i].block] = 1 /\ (doneChan[i].err <=> doneChan[i].block \in failed)
      BY <2>1 DEF ReportInv
    <3>3. doneChan[i].block # j
      BY <1>1, <3>2
    <3> QED
      BY <1>2, <1>4, <3>1, <3>2, <3>3 DEF CountsOK, Done
  <2>2. \A b \in Blocks : b \in waitMap \/ b < next => runs'[b] = 1 /\ b \notin failed'
    BY <1>1, <1>2, <1>4 DEF ReportInv, CountsOK
  <2> QED
    BY <1>2, <2>1, <2>2 DEF ReportInv, chans, caller
<1>10. ResultInv'
  BY <1>2, <1>4 DEF ResultInv, caller
<1> QED
  BY <1>6, <1>7, <1>8, <1>9, <1>10

(* Sending a report passes on what ExecuteBlock did to the held block.     *)
LEMMA SendDoneStep ==
  ASSUME TypeOK, PoolInv, NEW w \in WorkerIds, SendDone(w)
  PROVE  PoolInv'
<1> USE PoolAssumption DEF TypeOK, PoolInv
<1> DEFINE d == [block |-> job[w], err |-> bad[w]]
<1>1. d \in Done /\ d.block = job[w] /\ d.err = bad[w]
  BY DEF SendDone, WorkersOK, Done
<1>2. /\ Len(doneChan') = Len(doneChan) + 1
      /\ doneChan'[Len(doneChan) + 1] = d
      /\ \A i \in 1 .. Len(doneChan) : doneChan'[i] = doneChan[i]
      /\ Len(doneChan) \in Nat
  BY <1>1, AppendProperties DEF SendDone, ChansOK
<1>3. UNCHANGED <<workChan, job, bad, workersUp, prod, caller, history>>
      /\ pc' = [pc EXCEPT ![w] = "select"]
  BY DEF SendDone
<1>4. Handed' = Handed
  BY <1>3 DEF Handed, prod
<1>5. QueueInv'
  BY <1>3, <1>4 DEF QueueInv
<1>6. HeldInv'
  BY <1>3, <1>4 DEF HeldInv, WorkersOK
<1>7. RunsInv'
  BY <1>3, <1>4 DEF RunsInv, WorkersOK, history
<1>8. ReportInv'
  <2>1. runs[d.block] = 1 /\ (d.err <=> d.block \in failed)
    BY <1>1 DEF SendDone, RunsInv
  <2>2. \A i \in 1 .. Len(doneChan') :
          runs[doneChan'[i].block] = 1 /\ (doneChan'[i].err <=> doneChan'[i].block \in failed)
    BY <1>2, <2>1 DEF ReportInv
  <2> QED
    BY <1>3, <2>2 DEF ReportInv, caller, history
<1>9. ResultInv'
  BY <1>3 DEF ResultInv, caller, history
<1> QED
  BY <1>5, <1>6, <1>7, <1>8, <1>9

(* The collector learns from a report what ExecuteBlock did to its block.  *)
LEMMA CollectStep ==
  ASSUME TypeOK, PoolInv, Collect
  PROVE  PoolInv'
<1> USE PoolAssumption DEF TypeOK, PoolInv
<1> DEFINE d == Head(doneChan)
<1>1. /\ Len(doneChan) \in Nat \ {0}
      /\ Len(doneChan') = Len(doneChan) - 1
      /\ \A i \in 1 .. Len(doneChan') : doneChan'[i] = doneChan[i + 1]
      /\ d = doneChan[1] /\ d \in Done
  BY HeadTailProperties, EmptySeq DEF Collect, ChansOK
<1>2. runs[d.block] = 1 /\ (d.err <=> d.block \in failed)
  BY <1>1 DEF ReportInv
<1>3. UNCHANGED <<workChan, workers, prod, next, history>>
  BY DEF Collect
<1>4. Handed' = Handed
  BY <1>3 DEF Handed, prod
<1>5. QueueInv' /\ HeldInv' /\ RunsInv'
  BY <1>3, <1>4 DEF QueueInv, HeldInv, RunsInv, workers, history
<1>6. ReportInv'
  <2>1. \A i \in 1 .. Len(doneChan') :
          runs[doneChan'[i].block] = 1 /\ (doneChan'[i].err <=> doneChan'[i].block \in failed)
    BY <1>1 DEF ReportInv
  <2>2. \A b \in Blocks : b \in waitMap' \/ b < next => runs[b] = 1 /\ b \notin failed
    BY <1>2 DEF ReportInv, Collect
  <2> QED
    BY <1>3, <2>1, <2>2 DEF ReportInv, history
<1>7. ResultInv'
  BY <1>2, <1>3 DEF ResultInv, Collect, workers, history
<1> QED
  BY <1>5, <1>6, <1>7

(* The collector counts a block only after its report came without error.  *)
LEMMA CountInOrderStep ==
  ASSUME TypeOK, PoolInv, CountInOrder
  PROVE  PoolInv'
<1> USE PoolAssumption DEF TypeOK, PoolInv
<1>1. UNCHANGED <<chans, workers, prod, main, result, history>>
      /\ next' = next + 1 /\ waitMap' = waitMap \ {next}
  BY DEF CountInOrder
<1>2. QueueInv' /\ HeldInv' /\ RunsInv'
  BY <1>1 DEF QueueInv, HeldInv, RunsInv, Handed, chans, workers, prod, history
<1>3. ReportInv'
  <2>1. \A b \in Blocks : b \in waitMap' \/ b < next' => b \in waitMap \/ b < next
    BY <1>1 DEF CountInOrder, CallerOK, Blocks
  <2> QED
    BY <1>1, <2>1 DEF ReportInv, chans, history
<1>4. ResultInv'
  BY <1>1 DEF ResultInv, CountInOrder, workers, history, CallerOK
<1> QED
  BY <1>2, <1>3, <1>4

(* Every step of every goroutine preserves the strengthening.              *)
LEMMA PoolInvStep == TypeOK /\ PoolInv /\ [Next]_vars => PoolInv'
<1> SUFFICES ASSUME TypeOK, PoolInv, [Next]_vars PROVE PoolInv'
  OBVIOUS
<1> USE PoolAssumption DEF PoolInv
<1>1. CASE Produce
  <2>1. /\ Len(workChan) \in Nat /\ Len(workChan') = Len(workChan) + 1
        /\ \A i \in 1 .. Len(workChan) : workChan'[i] = workChan[i]
        /\ workChan'[Len(workChan) + 1] = produced
        /\ produced \in Int
    <3>1. produced \in Blocks /\ workChan \in Seq(Blocks)
      BY <1>1 DEF Produce, TypeOK, ProducerOK, ChansOK, Blocks
    <3> QED
      BY <1>1, <3>1, AppendProperties DEF Produce, Blocks
  <2>2. Handed' = Handed /\ Handed \in Int /\ produced = Handed + Len(workChan)
    BY <1>1, <2>1 DEF Produce, Handed
  <2>3. QueueInv'
    BY <2>1, <2>2 DEF QueueInv
  <2>4. HeldInv' /\ RunsInv'
    BY <1>1, <2>2 DEF Produce, HeldInv, RunsInv, workers, history
  <2>5. ReportInv' /\ ResultInv'
    BY <1>1 DEF Produce, ReportInv, ResultInv, workers, caller, history
  <2> QED
    BY <2>3, <2>4, <2>5
<1>2. CASE ProducerStopped
  BY <1>2 DEF ProducerStopped, QueueInv, HeldInv, RunsInv, ReportInv, ResultInv,
              Handed, workers, caller, history
<1>3. CASE ProducerFinished
  BY <1>3 DEF ProducerFinished, QueueInv, HeldInv, RunsInv, ReportInv, ResultInv,
              Handed, chans, workers, caller, history
<1>4. ASSUME NEW w \in WorkerIds, TakeBlock(w) PROVE PoolInv'
  BY <1>4, TakeBlockStep
<1>5. ASSUME NEW w \in WorkerIds, Execute(w) PROVE PoolInv'
  BY <1>5, ExecuteStep
<1>6. ASSUME NEW w \in WorkerIds, CountBlock(w) PROVE PoolInv'
  <2>1. HeldInv'
    BY <1>6 DEF CountBlock, HeldInv, Handed, TypeOK, WorkersOK, chans, prod
  <2>2. RunsInv'
    BY <1>6 DEF CountBlock, RunsInv, Handed, TypeOK, WorkersOK, chans, prod, history
  <2> QED
    BY <1>6, <2>1, <2>2 DEF CountBlock, QueueInv, ReportInv, ResultInv, Handed,
                            chans, prod, caller, history
<1>7. ASSUME NEW w \in WorkerIds, SendDone(w) PROVE PoolInv'
  BY <1>7, SendDoneStep
<1>8. ASSUME NEW w \in WorkerIds, WorkerStopped(w) PROVE PoolInv'
  BY <1>8 DEF WorkerStopped, QueueInv, HeldInv, RunsInv, ReportInv, ResultInv,
              Handed, prod, caller, history
<1>9. CASE CountInOrder
  BY <1>9, CountInOrderStep
<1>10. CASE Collect
  BY <1>10, CollectStep
<1>11. CASE CollectedAll
  BY <1>11 DEF CollectedAll, QueueInv, HeldInv, RunsInv, ReportInv, ResultInv,
               Handed, chans, workers, prod, history
<1>12. CASE SendStop
  BY <1>12 DEF SendStop, QueueInv, HeldInv, RunsInv, ReportInv, ResultInv,
               Handed, workers, prod, history
<1>13. CASE Return
  BY <1>13 DEF Return, QueueInv, HeldInv, RunsInv, ReportInv, ResultInv,
               Handed, chans, workers, prod, history
<1>14. CASE UNCHANGED vars
  BY <1>14 DEF vars, chans, workers, prod, caller, stats, history, QueueInv,
               HeldInv, RunsInv, ReportInv, ResultInv, Handed
<1> QED
  BY <1>1, <1>2, <1>3, <1>4, <1>5, <1>6, <1>7, <1>8, <1>9, <1>10, <1>11,
     <1>12, <1>13, <1>14 DEF Next, Producer, Worker, Caller

(* Whatever the interleaving of producer, workers and collector, a block   *)
(* is handed out, executed and reported as PoolInv describes.              *)
THEOREM PoolInvariant == Spec => []PoolInv
BY TypeCorrect, PoolInvInit, PoolInvStep, PTL DEF Spec

-----------------------------------------------------------------------------
(* What Execute guarantees.                                                *)

(* ExecuteBlock runs at most once on every block.                          *)
THEOREM AtMostOnce == Spec => []ExecutedAtMostOnce
<1>1. PoolInv => ExecutedAtMostOnce
  BY DEF PoolInv, RunsInv, ExecutedAtMostOnce
<1> QED
  BY <1>1, PoolInvariant, PTL

(* A nil result means that every block of the range ran, none failing.     *)
LEMMA NilFromInv == TypeOK /\ PoolInv => NilMeansAllRan
BY PoolAssumption DEF TypeOK, CallerOK, CountsOK, PoolInv, ResultInv, ReportInv,
                      NilMeansAllRan, Blocks

(* Execute returns nil only after every block ran without error.           *)
THEOREM NilIsSound == Spec => []NilMeansAllRan
BY NilFromInv, TypeCorrect, PoolInvariant, PTL

(* Every step of Execute is a step of the contract or leaves it unchanged. *)
LEMMA ContractStep ==
  TypeOK /\ PoolInv /\ [Next]_vars => [Contract!Next]_(Contract!vars)
<1> SUFFICES ASSUME TypeOK, PoolInv, [Next]_vars
             PROVE  [Contract!Next]_(Contract!vars)
  OBVIOUS
<1> DEFINE outcome == IF main = "returned" THEN result ELSE "running"
<1>1. ASSUME NEW w \in WorkerIds, Execute(w) PROVE Contract!Run(job[w]) /\ job[w] \in Blocks
  <2>1. job[w] \in Blocks /\ runs[job[w]] = 0 /\ main # "returned" /\ main' = main
    BY <1>1 DEF TypeOK, WorkersOK, PoolInv, RunsInv, HeldInv, ResultInv, Execute, caller
  <2>2. runs' = [runs EXCEPT ![job[w]] = 1]
    BY <1>1, <2>1 DEF Execute, TypeOK, CountsOK
  <2>3. failed' \in {failed} \cup (IF job[w] \in MayFail THEN {failed \cup {job[w]}} ELSE {})
    <3>1. PICK r \in ExecuteBlockResults(job[w]) :
            failed' = IF r[2] THEN failed \cup {job[w]} ELSE failed
      BY <1>1 DEF Execute
    <3>2. \/ r = <<NumTx[job[w]], FALSE>>
          \/ job[w] \in MayFail /\ \E n \in 0 .. NumTx[job[w]] : r = <<n, TRUE>>
      BY <3>1, Zenon DEF ExecuteBlockResults
    <3>3. CASE r = <<NumTx[job[w]], FALSE>>
      BY <3>1, <3>3
    <3>4. CASE job[w] \in MayFail /\ \E n \in 0 .. NumTx[job[w]] : r = <<n, TRUE>>
      <4>1. failed' = failed \cup {job[w]}
        BY <3>1, <3>4
      <4> QED
        BY <3>4, <4>1
    <3> QED
      BY <3>2, <3>3, <3>4
  <2> QED
    BY <2>1, <2>2, <2>3 DEF Contract!Run
<1>2. CASE Return
  <2>1. /\ main = "wait" /\ main' = "returned" /\ UNCHANGED <<runs, failed, result>>
        /\ result \in {"nil", "err"}
    BY <1>2 DEF Return, TypeOK, CallerOK, PoolInv, ResultInv, history
  <2>2. result = "nil" => Contract!ReturnNil
    BY <2>1, NilFromInv DEF NilMeansAllRan, Contract!ReturnNil
  <2>3. result = "err" => Contract!ReturnErr
    BY <2>1 DEF PoolInv, ResultInv, Contract!ReturnErr
  <2> QED
    BY <2>1, <2>2, <2>3 DEF Contract!Next
<1>3. ASSUME UNCHANGED history, main # "returned", main' # "returned"
      PROVE  UNCHANGED Contract!vars
  BY <1>3 DEF history, Contract!vars
<1>4. ASSUME UNCHANGED <<history, main, result>> PROVE UNCHANGED Contract!vars
  BY <1>4 DEF history, Contract!vars
<1>5. CASE Producer
  BY <1>4, <1>5 DEF Producer, Produce, ProducerStopped, ProducerFinished, caller
<1>6. ASSUME NEW w \in WorkerIds, Worker(w) PROVE [Contract!Next]_(Contract!vars)
  <2>1. CASE Execute(w)
    BY <1>1, <2>1 DEF Contract!Next
  <2>2. CASE ~ Execute(w)
    BY <1>4, <1>6, <2>2 DEF Worker, TakeBlock, CountBlock, SendDone, WorkerStopped, caller
  <2> QED
    BY <2>1, <2>2
<1>7. CASE CountInOrder \/ Collect \/ CollectedAll \/ SendStop
  BY <1>3, <1>7 DEF CountInOrder, Collect, CollectedAll, SendStop
<1>8. CASE UNCHANGED vars
  BY <1>4, <1>8 DEF vars, caller
<1> QED
  BY <1>2, <1>5, <1>6, <1>7, <1>8 DEF Next, Caller

(* Execute, with its goroutines and channels, implements BlockRange.       *)
THEOREM RefinesBlockRange == Spec => ImplementsBlockRange
<1>1. Init => Contract!Init
  BY DEF Init, Contract!Init
<1> QED
  BY <1>1, ContractStep, TypeCorrect, PoolInvariant, PTL
     DEF Spec, ImplementsBlockRange, Contract!Spec

-----------------------------------------------------------------------------
(* The shutdown: every goroutine finds a stop token.                       *)

(* The workers that are up are finitely many, and one that returns makes   *)
(* them one fewer.                                                         *)
LEMMA WorkersFinite ==
  ASSUME TypeOK
  PROVE  /\ IsFiniteSet(workersUp) /\ Cardinality(workersUp) \in Nat
         /\ \A w \in workersUp : Cardinality(workersUp \ {w}) = Cardinality(workersUp) - 1
<1>1. IsFiniteSet(WorkerIds)
  BY PoolAssumption, FS_Interval DEF WorkerIds
<1>2. IsFiniteSet(workersUp)
  BY <1>1, FS_Subset DEF TypeOK, WorkersOK
<1> QED
  BY <1>2, FS_CardinalityType, FS_RemoveElement

(* A token is taken by a goroutine that returns with it, and the shutdown  *)
(* sends one for each: the balance of SendStop, ProducerStopped and        *)
(* WorkerStopped never falls below zero.                                   *)
LEMMA TokensStep == TypeOK /\ EnoughStopTokens /\ [Next]_vars => EnoughStopTokens'
<1> SUFFICES ASSUME TypeOK, EnoughStopTokens, [Next]_vars PROVE EnoughStopTokens'
  OBVIOUS
<1> USE PoolAssumption DEF EnoughStopTokens
<1>1. /\ Cardinality(workersUp) \in Nat /\ stopChan \in Nat /\ sent \in Nat
      /\ producerUp \in BOOLEAN /\ Workers \in Nat
  BY WorkersFinite DEF TypeOK, ChansOK, CallerOK, ProducerOK, StopCap
<1>2. CASE ProducerStopped
  BY <1>1, <1>2 DEF ProducerStopped, workers, caller
<1>3. CASE ProducerFinished
  BY <1>1, <1>3 DEF ProducerFinished, workers, caller, chans
<1>4. ASSUME NEW w \in WorkerIds, WorkerStopped(w) PROVE EnoughStopTokens'
  <2>1. Cardinality(workersUp') = Cardinality(workersUp) - 1
    BY <1>4, WorkersFinite DEF WorkerStopped
  <2> QED
    BY <1>1, <1>4, <2>1 DEF WorkerStopped, prod, caller
<1>5. CASE SendStop
  BY <1>1, <1>5 DEF SendStop, workers, prod
<1>6. ASSUME UNCHANGED <<stopChan, sent, workersUp, producerUp>> PROVE EnoughStopTokens'
  BY <1>6
<1>7. CASE Produce \/ CountInOrder \/ Collect \/ CollectedAll \/ Return \/ UNCHANGED vars
  BY <1>6, <1>7 DEF Produce, CountInOrder, Collect, CollectedAll, Return, vars, chans,
                    workers, prod, caller
<1>8. ASSUME NEW w \in WorkerIds, TakeBlock(w) \/ Execute(w) \/ CountBlock(w) \/ SendDone(w)
      PROVE  EnoughStopTokens'
  BY <1>6, <1>8 DEF TakeBlock, Execute, CountBlock, SendDone, chans, prod, caller
<1> QED
  BY <1>2, <1>3, <1>4, <1>5, <1>7, <1>8 DEF Next, Producer, Worker, Caller

(* Whatever goroutine takes whatever token, the tokens in stopChan and     *)
(* those Execute still has to send are enough for all that are up.         *)
THEOREM TokensSuffice == Spec => []EnoughStopTokens
<1>1. Init => EnoughStopTokens
  <2> SUFFICES ASSUME Init PROVE EnoughStopTokens
    OBVIOUS
  <2>1. Cardinality(workersUp) = Workers
    BY PoolAssumption, FS_Interval DEF Init, WorkerIds
  <2> QED
    BY <2>1, PoolAssumption DEF Init, EnoughStopTokens
<1> QED
  BY <1>1, TokensStep, TypeCorrect, PTL DEF Spec

-----------------------------------------------------------------------------
(* Where a block is, between the producer and the collector.               *)

Held(b) == \E w \in WorkerIds : HeldBy(w, b)

(* A handed block is held, reported, waiting or counted, in one place.     *)
Apart ==
    /\ next <= Handed
    /\ \A w \in WorkerIds : pc[w] # "select" => ~Reported(job[w]) /\ job[w] \notin waitMap /\ job[w] >= next
    /\ \A i, j \in 1 .. Len(doneChan) : i # j => doneChan[i].block # doneChan[j].block
    /\ \A i \in 1 .. Len(doneChan) :
          doneChan[i].block \notin waitMap /\ doneChan[i].block >= next /\ doneChan[i].block < Handed
    /\ \A b \in waitMap : b >= next /\ b < Handed

(* No handed block is lost, but for the one whose error is returned.       *)
Kept ==
    \A b \in Blocks : b < Handed =>
        Held(b) \/ Reported(b) \/ b \in waitMap \/ Counted(b) \/ (b \in failed /\ result = "err")

(* A failed block that the collector took is nowhere any more.             *)
Taken == result = "err" => \E b \in failed : b < Handed /\ ~Held(b) /\ ~Reported(b)

PlaceInv == Apart /\ Kept /\ Taken

(* What doneChan holds.                                                    *)
LEMMA ReportsAreBlocks ==
  ASSUME TypeOK
  PROVE  \A i \in 1 .. Len(doneChan) : doneChan[i] \in Done /\ doneChan[i].block \in Blocks
<1>1. \A i \in 1 .. Len(doneChan) : doneChan[i] \in Done
  BY ElementOfSeq DEF TypeOK, ChansOK
<1> QED
  BY <1>1 DEF Done

(* Steps that move no block.                                               *)
LEMMA StillPlaced ==
  ASSUME PlaceInv, UNCHANGED <<doneChan, next, waitMap, result, job>>, Handed' = Handed,
         failed \subseteq failed',
         \A w \in WorkerIds : (pc'[w] = "select") <=> (pc[w] = "select")
  PROVE  PlaceInv'
<1>1. ASSUME NEW b PROVE (Held(b)' <=> Held(b)) /\ (Reported(b)' <=> Reported(b)) /\ (Counted(b)' <=> Counted(b))
  BY DEF Held, HeldBy, Reported, Counted
<1>2. Apart'
  BY DEF PlaceInv, Apart, Reported
<1>3. Kept'
  BY <1>1 DEF PlaceInv, Kept
<1>4. Taken'
  BY <1>1 DEF PlaceInv, Taken
<1> QED
  BY <1>2, <1>3, <1>4 DEF PlaceInv

(* TakeBlock gives the next block to one worker.                           *)
LEMMA TakeBlockPlaces ==
  ASSUME TypeOK, PoolInv, PlaceInv, NEW w \in WorkerIds, TakeBlock(w)
  PROVE  PlaceInv'
<1> USE PoolAssumption DEF TypeOK, PlaceInv
<1>1. /\ Len(workChan) \in Nat \ {0} /\ Len(workChan') = Len(workChan) - 1
      /\ Head(workChan) = workChan[1] /\ Head(workChan) \in Blocks
  BY HeadTailProperties, EmptySeq DEF TakeBlock, ChansOK
<1>2. Handed \in Int /\ Handed' = Handed + 1 /\ Head(workChan) = Handed /\ Handed \in Blocks
  BY <1>1 DEF TakeBlock, prod, PoolInv, QueueInv, Handed, ProducerOK
<1>3. /\ job' = [job EXCEPT ![w] = Handed] /\ pc' = [pc EXCEPT ![w] = "exec"] /\ pc[w] = "select"
      /\ UNCHANGED <<doneChan, next, waitMap, result, failed>>
  BY <1>2 DEF TakeBlock, caller, history
<1>4. \A b : Reported(b)' <=> Reported(b)
  BY <1>3 DEF Reported
<1>5. ~Reported(Handed) /\ Handed \notin waitMap /\ Handed >= next
  <2>1. /\ next <= Handed /\ next \in Int
        /\ \A i \in 1 .. Len(doneChan) : doneChan[i].block < Handed
        /\ \A b \in waitMap : b < Handed
    BY DEF Apart, CallerOK
  <2> HIDE DEF TypeOK, PlaceInv
  <2> QED
    BY <1>2, <2>1 DEF Reported
<1>6. \A b \in Blocks : Held(b)' <=> Held(b) \/ b = Handed
  BY <1>3 DEF Held, HeldBy, WorkersOK
<1>7. Apart'
  <2>1. ASSUME NEW v \in WorkerIds, pc'[v] # "select"
        PROVE  (~Reported(job[v]) /\ job[v] \notin waitMap /\ job[v] >= next)'
    <3>1. CASE v = w
      BY <1>3, <1>5, <3>1 DEF WorkersOK, Reported
    <3>2. CASE v # w
      BY <1>3, <2>1, <3>2 DEF WorkersOK, Apart, Reported
    <3> QED
      BY <3>1, <3>2
  <2>2. \A i \in 1 .. Len(doneChan) : doneChan[i].block \in Blocks
    BY ReportsAreBlocks
  <2>3. /\ next <= Handed + 1 /\ \A b \in waitMap : b < Handed + 1
        /\ \A i \in 1 .. Len(doneChan) : doneChan[i].block < Handed + 1
    BY <1>2, <2>2 DEF Apart, CallerOK, Blocks
  <2> QED
    BY <1>2, <1>3, <2>1, <2>3 DEF Apart
<1>8. Kept'
  BY <1>2, <1>3, <1>4, <1>6 DEF Kept, Counted, Blocks
<1>9. Taken'
  BY <1>2, <1>3, <1>4, <1>6 DEF Taken, CountsOK, Blocks
<1> QED
  BY <1>7, <1>8, <1>9

(* What a send on a channel (doneChan <- d) does to its contents: one      *)
(* place more, which holds the element sent.                               *)
LEMMA SendOne ==
  ASSUME NEW S, NEW s \in Seq(S), NEW e \in S
  PROVE  /\ Len(s) \in Nat /\ Len(Append(s, e)) = Len(s) + 1
         /\ Append(s, e)[Len(s) + 1] = e
         /\ \A i \in 1 .. Len(s) : Append(s, e)[i] = s[i]
BY AppendProperties

(* The places of a channel that has one more than before.                  *)
LEMMA OneMorePlace ==
  ASSUME NEW n \in Nat, NEW m, m = n + 1
  PROVE  /\ \A i \in 1 .. m : i \in 1 .. n \/ i = n + 1
         /\ \A i \in 1 .. n : i \in 1 .. m
         /\ n + 1 \in 1 .. m
OBVIOUS

(* SendDone moves a block from its worker to doneChan.                     *)
LEMMA SendDonePlaces ==
  ASSUME TypeOK, PoolInv, PlaceInv, NEW w \in WorkerIds, SendDone(w)
  PROVE  PlaceInv'
<1> USE PoolAssumption DEF TypeOK, PlaceInv
<1> DEFINE d == [block |-> job[w], err |-> bad[w]]
<1>1. d \in Done /\ d.block = job[w] /\ job[w] \in Blocks
  BY DEF SendDone, WorkersOK, Done
<1>2. /\ Len(doneChan) \in Nat /\ Len(doneChan') = Len(doneChan) + 1
      /\ doneChan'[Len(doneChan) + 1] = d
      /\ \A i \in 1 .. Len(doneChan) : doneChan'[i] = doneChan[i]
  <2>1. doneChan \in Seq(Done) /\ doneChan' = Append(doneChan, d)
    BY DEF SendDone, ChansOK
  <2> HIDE DEF TypeOK, PlaceInv, d
  <2>2. /\ Len(doneChan) \in Nat /\ Len(Append(doneChan, d)) = Len(doneChan) + 1
        /\ Append(doneChan, d)[Len(doneChan) + 1] = d
        /\ \A i \in 1 .. Len(doneChan) : Append(doneChan, d)[i] = doneChan[i]
    BY <1>1, <2>1, SendOne
  <2> QED
    BY <2>1, <2>2, Zenon
<1>3. /\ UNCHANGED <<job, next, waitMap, result, failed>> /\ Handed' = Handed
      /\ pc' = [pc EXCEPT ![w] = "select"] /\ pc[w] = "send"
  BY DEF SendDone, Handed, caller, history, prod
<1>r. /\ \A i \in 1 .. Len(doneChan') : i \in 1 .. Len(doneChan) \/ i = Len(doneChan) + 1
      /\ \A i \in 1 .. Len(doneChan) : i \in 1 .. Len(doneChan') /\ doneChan'[i].block = doneChan[i].block
      /\ Len(doneChan) + 1 \in 1 .. Len(doneChan') /\ doneChan'[Len(doneChan) + 1].block = job[w]
  <2> HIDE DEF TypeOK, PlaceInv, d
  <2>1. /\ \A i \in 1 .. Len(doneChan') : i \in 1 .. Len(doneChan) \/ i = Len(doneChan) + 1
        /\ \A i \in 1 .. Len(doneChan) : i \in 1 .. Len(doneChan')
        /\ Len(doneChan) + 1 \in 1 .. Len(doneChan')
    BY <1>2, OneMorePlace, Zenon
  <2> QED
    BY <1>1, <1>2, <2>1, Zenon
<1>4. \A b : Reported(b)' <=> Reported(b) \/ b = job[w]
  <2> HIDE DEF TypeOK, PlaceInv
  <2> QED
    BY <1>r, Zenon DEF Reported
<1>5. \A v \in WorkerIds : v # w /\ pc[v] # "select" => job[v] # job[w]
  BY <1>3 DEF PoolInv, HeldInv
<1>6. \A b : Held(b) <=> Held(b)' \/ b = job[w]
  BY <1>3, <1>5 DEF Held, HeldBy, WorkersOK
<1>7. ~Held(job[w])'
  BY <1>3, <1>5 DEF Held, HeldBy, WorkersOK
<1>8. ~Reported(job[w]) /\ job[w] \notin waitMap /\ job[w] >= next /\ job[w] < Handed
  BY <1>3 DEF Apart, PoolInv, HeldInv
<1>9. Apart'
  <2>1. ASSUME NEW v \in WorkerIds, pc'[v] # "select"
        PROVE  ~Reported(job[v])' /\ job[v] \notin waitMap /\ job[v] >= next
    BY <1>3, <1>4, <1>5, <2>1 DEF Apart, WorkersOK
  <2>2. \A i, j \in 1 .. Len(doneChan') : i # j => doneChan'[i].block # doneChan'[j].block
    <3>1. \A i, j \in 1 .. Len(doneChan) : i # j => doneChan[i].block # doneChan[j].block
      BY DEF Apart
    <3>2. \A i \in 1 .. Len(doneChan) : doneChan[i].block # job[w]
      BY <1>8 DEF Reported
    <3> HIDE DEF TypeOK, PlaceInv
    <3> QED
      BY <1>r, <3>1, <3>2
  <2>3. \A i \in 1 .. Len(doneChan') :
          doneChan'[i].block \notin waitMap /\ doneChan'[i].block >= next /\ doneChan'[i].block < Handed
    <3>1. \A i \in 1 .. Len(doneChan) :
             doneChan[i].block \notin waitMap /\ doneChan[i].block >= next /\ doneChan[i].block < Handed
      BY DEF Apart
    <3> HIDE DEF TypeOK, PlaceInv
    <3> QED
      BY <1>r, <1>8, <3>1
  <2> QED
    BY <1>3, <2>1, <2>2, <2>3 DEF Apart
<1>10. Kept'
  BY <1>3, <1>4, <1>6 DEF Kept, Counted
<1>11. Taken'
  BY <1>3, <1>4, <1>6 DEF Taken
<1> QED
  BY <1>9, <1>10, <1>11

(* Collect takes a report, to waitMap or as the error to return.           *)
LEMMA CollectPlaces ==
  ASSUME TypeOK, PoolInv, PlaceInv, Collect
  PROVE  PlaceInv'
<1> USE PoolAssumption DEF TypeOK, PlaceInv
<1>0. PICK d \in Done : d = Head(doneChan)
  BY HeadTailProperties, EmptySeq DEF Collect, ChansOK
<1>1. /\ Len(doneChan) \in Nat \ {0} /\ Len(doneChan') = Len(doneChan) - 1
      /\ \A i \in 1 .. Len(doneChan') : doneChan'[i] = doneChan[i + 1]
      /\ d = doneChan[1] /\ d \in Done
  BY <1>0, HeadTailProperties, EmptySeq DEF Collect, ChansOK
<1>2. /\ UNCHANGED <<job, pc, next, failed>> /\ Handed' = Handed
      /\ result = "none" /\ next <= Last
  BY DEF Collect, Handed, workers, prod, history, PoolInv, ResultInv
<1>3. \A b : Held(b)' <=> Held(b)
  BY <1>2 DEF Held, HeldBy
<1>4. /\ \A b : Reported(b) <=> Reported(b)' \/ b = d.block
      /\ ~Reported(d.block)'
  <2>1. ASSUME NEW b, Reported(b), b # d.block PROVE Reported(b)'
    <3>1. PICK i \in 1 .. Len(doneChan) : doneChan[i].block = b
      BY <2>1 DEF Reported
    <3>2. i - 1 \in 1 .. Len(doneChan') /\ doneChan'[i - 1] = doneChan[i]
      BY <1>1, <2>1, <3>1
    <3> QED
      BY <3>1, <3>2 DEF Reported
  <2>2. ASSUME NEW b, Reported(b)' PROVE Reported(b) /\ b # d.block
    <3>1. PICK i \in 1 .. Len(doneChan') : doneChan'[i].block = b
      BY <2>2 DEF Reported
    <3>2. i + 1 \in 1 .. Len(doneChan) /\ doneChan[i + 1].block = b /\ i + 1 # 1 /\ 1 \in 1 .. Len(doneChan)
      BY <1>1, <3>1
    <3> QED
      BY <1>1, <3>2 DEF Reported, Apart
  <2>3. Reported(d.block)
    BY <1>1 DEF Reported
  <2> QED
    BY <2>1, <2>2, <2>3
<1>5. /\ ~Held(d.block) /\ d.block \notin waitMap /\ d.block >= next /\ d.block < Handed /\ d.block \in Blocks
      /\ (d.err <=> d.block \in failed)
  BY Z3T(30), <1>1 DEF Apart, Reported, Held, HeldBy, Done, PoolInv, ReportInv
<1>6. \/ d.err /\ result' = "err" /\ waitMap' = waitMap
      \/ ~d.err /\ result' = result /\ waitMap' = waitMap \cup {d.block}
  BY <1>0 DEF Collect
<1>7. Apart'
  <2>1. ASSUME NEW v \in WorkerIds, pc[v] # "select"
        PROVE  ~Reported(job[v])' /\ job[v] \notin waitMap' /\ job[v] >= next
    <3>1. ~Reported(job[v]) /\ job[v] \notin waitMap /\ job[v] >= next /\ job[v] # d.block
      BY <1>5, <2>1 DEF Apart, Held, HeldBy
    <3>2. ~Reported(job[v])'
      <4> HIDE DEF TypeOK, PlaceInv
      <4>1. ~(\E i \in 1 .. Len(doneChan') : doneChan'[i].block = job[v])
        BY <1>4, <3>1, Zenon DEF Reported
      <4> QED
        BY <1>2, <4>1 DEF Reported
    <3> QED
      BY <1>6, <3>1, <3>2
  <2>2. \A i, j \in 1 .. Len(doneChan') : i # j => doneChan'[i].block # doneChan'[j].block
    BY <1>1 DEF Apart
  <2>3. \A i \in 1 .. Len(doneChan') :
          doneChan'[i].block \notin waitMap' /\ doneChan'[i].block >= next /\ doneChan'[i].block < Handed
    BY <1>1, <1>6 DEF Apart
  <2>4. \A b \in waitMap' : b >= next /\ b < Handed
    BY <1>5, <1>6 DEF Apart
  <2> QED
    BY <1>2, <2>1, <2>2, <2>3, <2>4 DEF Apart
<1>8. Kept'
  BY <1>2, <1>3, <1>4, <1>5, <1>6 DEF Kept, Counted
<1>9. Taken'
  <2>1. CASE d.err
    BY <1>2, <1>3, <1>4, <1>5, <2>1 DEF Taken
  <2>2. CASE ~d.err
    BY <1>2, <1>6, <2>2 DEF Taken
  <2> QED
    BY <2>1, <2>2
<1> QED
  BY <1>7, <1>8, <1>9

(* CountInOrder moves a block from waitMap to the counted prefix.          *)
LEMMA CountInOrderPlaces ==
  ASSUME TypeOK, PoolInv, PlaceInv, CountInOrder
  PROVE  PlaceInv'
<1> USE PoolAssumption DEF TypeOK, PlaceInv
<1>1. /\ UNCHANGED <<doneChan, job, pc, result, failed>> /\ Handed' = Handed
      /\ next \in waitMap /\ waitMap' = waitMap \ {next} /\ next' = next + 1 /\ next \in Int /\ Handed \in Int
  BY DEF CountInOrder, Handed, chans, workers, prod, history, CallerOK, ChansOK, ProducerOK
<1>2. \A b : (Held(b)' <=> Held(b)) /\ (Reported(b)' <=> Reported(b))
  BY <1>1 DEF Held, HeldBy, Reported
<1>3. Apart'
  <2>1. /\ \A i \in 1 .. Len(doneChan) : doneChan[i].block \in Int
        /\ \A v \in WorkerIds : job[v] \in Int
        /\ waitMap \subseteq Int
    <3>1. Blocks \subseteq Int
      BY DEF Blocks
    <3>2. \A i \in 1 .. Len(doneChan) : doneChan[i].block \in Blocks
      BY ReportsAreBlocks
    <3>3. (\A v \in WorkerIds : job[v] \in Int) /\ waitMap \subseteq Blocks
      BY DEF WorkersOK, CallerOK
    <3> HIDE DEF TypeOK, PlaceInv
    <3> QED
      BY <3>1, <3>2, <3>3
  <2>a. Apart
    OBVIOUS
  <2> HIDE DEF TypeOK, PlaceInv
  <2>2. \A v \in WorkerIds : pc[v] # "select" => ~Reported(job[v])' /\ job[v] \notin waitMap' /\ job[v] >= next'
    <3>1. \A v \in WorkerIds : pc[v] # "select" => ~Reported(job[v]) /\ job[v] \notin waitMap /\ job[v] >= next
      BY <2>a DEF Apart
    <3>2. ASSUME NEW v \in WorkerIds, pc[v] # "select"
          PROVE  ~Reported(job[v])' /\ job[v] \notin waitMap' /\ job[v] >= next'
      <4>1. ~Reported(job[v]) /\ job[v] \notin waitMap /\ job[v] >= next /\ job[v] \in Int
        BY <2>1, <3>1, <3>2, Zenon
      <4>2. job[v] # next
        BY <1>1, <4>1
      <4>3. job[v] >= next'
        BY <1>1, <4>1, <4>2
      <4>4. ~Reported(job[v])'
        BY <1>1, <4>1 DEF Reported
      <4> QED
        BY <1>1, <4>1, <4>3, <4>4
    <3> QED
      BY <3>2
  <2>3. \A i \in 1 .. Len(doneChan) :
          doneChan[i].block \notin waitMap' /\ doneChan[i].block >= next' /\ doneChan[i].block < Handed
    <3>1. \A i \in 1 .. Len(doneChan) :
             doneChan[i].block \notin waitMap /\ doneChan[i].block >= next /\ doneChan[i].block < Handed
      BY <2>a DEF Apart
    <3> QED
      BY Z3T(30), <1>1, <2>1, <3>1
  <2>4. next' <= Handed /\ \A b \in waitMap' : b >= next' /\ b < Handed
    <3>1. \A b \in waitMap : b >= next /\ b < Handed
      BY <2>a DEF Apart
    <3>2. next < Handed
      BY <1>1, <3>1, Zenon
    <3>3. next' <= Handed
      BY <1>1, <3>2
    <3>4. ASSUME NEW b \in waitMap' PROVE b >= next' /\ b < Handed
      <4>1. b \in waitMap /\ b # next
        BY <1>1
      <4>2. b >= next /\ b < Handed /\ b \in Int
        BY <2>1, <3>1, <4>1, Zenon
      <4> QED
        BY <1>1, <4>1, <4>2
    <3> QED
      BY <3>3, <3>4
  <2> QED
    BY <1>1, <2>a, <2>2, <2>3, <2>4 DEF Apart
<1>4. Kept'
  BY <1>1, <1>2 DEF Kept, Counted, Blocks
<1>5. Taken'
  BY <1>1, <1>2 DEF Taken
<1> QED
  BY <1>3, <1>4, <1>5

(* Every step of every goroutine keeps the blocks apart and loses none.    *)
LEMMA PlaceStep == TypeOK /\ PoolInv /\ PlaceInv /\ [Next]_vars => PlaceInv'
<1> SUFFICES ASSUME TypeOK, PoolInv, PlaceInv, [Next]_vars PROVE PlaceInv'
  OBVIOUS
<1>1. CASE Produce
  <2>1. Handed' = Handed
    <3>1. produced \in Blocks /\ workChan \in Seq(Blocks)
      BY <1>1, PoolAssumption DEF Produce, TypeOK, ProducerOK, ChansOK, Blocks
    <3>2. Len(workChan) \in Nat /\ Len(workChan') = Len(workChan) + 1
      BY <1>1, <3>1, AppendProperties DEF Produce
    <3> QED
      BY <1>1, <3>1, <3>2, PoolAssumption DEF Produce, Handed, Blocks
  <2> QED
    BY <1>1, <2>1, StillPlaced DEF Produce, workers, caller, history
<1>2. CASE ProducerStopped \/ ProducerFinished \/ SendStop \/ Return \/ UNCHANGED vars
  BY <1>2, StillPlaced DEF ProducerStopped, ProducerFinished, SendStop, Return, Handed, vars,
                           chans, workers, prod, caller, history
<1>3. ASSUME NEW w \in WorkerIds, TakeBlock(w) PROVE PlaceInv'
  BY <1>3, TakeBlockPlaces
<1>4. ASSUME NEW w \in WorkerIds, Execute(w) PROVE PlaceInv'
  <2>1. failed \subseteq failed'
    BY <1>4 DEF Execute
  <2>2. \A v \in WorkerIds : (pc'[v] = "select") <=> (pc[v] = "select")
    BY <1>4 DEF Execute, TypeOK, WorkersOK
  <2> QED
    BY <1>4, <2>1, <2>2, StillPlaced DEF Execute, Handed, chans, prod, caller
<1>5. ASSUME NEW w \in WorkerIds, CountBlock(w) PROVE PlaceInv'
  <2>1. \A v \in WorkerIds : (pc'[v] = "select") <=> (pc[v] = "select")
    BY <1>5 DEF CountBlock, TypeOK, WorkersOK
  <2> QED
    BY <1>5, <2>1, StillPlaced DEF CountBlock, Handed, chans, prod, caller, history
<1>6. ASSUME NEW w \in WorkerIds, SendDone(w) PROVE PlaceInv'
  BY <1>6, SendDonePlaces
<1>7. ASSUME NEW w \in WorkerIds, WorkerStopped(w) PROVE PlaceInv'
  BY <1>7, StillPlaced DEF WorkerStopped, Handed, prod, caller, history
<1>8. CASE CountInOrder
  BY <1>8, CountInOrderPlaces
<1>9. CASE Collect
  BY <1>9, CollectPlaces
<1>10. CASE CollectedAll
  <2>1. result = "none" /\ result' = "nil" /\ UNCHANGED <<doneChan, next, waitMap, job, pc, failed>> /\ Handed' = Handed
    BY <1>10 DEF CollectedAll, PoolInv, ResultInv, Handed, chans, workers, prod, history
  <2>2. \A b : (Held(b)' <=> Held(b)) /\ (Reported(b)' <=> Reported(b)) /\ (Counted(b)' <=> Counted(b))
    BY <2>1 DEF Held, HeldBy, Reported, Counted
  <2>3. Apart'
    BY <2>1, <2>2 DEF PlaceInv, Apart
  <2>4. Kept' /\ Taken'
    BY <2>1, <2>2 DEF PlaceInv, Kept, Taken
  <2> QED
    BY <2>3, <2>4 DEF PlaceInv
<1> QED
  BY <1>1, <1>2, <1>3, <1>4, <1>5, <1>6, <1>7, <1>8, <1>9, <1>10 DEF Next, Producer, Worker, Caller

(* Blocks are in one place each from the first step of Execute on.         *)
LEMMA PlaceInvariant == Spec => []PlaceInv
<1>1. Init => PlaceInv
  <2> SUFFICES ASSUME Init PROVE PlaceInv
    OBVIOUS
  <2>1. Len(workChan) = 0 /\ Len(doneChan) = 0 /\ Handed = First
    BY EmptySeq, PoolAssumption DEF Init, Handed
  <2>2. Apart
    BY <2>1, PoolAssumption DEF Init, Apart
  <2>3. Kept /\ Taken
    BY <2>1, PoolAssumption DEF Init, Kept, Taken, Blocks
  <2> QED
    BY <2>2, <2>3 DEF PlaceInv
<1> QED
  BY <1>1, PlaceStep, TypeCorrect, PoolInvariant, PTL DEF Spec

(* The places of a block, as BlockConserved counts them.                   *)
Places(Q, H, R, W, C) ==
    {<<"queued", i>> : i \in Q} \cup {<<"held", w>> : w \in H} \cup {<<"reported", i>> : i \in R}
        \cup {<<"waiting", x>> : x \in W} \cup {<<"counted", x>> : x \in C}

(* A block is nowhere, or in one place.                                    *)
LEMMA NoPlace == Places({}, {}, {}, {}, {}) = {}
BY Zenon DEF Places

(* ... in one place.                                                       *)
LEMMA OnePlace ==
  ASSUME NEW x
  PROVE  /\ Cardinality(Places({x}, {}, {}, {}, {})) = 1
         /\ Cardinality(Places({}, {x}, {}, {}, {})) = 1
         /\ Cardinality(Places({}, {}, {x}, {}, {})) = 1
         /\ Cardinality(Places({}, {}, {}, {x}, {})) = 1
         /\ Cardinality(Places({}, {}, {}, {}, {x})) = 1
<1>1. /\ Places({x}, {}, {}, {}, {}) = {<<"queued", x>>}
      /\ Places({}, {x}, {}, {}, {}) = {<<"held", x>>}
      /\ Places({}, {}, {x}, {}, {}) = {<<"reported", x>>}
      /\ Places({}, {}, {}, {x}, {}) = {<<"waiting", x>>}
      /\ Places({}, {}, {}, {}, {x}) = {<<"counted", x>>}
  BY Zenon DEF Places
<1> QED
  BY <1>1, FS_Singleton

(* What PlaceInv says of a block, counted.                                 *)
LEMMA ConservedFromInv == TypeOK /\ PoolInv /\ PlaceInv => BlockConserved
<1> SUFFICES ASSUME TypeOK, PoolInv, PlaceInv, NEW b \in Blocks
             PROVE  LET places == Places({j \in 1 .. Len(workChan) : workChan[j] = b},
                                         {v \in WorkerIds : HeldBy(v, b)},
                                         {j \in 1 .. Len(doneChan) : doneChan[j].block = b},
                                         {b} \cap waitMap, {b} \cap (First .. next - 1))
                    IN  IF b >= produced THEN places = {}
                        ELSE \/ Cardinality(places) = 1
                             \/ places = {} /\ b \in failed /\ result = "err"
  BY DEF BlockConserved, Places
<1> DEFINE Q == {j \in 1 .. Len(workChan) : workChan[j] = b}
           H == {v \in WorkerIds : HeldBy(v, b)}
           R == {j \in 1 .. Len(doneChan) : doneChan[j].block = b}
           W == {b} \cap waitMap
           C == {b} \cap (First .. next - 1)
           places == Places(Q, H, R, W, C)
<1> SUFFICES IF b >= produced THEN places = {}
             ELSE \/ Cardinality(places) = 1
                  \/ places = {} /\ b \in failed /\ result = "err"
  OBVIOUS
<1> USE PoolAssumption DEF TypeOK, PlaceInv
<1>1. /\ b \in Int /\ b >= First /\ produced \in Int /\ Len(workChan) \in Nat /\ next \in Int
      /\ Handed = produced - Len(workChan) /\ Handed \in Int /\ Handed <= produced /\ next <= Handed
  <2>1. b \in Int /\ b >= First
    BY DEF Blocks
  <2>2. produced \in Int /\ next \in Int
    BY DEF ProducerOK, CallerOK
  <2>3. Len(workChan) \in Nat
    BY DEF ChansOK
  <2>4. next <= Handed
    BY DEF Apart
  <2> HIDE DEF TypeOK, PlaceInv
  <2> QED
    BY <2>1, <2>2, <2>3, <2>4 DEF Handed
<1>2. \A j \in 1 .. Len(workChan) : workChan[j] = Handed + j - 1
  BY DEF PoolInv, QueueInv
<1>3. b >= Handed => H = {} /\ R = {} /\ W = {} /\ C = {}
  <2> SUFFICES ASSUME b >= Handed PROVE H = {} /\ R = {} /\ W = {} /\ C = {}
    OBVIOUS
  <2>1. H = {}
    BY <1>1 DEF HeldBy, PoolInv, HeldInv
  <2>2. R = {} /\ W = {}
    BY <1>1 DEF Apart
  <2>3. C = {}
    BY <1>1
  <2> QED
    BY <2>1, <2>2, <2>3
<1> HIDE DEF Q, H, R, W, C
<1>6. CASE b >= produced
  <2>1. Q = {}
    BY <1>1, <1>2, <1>6 DEF Q
  <2>2. b >= Handed
    BY <1>1, <1>6
  <2>3. Places(Q, H, R, W, C) = {}
    BY <1>3, <2>1, <2>2, NoPlace, Zenon
  <2> QED
    BY <1>6, <2>3
<1>7. CASE b < produced /\ b >= Handed
  <2>1. Q = {b - Handed + 1}
    BY <1>1, <1>2, <1>7 DEF Q
  <2>2. ~(b >= produced)
    BY <1>1, <1>7
  <2>3. PICK k : Q = {k}
    BY <2>1
  <2> QED
    BY <1>3, <1>7, <2>2, <2>3, OnePlace
<1>8. CASE b < Handed
  <2>1. Q = {}
    BY <1>1, <1>2, <1>8 DEF Q
  <2>2. ~(b >= produced)
    BY <1>1, <1>8
  <2>3. CASE Held(b)
    <3>1. PICK w \in WorkerIds : HeldBy(w, b)
      BY <2>3 DEF Held
    <3>2. H = {w}
      BY <3>1 DEF H, HeldBy, PoolInv, HeldInv
    <3>3. R = {} /\ W = {} /\ C = {}
      <4>1. ~Reported(b) /\ b \notin waitMap /\ b >= next
        BY <3>1 DEF HeldBy, Apart
      <4> QED
        BY <1>1, <4>1 DEF R, W, C, Reported
    <3> QED
      BY <2>1, <2>2, <3>2, <3>3, OnePlace
  <2>4. CASE ~Held(b) /\ Reported(b)
    <3>1. PICK i \in 1 .. Len(doneChan) : doneChan[i].block = b
      BY <2>4 DEF Reported
    <3>2. R = {i}
      <4>1. \A k \in 1 .. Len(doneChan) : doneChan[k].block = doneChan[i].block => k = i
        BY DEF Apart
      <4> HIDE DEF TypeOK, PlaceInv
      <4> QED
        BY <3>1, <4>1 DEF R
    <3>3. H = {} /\ W = {} /\ C = {}
      BY <1>1, <2>4, <3>1 DEF H, W, C, Held, Apart
    <3> QED
      BY <2>1, <2>2, <3>2, <3>3, OnePlace
  <2>5. CASE ~Held(b) /\ ~Reported(b)
    <3>1. H = {} /\ R = {}
      BY <2>5 DEF H, R, Held, Reported
    <3>2. CASE b \in waitMap
      <4>1. W = {b} /\ C = {}
        BY <1>1, <3>2 DEF W, C, Apart
      <4> QED
        BY <2>1, <2>2, <3>1, <4>1, OnePlace
    <3>3. CASE b \notin waitMap /\ b < next
      <4>1. W = {} /\ C = {b}
        BY <1>1, <3>3 DEF W, C
      <4> QED
        BY <2>1, <2>2, <3>1, <4>1, OnePlace
    <3>4. CASE b \notin waitMap /\ ~(b < next)
      <4>1. b \in failed /\ result = "err"
        BY <1>8, <2>5, <3>4 DEF Kept, Counted
      <4>2. W = {} /\ C = {}
        BY <1>1, <3>4 DEF W, C
      <4> QED
        BY <2>1, <2>2, <3>1, <4>1, <4>2, NoPlace
    <3> QED
      BY <3>2, <3>3, <3>4
  <2> QED
    BY <2>3, <2>4, <2>5
<1> QED
  BY <1>1, <1>6, <1>7, <1>8

(* No block is lost or duplicated on its way through the channels, the     *)
(* workers and waitMap, but for the failed one that ends the collection.   *)
THEOREM BlocksAreConserved == Spec => []BlockConserved
BY ConservedFromInv, PlaceInvariant, TypeCorrect, PoolInvariant, PTL

(* Reports in doneChan are of different blocks, none of them the failed    *)
(* block that was taken or the one a worker holds.                         *)
LEMMA RoomFromInv == TypeOK /\ PoolInv /\ PlaceInv => RoomAfterError
<1> SUFFICES ASSUME TypeOK, PoolInv, PlaceInv, result = "err", Last - First <= ChanCap,
                    NEW w \in WorkerIds, pc[w] = "send"
             PROVE  Len(doneChan) < ChanCap
  BY DEF RoomAfterError
<1> USE PoolAssumption DEF TypeOK, PlaceInv
<1>1. PICK b \in failed : b < Handed /\ ~Held(b) /\ ~Reported(b)
  BY DEF Taken
<1>2. /\ b \in Blocks /\ job[w] \in Blocks /\ b # job[w] /\ ~Reported(job[w])
  BY <1>1 DEF CountsOK, WorkersOK, Held, HeldBy, Apart
<1> DEFINE Left == (Blocks \ {b}) \ {job[w]}
           At == [i \in 1 .. Len(doneChan) |-> doneChan[i].block]
<1>3. IsFiniteSet(Blocks) /\ Cardinality(Blocks) = Last - First + 1
  BY <1>2, FS_Interval DEF Blocks
<1>4. IsFiniteSet(Left) /\ Cardinality(Left) = Last - First - 1
  <2>1. IsFiniteSet(Blocks \ {b}) /\ Cardinality(Blocks \ {b}) = Last - First
    <3>1. IsFiniteSet(Blocks \ {b}) /\ Cardinality(Blocks \ {b}) = Cardinality(Blocks) - 1
      BY <1>2, <1>3, FS_RemoveElement, Zenon
    <3> QED
      BY <1>3, <3>1
  <2> QED
    BY <1>2, <2>1, FS_RemoveElement
<1>5. Len(doneChan) \in Nat /\ At \in Injection(1 .. Len(doneChan), Left)
  <2>1. \A i \in 1 .. Len(doneChan) : doneChan[i].block \in Blocks
    BY ReportsAreBlocks
  <2>2. \A i \in 1 .. Len(doneChan) : doneChan[i].block \in Left
    BY <1>1, <1>2, <2>1 DEF Reported
  <2>3. \A i, j \in 1 .. Len(doneChan) : At[i] = At[j] => i = j
    BY DEF Apart
  <2>4. At \in [1 .. Len(doneChan) -> Left]
    BY <2>2
  <2>5. IsInjective(At)
    BY <2>3 DEF IsInjective
  <2>6. Len(doneChan) \in Nat
    BY DEF ChansOK
  <2> HIDE DEF TypeOK, PlaceInv, Left, At
  <2> QED
    BY <2>4, <2>5, <2>6 DEF Injection
<1>6. Len(doneChan) <= Last - First - 1
  <2> DEFINE m == Len(doneChan)
  <2>1. m \in Nat /\ At \in Injection(1 .. m, Left)
    BY <1>5
  <2>2. Last - First - 1 \in Int
    OBVIOUS
  <2> HIDE DEF TypeOK, PlaceInv, Left, At, m
  <2>3. IsFiniteSet(1 .. m) /\ Cardinality(1 .. m) = m
    BY <2>1, FS_Interval
  <2>4. Cardinality(1 .. m) <= Cardinality(Left)
    BY <1>4, <2>1, <2>3, FS_Injection
  <2>5. m <= Last - First - 1
    BY <1>4, <2>2, <2>3, <2>4
  <2> QED
    BY <2>5 DEF m
<1> QED
  BY <1>5, <1>6, ChanCapPositive

(* After an error no worker finds doneChan full, as long as the range is   *)
(* at most one block longer than doneChan: the shutdown is not blocked.    *)
THEOREM RoomSuffices == Spec => []RoomAfterError
BY RoomFromInv, PlaceInvariant, TypeCorrect, PoolInvariant, PTL

-----------------------------------------------------------------------------
(* The counters.                                                           *)

Counting == {w \in WorkerIds : pc[w] = "count"}
Ran == {b \in Blocks : runs[b] = 1}

(* A block that ran is counted, or about to be by its worker.              *)
CountInv == totalNumBlock + Cardinality(Counting) = Cardinality(Ran)

(* Execute runs a block that has not run.                                  *)
LEMMA RanStep ==
  ASSUME TypeOK, PoolInv, NEW w \in WorkerIds, Execute(w)
  PROVE  job[w] \in Blocks /\ Ran' = Ran \cup {job[w]} /\ job[w] \notin Ran
<1>1. job[w] \in Blocks /\ runs[job[w]] = 0 /\ runs \in [Blocks -> Nat]
  BY DEF Execute, TypeOK, WorkersOK, CountsOK, PoolInv, RunsInv
<1>2. runs' = [runs EXCEPT ![job[w]] = runs[job[w]] + 1]
  BY DEF Execute
<1>3. \A b \in Blocks : runs'[b] = IF b = job[w] THEN 1 ELSE runs[b]
  BY <1>1, <1>2
<1>4. \A b \in Blocks : runs'[b] = 1 <=> runs[b] = 1 \/ b = job[w]
  BY <1>3
<1> QED
  BY <1>1, <1>4 DEF Ran

(* Execute and CountBlock keep the balance.                                *)
LEMMA CountStep == TypeOK /\ PoolInv /\ CountInv /\ [Next]_vars => CountInv'
<1> SUFFICES ASSUME TypeOK, PoolInv, CountInv, [Next]_vars PROVE CountInv'
  OBVIOUS
<1> USE PoolAssumption DEF TypeOK, CountInv
<1>1. IsFiniteSet(Counting) /\ Cardinality(Counting) \in Nat
  <2>1. IsFiniteSet(WorkerIds)
    BY FS_Interval DEF WorkerIds
  <2> QED
    BY <2>1, FS_Subset, FS_CardinalityType DEF Counting
<1>2. IsFiniteSet(Ran) /\ Cardinality(Ran) \in Nat
  <2>1. IsFiniteSet(Blocks)
    BY FS_Interval DEF Blocks
  <2> QED
    BY <2>1, FS_Subset, FS_CardinalityType DEF Ran
<1>3. totalNumBlock \in Nat
  BY DEF CountsOK
<1>4. ASSUME NEW w \in WorkerIds, Execute(w) PROVE CountInv'
  <2>2. Ran' = Ran \cup {job[w]} /\ job[w] \notin Ran
    BY <1>4, RanStep
  <2>3. Counting' = Counting \cup {w} /\ w \notin Counting
    BY <1>4 DEF Execute, Counting, WorkersOK
  <2>4. Cardinality(Ran') = Cardinality(Ran) + 1
    BY <1>2, <2>2, FS_AddElement
  <2>5. Cardinality(Counting') = Cardinality(Counting) + 1
    BY <1>1, <2>3, FS_AddElement
  <2>6. totalNumBlock' = totalNumBlock /\ totalNumBlock + Cardinality(Counting) = Cardinality(Ran)
    BY <1>4 DEF Execute
  <2> HIDE DEF TypeOK
  <2> QED
    BY <1>1, <1>2, <1>3, <2>4, <2>5, <2>6
<1>5. ASSUME NEW w \in WorkerIds, CountBlock(w) PROVE CountInv'
  <2>1. Counting' = Counting \ {w} /\ w \in Counting
    BY <1>5 DEF CountBlock, Counting, WorkersOK
  <2>2. Cardinality(Counting') = Cardinality(Counting) - 1
    BY <1>1, <2>1, FS_RemoveElement
  <2>3. Ran' = Ran
    BY <1>5 DEF CountBlock, Ran, history
  <2> QED
    BY <1>1, <1>2, <1>3, <1>5, <2>2, <2>3 DEF CountBlock
<1>6. ASSUME UNCHANGED <<totalNumBlock, runs>>, Counting' = Counting PROVE CountInv'
  BY <1>6 DEF Ran
<1>7. ASSUME NEW w \in WorkerIds, TakeBlock(w) \/ SendDone(w) \/ WorkerStopped(w) PROVE CountInv'
  <2>1. Counting' = Counting
    BY <1>7 DEF TakeBlock, SendDone, WorkerStopped, Counting, WorkersOK
  <2> QED
    BY <1>6, <1>7, <2>1 DEF TakeBlock, SendDone, WorkerStopped, stats, history
<1>8. CASE Producer \/ Caller \/ UNCHANGED vars
  <2>1. UNCHANGED <<totalNumBlock, runs, pc>>
    BY <1>8 DEF Producer, Produce, ProducerStopped, ProducerFinished, Caller, CountInOrder, Collect,
                CollectedAll, SendStop, Return, vars, workers, stats, history
  <2> QED
    BY <1>6, <2>1 DEF Counting
<1> QED
  BY <1>4, <1>5, <1>7, <1>8 DEF Next, Worker

(* While no block has failed, the transactions counted are those of the    *)
(* blocks that ran.                                                        *)
TxInv == failed = {} => totalNumTx = SumFunctionOnSet(NumTx, Ran)

(* Execute adds the transactions of its block.                             *)
LEMMA TxStep == TypeOK /\ PoolInv /\ TxInv /\ [Next]_vars => TxInv'
<1> SUFFICES ASSUME TypeOK, PoolInv, TxInv, [Next]_vars, failed' = {}
             PROVE  totalNumTx' = SumFunctionOnSet(NumTx, Ran')
  BY DEF TxInv
<1> USE PoolAssumption DEF TypeOK
<1>1. IsFiniteSet(Ran) /\ Ran \subseteq Blocks
  <2>1. IsFiniteSet(Blocks)
    BY FS_Interval DEF Blocks
  <2> QED
    BY <2>1, FS_Subset DEF Ran
<1>2. CASE \E w \in WorkerIds : Execute(w)
  <2>1. PICK w \in WorkerIds : Execute(w)
    BY <1>2
  <2>3. job[w] \in Blocks /\ Ran' = Ran \cup {job[w]} /\ job[w] \notin Ran
    BY <2>1, RanStep
  <2>4. PICK r \in ExecuteBlockResults(job[w]) :
           totalNumTx' = totalNumTx + r[1] /\ failed' = IF r[2] THEN failed \cup {job[w]} ELSE failed
    BY <2>1 DEF Execute
  <2>5. ~r[2] /\ failed = {}
    BY <2>4
  <2>6. r[1] = NumTx[job[w]]
    <3>1. r = <<NumTx[job[w]], FALSE>> \/ \E n \in 0 .. NumTx[job[w]] : r = <<n, TRUE>>
      BY <2>4 DEF ExecuteBlockResults
    <3>2. \A n : r = <<n, TRUE>> => r[2] = TRUE
      OBVIOUS
    <3>3. r = <<NumTx[job[w]], FALSE>>
      BY <2>5, <3>1, <3>2, Zenon
    <3> QED
      BY <3>3
  <2>7. /\ \A b \in Ran : NumTx[b] \in Int
        /\ NumTx[job[w]] \in Int
    BY <1>1, <2>3
  <2>8. SumFunctionOnSet(NumTx, Ran \cup {job[w]}) = SumFunctionOnSet(NumTx, Ran) + NumTx[job[w]]
    BY <1>1, <2>3, <2>7, SumAdd
  <2>9. totalNumTx = SumFunctionOnSet(NumTx, Ran)
    BY <2>5 DEF TxInv
  <2> QED
    BY <2>3, <2>4, <2>6, <2>8, <2>9, Zenon
<1>3. CASE ~\E w \in WorkerIds : Execute(w)
  <2>1. UNCHANGED <<totalNumTx, runs, failed>>
    BY <1>3 DEF Next, Worker, TakeBlock, CountBlock, SendDone, WorkerStopped, Producer, Produce,
                ProducerStopped, ProducerFinished, Caller, CountInOrder, Collect, CollectedAll, SendStop,
                Return, vars, stats, history
  <2>2. Ran' = Ran
    BY <2>1 DEF Ran
  <2> QED
    BY <2>1, <2>2 DEF TxInv
<1> QED
  BY <1>2, <1>3

(* The balance of the counters at the start.                               *)
LEMMA CountsInit == Init => CountInv /\ TxInv
<1> SUFFICES ASSUME Init PROVE CountInv /\ TxInv
  OBVIOUS
<1>1. Counting = {} /\ Ran = {} /\ totalNumBlock = 0 /\ totalNumTx = 0
  BY DEF Init, Counting, Ran
<1>2. SumFunctionOnSet(NumTx, Ran) = 0
  BY <1>1, SumEmpty
<1> QED
  BY <1>1, <1>2, FS_EmptySet DEF CountInv, TxInv

(* The first deferred function of Execute prints the number of blocks that *)
(* ExecuteBlock ran on, and with a nil result the number of transactions   *)
(* of the range: it runs after wg.Wait, when no worker is about to count.  *)
THEOREM TotalsOnReturn == Spec => []TotalsAreFinal
<1>1. TypeOK /\ PoolInv /\ CountInv /\ TxInv => TotalsAreFinal
  <2> SUFFICES ASSUME TypeOK, PoolInv, CountInv, TxInv, main = "returned"
               PROVE  /\ totalNumBlock = Cardinality({b \in Blocks : runs[b] = 1})
                      /\ result = "nil" => totalNumTx = SumFunctionOnSet(NumTx, Blocks)
    BY DEF TotalsAreFinal
  <2>1. Counting = {}
    BY DEF Counting, PoolInv, ResultInv, HeldInv
  <2>2. totalNumBlock + 0 = Cardinality(Ran) /\ totalNumBlock \in Nat
    BY <2>1, FS_EmptySet DEF CountInv, TypeOK, CountsOK
  <2>3. result = "nil" => failed = {} /\ Ran = Blocks
    BY NilFromInv DEF NilMeansAllRan, Ran
  <2>4. result = "nil" => totalNumTx = SumFunctionOnSet(NumTx, Blocks)
    BY <2>3, Zenon DEF TxInv
  <2>5. totalNumBlock = Cardinality(Ran)
    BY <2>2
  <2> QED
    BY <2>4, <2>5 DEF Ran
<1> QED
  BY <1>1, CountsInit, CountStep, TxStep, TypeCorrect, PoolInvariant, PTL DEF Spec
=============================================================================
