# A verification of IDWDetector

IDWDetector is a go-ethereum client with a recorder of transaction *substates*,
a command-line tool that replays them (`substate-cli`), and a detector and
fuzzer of DeFi contracts (`hunter/`). This directory holds TLA+ modules that
model its parts, TLC configurations that check them on small instances, and
TLAPS proofs. Paths below are relative to `src/IDWDetector/`.

## 1. The system and its parts

| part | source | modules |
|---|---|---|
| task pool: runs a task on every block of a range | `research/substate_task.go` | `TaskPool`, `BlockRange`, `TaskPoolProofs`, `SumTheorems` |
| recorder: the state a transaction reads and leaves | `core/state/`, `core/state_processor.go` | `StateDB`, `Recorder`, `RecorderProofs` |
| replayer: the same transaction on the recorded input | `cmd/substate-cli/replay/replay.go`, `off_the_chain.go` | `RecordReplay`, `RecordReplayProofs` |
| call trace: the tree of calls and events the detector reads | `core/vm/evm.go`, `interpreter.go`, `tx.go`, `core/state_transition.go` | `CallTrace`, `CallTraceProofs` |
| detector: from the files of a history to the verdict | `hunter/defi/extractor.go`, `check.go` | `Extractor`, `UserFlow` |
| detector: the recursion over related users | `hunter/defi/check.go` | `RelatedFlow`, `RelatedFlowProofs`, `SumTheorems` |
| substate DB, its encodings, and `clone` | `research/substate_db.go`, `substate_rlp.go`, `cmd/substate-cli/db/clone.go` | `SubstateDB`, `SubstateRLP`, `SubstateMap`, `SubstateDBProofs` |
| state database: objects, journal, commit | `core/state/` | `StateJournal`, `WorldState` |
| state snapshots | `core/state/snapshot/` | `SnapshotTree` |
| gas and refunds of storage | `core/vm/gas_table.go`, `operations_acl.go` | `SStoreGas`, `SStoreGasProofs` |
| transaction pool | `core/tx_pool.go`, `tx_list.go`, `tx_noncer.go` | `TxPool`, `TxList` |
| everything else | | not modelled, see section 13 |

Each `MC...` module instantiates a module for TLC.

How they interact: the chain importer runs `StateProcessor.Process`, which
records one substate per transaction. `substate-cli` opens the substate DB and
runs a task per block on the task pool; the replay task builds a StateDB from
the recorded input, executes the message again and compares the outcome. The
hunter's tasks do the same with an EVM that builds a call trace; the extractor
turns traces into token flows and relations between users, and the detector
looks for users that withdraw much more than they, with their relatives,
deposited. Below them lie parts of go-ethereum that the recorder, the replayer
and the chain importer rest on: the state database, its snapshots, the virtual
machine and, for a client that follows the network, the transaction pool.

## 2. The task pool: `TaskPool`, `BlockRange`, `TaskPoolProofs`

`TaskPool` models `SubstateTaskPool.Execute`: the producer (`Produce`,
`ProducerStopped`, `ProducerFinished`), the workers (`TakeBlock`, `Execute`,
`CountBlock`, `SendDone`, `WorkerStopped`) and the calling goroutine
(`CountInOrder`, `Collect`, `CollectedAll`, then the deferred shutdown
`SendStop` and `Return`). `workChan` and `doneChan` are bounded sequences,
`stopChan` a number of tokens; each `select` is a choice between enabled
actions. `ExecuteBlock` is abstracted to what it may return: a count and
whether it is an error. `runs` and `failed` are history variables.

`BlockRange` is the contract: a block runs at most once and never after the
return, nil means that all ran without error, an error that one failed.

| run | bounds | shows |
|---|---|---|
| `pool` | 2 workers, 5 blocks, 2 may fail, channels of 4 | `PoolInv`, `NilMeansAllRan`, `BlockConserved`, `EnoughStopTokens`, `TotalsAreFinal`, refinement of `BlockRange`; on a range that fits `doneChan` `RoomAfterError` and `Returns` |
| `pool_hang` | 1 worker, 12 blocks, channels of 10 as in the code | **violated**: the error of block 1 is never returned |

The channels of `pool` are one shorter than the range, so producer and workers
can block, and still hold the results a worker may have left after an error.
`pool_hang` uses the code's own factor of 10: after the error the collector
receives no more, the worker fills `doneChan` and blocks, and the shutdown
waits for it to take a stop token. `research/README.md:35` says the error is
returned "immediately".

Fairness: weak fairness of each goroutine, which the Go scheduler provides;
none of the `select` statements is assumed to be fair between its cases.

Proved for any number of workers, range and channel size: `TypeCorrect`,
`PoolInvariant`, `AtMostOnce`, `NilIsSound`, `BlocksAreConserved`,
`TokensSuffice`, `RoomSuffices`, `TotalsOnReturn`, `RefinesBlockRange`. The
properties are not inductive alone, since they say nothing of blocks in
transit. `PoolInv` follows a block: the queue is a run of consecutive blocks
(`QueueInv`), no two workers hold the same block (`HeldInv`), a block has run
exactly if it was handed out and executed (`RunsInv`), and reports and counted
blocks tell the truth (`ReportInv`, `ResultInv`).

That no block is lost or counted twice (`BlockConserved`) needs where each one
is. `PlaceInv` says that the places of a block handed out (a worker, `doneChan`,
the map of results that wait, the blocks below `next`) exclude each other
(`Apart`), that every such block is in one of them, but for the one whose error
is returned (`Kept`), and that after an error a failed block that was handed out
is neither held nor reported any more (`Taken`). From it
follows that the reports in `doneChan` are an injection into the blocks from
`next` on, hence the room after an error (`RoomAfterError`). `CountInv` balances
the counted blocks with the workers that are about to count, and `TxInv` says
that as long as no block failed `totalNumTx` is the sum over the blocks that
ran; together they give both halves of `TotalsAreFinal`. Only `Returns`
(liveness) stays with TLC.

`SumTheorems` holds what these proofs, and those of section 6, need of
`SumFunctionOnSet`: what the sum over a finite set is when an element is added
or removed, when the function changes outside of the set, and when two places
of a stack become one. The community module defines the sum by a recursive
function that takes the elements in an arbitrary order. Its recursion equation
for every finite set, and that the order makes no difference, are proved with a
smallest counterexample: a set of sizes without a least element is empty, by
well-foundedness of `<` on the naturals.

## 3. The recorder: `StateDB`, `Recorder`, `RecorderProofs`

`StateDB` models the journalled account objects under the EIP-158 rules with
the additions of the recorder: `preAlloc`/`postAlloc` are
`ResearchPreAlloc`/`ResearchPostAlloc`, `touched` is `ResearchTouched` of each
object, `dirties` and `revisions` stand for the journal (the states a revert
can restore). Each operation (`Lookup`, `AddBalance`, `SubBalance`, `SetCode`,
`CreateAccount`, `GetState`, `SetState`, `Suicide`, `Snapshot`,
`RevertToSnapshot`, `Finalise`, `Prepare`) includes the recording that
`getStateObject` does on the way. Nonce and code are one field; logs, refunds
and tries are left out. `Recorder` is the loop of `Process` over the
transactions of a block.

Run `recorder` (one account with one slot, values 0 to 2, two snapshots deep,
two transactions) checks the recorder and, beside it, the replayer of section
4: `InputIsPreState` (no write leaks into the recorded input) and
`OutputCompletesInput` (input and output determine the post-state). Accounts do
not interact in StateDB, nor do the slots of an account, so one of each shows
the cases; two transactions are needed for objects deleted by the first, two
snapshots for a revert past another.

Proved for any addresses, keys and bounds: `RecorderInvariant`, `InputIsTrue`,
`FinaliseIsSafe` (Finalise dereferences no nil object), `OutputIsComplete`.
`RecInv` is needed because a revert may bring back any saved state: it says of
the present state *and of every revision* that only touched slots of dirty
objects differ from the pre-state (`ObjInv`, `RevisionInv`), and that object ids
only grow, so that the touched sets, which a revert does not undo, still belong
to their objects.

## 4. The replayer: `RecordReplay`, `RecordReplayProofs`

A second instance of `StateDB`, opened on an input chosen among all that could
be recorded, performs the operations of the transaction as long as it sees
what the recorder saw. `ReplayIsFaithful`: with the input the recorder ends up
with, nothing diverges and the output is the recorded one. Run `recorder`
checks it, and the invariant of its proof, `ReplayInv`.

Proved for any addresses, keys and bounds: `ReplaysAreFaithful`, from
`ReplayStaysInStep`. The difficulty is that the input is only known to be the
recorded one when the transaction is over. `Compatible` says that everything
recorded so far is in the input; since a record only grows, a transaction that
ends with this input was compatible with it all along. It does so for two
reasons, which `LifeInv` states of the present and of every revision: an
account that the trie has as a contract keeps its object for the whole
transaction (CreateAccount replaces only objects without code), so its touched
slots are those Finalise reads; and an account without code has no storage that
the input could lack. While `Compatible` holds the two StateDBs are `Linked`:
equal records, dirties and touched sets, and objects that agree on every
account and slot of the input, now and in each pair of revisions. An account
that an earlier transaction deleted is an object for the recorder and nil for
the replayer; `Same` lets them differ in this.

## 5. The call trace: `CallTrace`, `CallTraceProofs`

`frames` are the nested `Run`s of the interpreter, `CallStack` is
`evm.CallStack`, `InTxs`/`Events` the tree under `evm.ExTx`, `logs` is
`StateDB.logs`, cut back by the revert of a failed call. A call enters
(`Enter`), may have no code (`CallNoCode`) or fail before it is traced
(`CallUntraced`), emits events (`Log`), and returns or fails (`Return`,
`Fail`, `FailLog`, `FailEarly`); `Finish` is the end of `TransitionDb`. Gas and
the other opcodes only decide which outcome happens.

Run `call_trace` (4 calls, depth limit 2, 3 events): the tree is the call tree in
order (`TreeIsCallTree`), the logs are the events of the calls that stand
(`EventsAreLogs`), the read-only flag is set exactly inside static calls
(`StaticIsReadOnly`), and `TraceInv`, the invariant of the proofs. Four calls
suffice for a failed call between two siblings under a caller.
Run `call_panic` is **violated**: a message to an account without code indexes
the empty stack (`core/vm/evm.go:240`).

Proved for any number of calls and events and any depth: `TraceInvariant`,
`StackIsChain`, `StackIsEmptyAtEnd`, `TreeIsComplete`, `LogsAreTraced`,
`ReadOnlyIsInherited`; `StackIsChain` (the stack is the call chain) and
`StackIsEmptyAtEnd` (`TransitionDb`'s stack error is unreachable) are proved
only. The strengthening `TraceInv` orders calls by number:
every call later than a running one is made under it, and the logs after a
frame's snapshot are exactly those of it and its descendants; this is why a
revert takes back just the logs of the failed subtree.

## 6. The recursion over related users: `RelatedFlow`, `RelatedFlowProofs`

One walk of `CheckAttack` / `GetRelatedTokenFlow` for one flow. `stack` holds
the frames of the recursion, each with the keys its map iteration has still to
visit (`todo`, taken in any order) and its totals; `used` is `usedAddress`,
shared by all frames. `Skip` is `continue`, `Visit` marks and calls, `Return`
adds the totals, `abnormalDetection` decides. Totals are naturals (the code
uses `big.Float`). A user's totals at the flow (`own`) and after its
transaction (`flow`) differ, as in the code.

Run `related_group` (4 users, all relations of at most 4 pairs before or after
the block, at most one common address): the recursion ends (`Terminates`,
under weak fairness of the one goroutine, which never blocks), gathers the
least closed set (`GroupIsLeast`, with its invariant `GroupInv`) and decides on
its totals (`VerdictIsGroupRate`). Four pairs
allow a cycle with a branch and two paths to one user.
Run `related_own` is **violated**: `usedAddress` lacks the user itself, so on a
cycle its own flow counts twice.

Proved for all users and relations: `GroupInvariant`, `RecursionIsBounded`,
`GroupIsTheLeast`, `VerdictIsOfGroup`. The strengthening `GroupInv` says that a relative not yet
used is still in the `todo` of a running frame of its relative, and that
`used` is inside every closed set. The verdict needs the totals as well:
`SumInv` says that the totals of all running frames add up to the user's own
flow and the flow of each used address, once. `Visit` adds an address to `used`
and a frame with its flow, `Return` moves the total of the last frame into the
one below; when one frame is left, its total is the group's. `VerdictIsGroupRate`
leaves out the case of `related_own`; `SumInv` holds there too. Only `Terminates`
(liveness) stays with TLC.

## 7. From the files to the verdict: `Extractor`, `UserFlow`, `MCDetector`

`Extractor` reads the recorded call trees file by file (`ExtractTokenTx`,
`ExtractStakeTokenTx`, in the order of their names as strings), finds the calls
that deposit or withdraw, gives each transfer to the innermost of them
(`extractInTxInfo`), fixes the common addresses (`EndStake`) and files the
transfers by user and token while it visits the map of actions in any order
(`ExtractActionInfo`). A call tree is a sequence of calls in preorder; the
decoding of events and JSON is left out, and a method is the set of patterns
its name contains. `UserFlow` extends it: `GenerateUserFlow` builds the lists
of running totals (by token, by group of stable tokens, of all at their
prices), with the tokens of each user taken in any order, and `CheckAttack`
adds the totals of the related users at every flow that is no deposit and
reports the first that is abnormal. The group of relatives is a least fixed
point here; that the recursion computes it is what section 6 shows.

Run `detector` (384 histories of three transactions and up to two stake files,
two users, five tokens; ties of event indices, zero amounts, missing prices, a
token without a price): `InnermostAction`, `ExtractedFromHistory` (each transfer
is filed once, and a relation dates from its first block unless a stake file is
skipped), `TotalsAtEndOfTx`,
`MergedIsDifference` and `VerdictFromHistory`. Each says what a data structure holds in terms of the
history alone (`Owned`, `Dues`, `RelatedIn`), so that the last one is about the
whole way from files to verdict. Two transactions of one block and one before
it suffice for the comparisons by block and by index.

Known limits of the code, which the properties state. Files are read in the
order of their names (`NameLess`: block 10 before block 6), and the loop over
the stake files stops at the first later block (`extractor.go:441`) and skips
those behind it. Histories of the run have that case: no relation is invented,
but one may begin late, and `VerdictFromHistory` is about histories in which no
file is skipped (`NamesSort`) and about a user whom its group does not lead back
to (section 6, `related_own`). Lists
of more than twelve flows are sorted by an algorithm that is not stable
(`check.go:451`), and are out of the model; shorter ones are sorted as Go 1.15
does (`Sorted`: a pass over elements six places apart, then insertion), and the
run has lists on both sides of six. A method name that contains
patterns of both actions (`unstake` contains `stake`) is a deposit or a
withdrawal by the order of a map (`extractor.go:117`), and no history has one.

## 8. The substate DB: `SubstateRLP`, `SubstateDB`, `SubstateMap`, `SubstateDBProofs`

`SubstateRLP` has the three generations of the encoding, codes by hash, and
the readers with their fallbacks: `GetSubstate` tries the latest decoder and
then the older ones (`Decodable`, `DecodeRLP`, `setOldRLP`), and `SetRLP` looks
up each code and panics where one is missing. In `SubstateDB` the workers of
`clone` take keys (`Take`), put the codes of a substate one by one (`PutCode`)
and then the substate (`PutSubstate`); `Crash` keeps some prefix of LevelDB's
journal, since the puts are not synced, and the command runs again from the
first key. The importer writes in the same order: it is the case of one worker
and no crash. Its restart, which goes on where the chain has come to and may
leave blocks without substates, is not modelled.
`SubstateMap` is what a user expects: a map in which whole substates appear.

Run `substate_db` (2 workers, 2 keys, every generation, a shared code, 1
crash): `NoDanglingCode`, `CopyReadsAsSource`, `Returns` (weak fairness of each
worker and of the return; crashes are bounded) and the refinement `ImplementsMap`.
`CopyReadsAsSource` compares what the copy answers with what was recorded, and
not with what the decoder makes of the source. One field is lost on the way:
`setBerlinRLP` sets the access list to nil although a Berlin record has one, and
the property says so (`AsRead`).

Proved for any workers, keys, codes and number of crashes:
`CodesPrecedeSubstates` (`NoDanglingCode`), `CopiesAreFaithful`
(`CopyReadsAsSource`), `CompleteOnReturn` (when clone returns every key is
there) and `RefinesMap` (`ImplementsMap`). Two arguments meet. About the
encodings, `DecodedIsAsRead`: whatever generation wrote it, a substate of the
source reads as what was recorded but for that access list, so that what clone
writes for it reads the same again. About the journal, `DBInv`: in the journal each
substate comes after its codes (`JournalInv`), so every prefix a crash may leave
is closed; the codes that a worker has not still to put are in the journal
(`JobInv`), and no key is forgotten (`TodoInv`).

## 9. The state database: `StateJournal`, `WorldState`

`StateJournal` models StateDB as go-ethereum has it: objects with three storage
caches, a journal undone entry by entry, dirties, destructed accounts and the
changes collected for the snapshot tree, tries, `Finalise`, `IntermediateRoot`,
`Commit`, `Copy`. (`StateDB` of section 3 models the recorder's additions, and
takes the journal as the states a revert restores.) `WorldState` is the
promise: accounts, a stack of saved worlds, and the world after a transaction.
The refinement is on what the getters answer, now and after any revert.

Run `state_journal` covers accounts read through a snapshot (five operations on
a funded account or a contract, four on one that has funds before its code),
accounts read from the tries (four operations), and refund counter, logs and
access list (five).
`ImplementsWorld` is the refinement, `SnapIsTrie` says that what Commit hands to
the snapshot tree makes it equal to the trie, `CodeStored` that committed code
is in the database. An account that is destructed, created again and reverted
needs five operations in two transactions, which the bounds allow.

## 10. Snapshots of the state: `SnapshotTree`

Layers are objects with a parent, maps that a flatten may share, a bloom filter
(a miss goes to the disk layer), and a disk layer with a cache and a generator
that has come to some place. Actions: `Commit` (Update and Cap), `Generate`,
`Fill`, `Reset` (Disable, Rebuild, full cap), `Shutdown` (Journal), `Crash`,
`CrashInFlush`, `Start`.

Run `snapshot_tree` covers four settings: commits with a fork and the
generator, crashes and restarts, resets, and flushes cut short of an account
with two slots. `ReadsAreTrue`: every layer of the tree
answers with the state of its root or an error; `DiskIsTrue`: so does the part
of the disk that counts as covered; `OneDiskLayer`, which includes that no layer
is flattened twice. The fork is
shorter than the number of layers kept (128 in the code, 1 or 2 here): with two
branches as long as that, Cap flattens the layer they share and leaves the
other branch on a stale one. A layer that was handed out earlier and is no longer
in the tree may read slots of a later block through a shared map; the
property is about the layers of the tree.

A flush writes several batches, and `CrashInFlush` may find any of the states
between them (`Cuts`). The code relies on regeneration: "It's ok to flush, the
root will go missing in case of a crash and we'll detect and regenerate the
snapshot" (`snapshot.go:555`). `Generate` visits the accounts of the trie and
those on disk (`Visited`); range proofs and batches inside one account are
abstracted. An account's own entry is deleted before its slots, so a crash
between the slots leaves some without an account, which the generator does not
visit, and a contract created at that address later reads them. The history
variable `dangling` holds these slots, and `ReadsAreTrue` and `DiskIsTrue` are
about all keys but them.

## 11. Gas of storage: `SStoreGas`, `SStoreGasProofs`

What SSTORE costs and refunds under the rules of five forks, in transactions of
nested calls that return, are reverted or destruct their contract, with the
access list of Berlin. The module has no run, only proofs, for all finite sets
of cells, all values and depths (`Words`): `NeverPanics` (SubRefund never goes
below zero, and the case of SSTORE called impossible is; what SubRefund takes,
`Taken`, is compared with the counter before the same write adds anything), `PriceIsNet` (a
cell's price depends on its original and its current value only),
`CounterCovers`. The inductive invariant `IInv` says of the state and of every
state a revert would restore that the counter covers the cleared cells
(`Covered`), and that a contract on the call stack is in the access list
whatever is reverted above it (`Listed`). A cell's number of clears is a
cardinality, so each write needs the lemma that it moves by one
(`ClearedStep`); `TakenCovered` says that the counter holds what a write takes.

## 12. The transaction pool: `TxPool`, `TxList`

Lists of an account with cached caps, the two heaps of price points with stale
ones, nonces, heartbeats, and the goroutines: additions (`AddTx`), their
requests (`RequestPromote`), the scheduler (`Launch`), the part of `runReorg`
under the lock (`RunLocked`) and its events (`RunSend`), new heads with reorgs
whose old part may be unknown or whose state missing (`NewHead`), `Evict`,
`SetGasPrice`. The rules are London's: a reset re-heaps.

Run `tx_pool` covers four settings: evictions and changes of price, blocks and
reorgs, a full pool with transactions of two slots, and replacements beside
reorgs of blocks with two transactions. `PoolInternals` relates
lookup, lists, nonces, heaps and heartbeats after every critical section;
`ExecutablePending` and `PendingAnnounced` are about the pool at rest,
`LocalsStay` says what may make a local transaction leave, and `LimitsHold`
which limits a reorganisation restores.

What the pool does not promise is part of the properties:

- a reset looks for ready transactions from the state's nonce and leaves behind
  one that follows pending ones (`tx_pool.go:1338`): once there is a new head,
  `ExecutablePending` is about accounts with nothing pending;
- a reset that returns early has not reset the nonces, and "discard any events
  that became stale" (`tx_pool.go:1160`) drops events of transactions that are
  pending (`missed`); what a reset queues itself waits for the next run.
  `PendingAnnounced` allows these two and nothing else;
- a reinjected transaction may be refused (`refused`), and a gap in the middle
  that this leaves is not seen by `demoteUnexecutables` (`tx_pool.go:1555`).
  `PendingContiguous`, a part of `PoolInternals`, allows gaps only at such
  nonces and never in front, and the account's next nonce is stated where there
  is none.

Of two transactions with the same price and nonce a heap gives the one that its
array happens to have first; `Lowest` always takes the same one. Within the
bounds of the run this makes no difference that shows: with the opposite choice
there are as many states and no error.

Several settings in one run (sections 9, 10, 12) are the values of a variable
that is chosen at the start and never changes.

## 13. What is only model-checked, what is assumed, what is not modelled

Out of the prover's reach, and only model-checked:

- liveness: `Returns` of the pool and of clone, `Terminates`;
- the properties of sections 10 and 12, whose modules fold over layers and
  lists with recursive operators, which the SMT backend does not take.

Within reach and not proved yet: the properties of section 9, and those of
section 7, which compare the folds of the code with sums over the history and
need an induction over sequences for each fold, like the one of `SumTheorems`.

The proofs assume only the named assumptions on the constants
(`PoolAssumption`, `StateAssumption`, `RecorderAssumption`, `TraceAssumption`,
`RelatedAssumption`, `RLPAssumption`, `SourceAssumption`, `Words`). Runs that disable the deadlock check are of
programs that end or stop at a bound. Definitions whose name has an underscore
and a suffix (`Visit_Shallow`) are mutants: plausible mistakes, each of which
breaks a property.

Not modelled: the fuzzer and the tasks that feed it, which are sequential
loops over random values; the loading and writing of CSV and JSON; the test pool
and the statistics of replay-fork, which repeat the goroutines of `Execute`;
`upgrade` and `compact`; the recorded block hashes; arithmetic of `big.Float`.
Of go-ethereum, more than nine tenths of the repository's lines, only the parts
that the recorder, the replayer and the detector rest on are modelled: not the
tries and the freezer, which appear as what was written to them, and not
synchronisation, networking, RPC, accounts, consensus engines and mining, which
these tools do not run. The models therefore stand for about three in a
hundred lines of the whole repository, and for most of `research/`, of
`hunter/defi/check.go` and `extractor.go`, and of the recorder's and the
tracer's code in `core/`.

## 14. Plan

1. Proofs: `CodeStored` and `SnapIsTrie` of `StateJournal`; then
   `MergedIsDifference` of `UserFlow`.
2. `BlockHashes`: `opBlockhash` and the recorded hashes, with overflow.
3. `upgrade` beside `clone` in `SubstateDB`.
4. The statistics of replay-fork composed with `TaskPool`; the seed lists of
   the fuzzer.
