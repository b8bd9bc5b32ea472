# A TLA+ model of the block explorer

The block explorer copies the pulses of an Insolar platform into PostgreSQL and
answers questions about them. This directory holds models of its parts: the way of
a pulse from the platform into the database and the two marks, `is_complete` and
`is_sequential`, that tell readers what they may rely on; the goroutines and channels
that carry it; how the program stops; and what the API and the exporter answer
while the database grows. With them come the TLC runs that check the models and
theorems about them that TLAPS checks.

Paths below are relative to the repository's root.

## 1. The system

A *pulse* is a numbered period of the platform. Each pulse names its predecessor
and has a set of *jets*, the leaves of a binary tree (a jet is the string of 0s and
1s that leads to the leaf, `""` is the root). The records of one jet in one pulse
are a *jet drop*.

```
 platform --gRPC--> extractor --chan--> transformer --chan--> processor --SQL--> storage
                        ^                                         |                 ^
                        |  LoadJetDrops                           | SetJetDropData  |
                        +-----------------  controller  <---------+                 |
                                                |  CompletePulse, SequencePulse     |
                                                +-----------------------------------+
```

| Part | State | Operations | Interaction |
| --- | --- | --- | --- |
| Extractor (`etl/extractor`) | one goroutine per `retrievePulses`, a counter of workers, a queue | `Start`, `Stop`, `LoadJetDrops`, `retrievePulses`, `retrieveRecords` | asks the platform for the next pulse and streams its records; called back by the controller for ranges |
| Transformer (`etl/transformer`) | a queue, a stop signal | `run`, `Transform`, `sortRecords` | cuts a pulse into jet drops |
| Processor (`etl/processor`) | a task channel, `active`, workers | `Start`, `Stop`, `process` | saves pulse and jet drop, then tells the controller |
| Controller (`etl/controller`) | `jetDropRegister`, `sequentialPulse`, `incompletePulseCounter` | `SetJetDropData`, `pulseMaintainer`, `pulseSequence` | two goroutines on timers; reads and marks rows; orders reloads |
| MissedDataManager | pool of ranges with time stamps | `Add`, `deleteExpired` | keeps the controller from ordering the same reload all the time |
| Storage (`etl/storage`) | tables `pulses`, `jet_drops`, `records` | writes, marks, queries | one transaction per operation |
| Process (`cmd/block-explorer`) | `stopChannel` | `main`, `graceful` | starts the parts in order; stops on a signal or on a lost connection |
| Exporter, API | none of their own | streams and queries | read the marked rows |
| Connection, credentials, database plugin | token, connection state | refresh, watch | send on `stopChannel` |

What is hard here, and what makes each part correct:

* *Concurrency.* Workers register jet drops while the maintainer decides on a copy
  of the register, deletes entries in a critical section of their own and, on
  platform 1, drops entries without asking whether their pulse is complete. Correct:
  a pulse is marked complete only when all its jet drops are stored, and no
  incomplete pulse is forgotten.
* *Repetition and loss.* The main thread and any number of reloads deliver the same
  jet drop; a stream that breaks loses a pulse for good, unless somebody asks again.
  Correct: amounts count a jet drop once, marks are never taken back, what was lost
  is asked for again.
* *Crashes.* Register, pool and `sequentialPulse` are only in memory. Correct: what
  is rebuilt from the database is enough.
* *Ordering and gaps.* Pulses complete out of order. Correct: the sequential pulses
  are a prefix of the chain, and grow as long as there are complete pulses behind.
* *Zero.* Pulse number 0 means "before the first", "the latest" or "never", depending
  on who reads it.

`PROJECT.json` lists the hazards one by one, at their lines.

## 2. The modules

| Module | Models |
| --- | --- |
| `JetTree` | `pulseIsComplete` and its helper, as operators; what a jet tree is |
| `PulseChain` | the platform's data as constants: pulse numbers, predecessors, jets |
| `Storage` | the tables and the operations of `storage.go` on them |
| `JetDropSource` | platform, extractor and transformer as seen by the processor: the main thread, reloads, deliveries with losses |
| `Controller` | register, pool of ranges, `pulseMaintainer`, `pulseSequence` |
| `Pipeline` | the composition with the processor's workers, crashes and restarts; the properties |
| `PulseLedger` | the abstract specification: what the database promises to its readers |
| `MissedData` | the pool of ranges as the slice it is, with a clock and the `Start`/`Stop` handshake |
| `Processor` | the dispatcher, the workers, `taskC`, `taskCCloseMu`, `active`, `Stop` |
| `Shutdown` | extends `Processor`: `graceful`, `stopChannel` and its senders, the deferred calls of `main` |
| `SortRecords`, `Transformer` | `sortRecords` as an operator; `Transform`, the loop and its stop signal |
| `Extractor` | `retrievePulses`, `retrieveRecords`, the counter of workers, portions, errors, `Stop` |
| `Queries`, `Parameters` | the read queries of `storage.go`; the checks and conversions of parameters (operators) |
| `PulsesAPI`, `RecordsAPI`, `JetDropsAPI` | the handlers of `api/handlers.go`, and clients that page and follow links |
| `PulseExporter` | the stream of complete pulses over a growing database |
| `MC...` | constants for TLC |
| `PipelineProofs`, `ExtractorProofs`, `ComponentProofs`, `PulsesAPIProofs`, `RecordsAPIProofs`, `JetDropsAPIProofs` | the theorems; those about `JetTree` are in `PipelineProofs`, those about `PulseExporter`, `MissedData`, `Processor` and `Shutdown` in `ComponentProofs` |
| `QueriesProofs`, `JetDropsAPIInvariant` | lemmas behind the proofs of the API: orders, ranks and pages; the inductive invariant of `JetDropsAPI` |

### How state and steps correspond to the code

*Storage.* A table is the set of its primary keys, a Boolean column the set of keys
for which it is true. Records are written in the transaction of their jet drop, so a
row of `jetDrops` stands for them, and `record_amount` follows `jet_drop_amount`.
`InitJD` and `UpdateJD` are the two transactions behind `SaveJetDropData`; the first
fails on a row that is there, the second writes whether or not it is there, and does
not count.

*Controller.* One step is what happens between two points where others can
interfere: a critical section of `jetDropRegisterLock` or a statement of the database.
`CopyRegister`, then for every key of the copy, in any order, `CompleteKey` and
`EraseKey` or `ReloadKey`, then `EndPass` are one call of `eraseJetDropRegister`;
`CleanKey` and `EndClean` are `cleanJetDropRegister`. `CleanKey` reads
`sequentialPulse` and deletes in one step: the value only grows, so an earlier read
deletes less. `LookUpNext` followed by `SequenceNext` and `Advance`, or by
`ReloadGap`, is one turn of `pulseSequence`. A read of the database that fails is
logged and leaves everything as it was; such turns are stuttering steps. A write that
fails is a `Fault`. The branches for "no row was updated" cannot be reached:
the invariant says that the keys of the register are saved pulses.

The key of the register is a `types.Pulse`. The transformer fills in epoch and time
stamp, `setIncompletePulses` does not, so a pulse has two keys, `FromPlatform(p)` and
`FromDatabase(p)`. The platform is taken to report the same fields for a pulse
every time.

*MissedDataManager.* The pool is a set of ranges. `Add` is in `ReloadData`,
`DeleteExpired` drops one range whose time is over; that some ranges outlive a call of
`deleteExpired` is covered by dropping them one at a time.

*Source.* `MainThread` and `LoaderThread` are turns of `retrievePulses`; `Deliver` is
`retrieveRecords` and the transformer, which hand on all jet drops of the pulse or
lose some. What is under way is a set: the goroutines and queues in between deliver
in any order, and two copies of a jet drop that are under way at the same time are
one. A copy that arrives after the first was taken is a new one, so repetitions reach
the workers, also two at a time.

*Processor.* A worker goes through `savePulse`, `initJD`, possibly `updateJD`, and
`setJetDropData`; each is a step, so other workers, the controller and a crash come
between. After an error it waits for another worker to take its task from the
channel (`Requeue`).

This is `process` as `Pipeline` sees it. The module `Processor` turns this round: `process`
is one step that succeeds or fails, and the channel, the lock and the flag are there
in full. A send on the unbuffered `taskC` is one step together with the receive
(`SendTask`, `Resend`), so a sender without a receiver waits. `CloseTaskC` is the critical
section that `Stop` and a dispatcher with a closed `jdC` share. `ResendPanics` is the
send on the closed channel; nothing happens after it. Nobody under `src/` closes `jdC`, so
`CloseJdC` and what the dispatcher does after it are steps of `Processor` alone, covered
by its proofs, and not of the composed program in `Shutdown`.

*Restart* keeps the database and the platform and puts everything else in the state
in which `main` starts it; `controller.Start` runs before the processor is started.

*MissedData.* `Add` and a whole pass of `deleteExpired` are one step each, since both hold
the lock throughout. `DeleteExpired` follows the Go loop: the range expression is
evaluated once, the last entry is moved into the hole and the end is zeroed. Time
is the age of an entry, capped just above what `isExpired` can tell apart.

*Shutdown.* `main` is the index of the deferred call that is running, last one first.
Only `processor.Stop` can keep `main` waiting here: those of the controller, the
transformer and the extractor are the subject of `MissedData`, `Transformer` and
`Extractor`. A goroutine in `stopChannel` is blocked in its send. `Sender` are the senders that
are not workers, `NotifyShutdown` and `shutdownBE`; each sends once.

*Transformer.* Go ranges over a map in any order, so `SortRecords` returns the set of
results that `sortRecords` may give, and `Run` picks one. Records are reduced to the
fields that `sortRecords` and the choice of type read.

*Extractor.* A thread is a `retrievePulses`, a retrieval a `retrieveRecords` of one thread
and pulse. `TakeWorker` and `GiveBack` are two steps because the counter is above its
maximum in between. A version error goes through `shutdownBE`, which may never return
(see `Shutdown`): `NextVersionError` and `ExportVersionError` stop in it, and
`ShutdownReturns` and `RecordsShutdownReturns`, which need not happen, go on.

*API.* A handler checks its parameters in one step and then takes one step per statement
of the database; saves come between. A failing statement is a step too. Optional
parameters are sets with at most one member. The client remembers what it has
seen and asks for the next page by offset or from the last row, or follows a link.
What the database held when the first request came is kept beside it, for the
properties.

*PulseExporter.* `Find` and `Count` are the two statements of the query, `Check` and `Send` the
loop of `GetNextPulse`. The client reconnects after a break with the last pulse it
received.

## 3. What TLC checks

`tlc -config <cfg> <module>`; none of the runs takes more than three minutes with two
workers. `PROJECT.json` has the module and the cfg of each.

| Run | Instance | Checks |
| --- | --- | --- |
| `pipeline` | platform 1, two pulses of one jet, two symmetric workers, one fault of any kind, one restart, cleaning at every other pass; 1.1 million states | `TypeOK`, `SequentialHasNoGap`, `IncompleteIsRegistered`, `AmountIsBounded`, and `KeepsLedger`: `Pipeline` implements `PulseLedger` |
| `reload` | platform 2, one pulse of two jets, one lossy delivery, two reloads at a time, fair | `CompleteHasAllJetDrops`, `CompleteWhenAllArrived`, `AmountIsExact`, `SavedBecomesComplete`, `RegisterForgets` |
| `gap` | platform 1, two pulses, one lossy delivery, fair | `CompleteBecomesSequential` |
| `runaway` | platform 2, one pulse, fair | `LoadersFinish` is violated |
| `missed_data` | three gaps and a range over two of them, ttl 2 | `NotReloadedWithinTTL`, `PassHalvesExpired`, `StopReturns` |
| `shutdown` | two workers, three jet drops, two failures, a signal, a lost database, one more sender | `DispatcherSendsOnOpen`, `NothingForgotten`, `EveryJetDropIsSaved`, `StopsWithDatabase`, `NothingNewOnClosedDatabase` |
| `transformer` | sequences of up to three records: chains, forks, cycles, two objects; every kind of record; a queue of one | `EveryJetInOrder`, `NoRecordLost`, `InOrderOfChange`, `StopEnds` |
| `extractor` | main thread and one reload, one worker, parallel mode, two portions of records, one error of any class, both `Stop`s | `WorkersCounted`, `WholePulses`, `RangeCovered`, `LoadEnds`, `StopEnds` |
| `pulse_exporter` | two streams, two pulses, one error of each statement, one break | `ReceivedInChain`, `AmountIsFinal`, `MatchingPulsesArrive` |
| `pulses_api` | four pulses, all filters, both directions, one error | `NeighboursAreReal`, `PagesShowEveryPulse` |
| `records_api` | five records in three jet drops, one of them saved again, one error | `PagesShowEveryRecord`, `SearchLeadsToRecord` |
| `jet_drops_api` | three pulses with two splits, or a merge and a split; one error | `LinksAreTrue`, `EveryNeighbourByID`, `EveryPredecessorListed`, `LinksLeadBack`, `PagesShowEveryDrop` |

### The bounds

Two jets are the smallest tree in which a pulse can be partly there; two pulses, with
the platform starting at either, the smallest chain in which the second completes
first. `CleanPeriod` is 1 instead of 1000, so that cleaning happens within the
bounds. `MaxFaults`, `MaxLosses` and `MaxRestarts` are 1 where they are not 0: each
property is about what one of them leaves behind, and the theorems are for any
number. `MaxLoaders` stops ranges from expiring while that many reloads run; it
bounds nothing but the number of repeated reloads, which is not bounded in the code.
Each run varies what its question is about and keeps the rest still, since all
together is out of TLC's reach. No run has a crash while a pulse is partly there, two
workers on a pulse of two jets, or a jet tree deeper than one split: for these the
safety properties rest on the theorems of section 4, which are for all of them. So does
the limit on the workers that reloads hold at a time (`LimitIsKept`).

Two workers are enough for one to fail while another receives. `shutdown` allows as many
failures as there are workers, so that all of them can be sending a failed task back at once;
`EveryJetDropIsSaved` and `StopsWithDatabase` name that state as an exemption (see
below), and hold with three failures as well. Three jet drops keep the dispatcher in its send while both workers are busy.
`BatchSize` of the extractor is 1 so that two records make two portions. The code
retrieves pulses one by one with at most three workers and each in a goroutine of its own with more;
`SerialMax` is 0, so that one worker stands for the second mode, in which a reload
competes with its own goroutines. Two reloads in serial
mode satisfied the same properties on an instance that is not among the runs.
Defaults and maxima of the API's limit are 2 and 3 where the code has 20 and 1000 (the maximum is
7 in `jet_drops_api`, so that a page can hold everything), so that a full page, a cut
page and a last page all occur. `MaxErrors` and its like are 1.

What the properties do not claim: `PagesShowEveryRecord` and `SearchLeadsToRecord` exempt
clients that had a jet drop saved again in between (the index of a record may change
then), except those that page through a lifeline by offset, `EveryPredecessorListed` pages that the limit cut, `MatchingPulsesArrive` the pulses
behind one without a matching record, which the exporter's query cannot pass. A broken
stream of the exporter that has nothing to send never notices. `LoadEnds` and
`StopEnds` of the extractor say nothing of two reloads that turn each other away again
and again: each may see the counter the other has just raised, and only the random
length of the sleep in between sets them apart. In the run there is one reload, and
the exemption is never used.

### Fairness

`FairSpec` asks that a goroutine which can take a step takes one (main thread, each
reload, each worker, maintainer, sequencer: all of them loops on timers that nothing
else holds back), and that a range in the pool expires (a ticker calls
`deleteExpired`). The senders that wait on the processor's task channel, the
dispatcher and requeueing workers, get strong fairness, because Go serves waiting
senders of a channel first come, first served; the jet drops behind the dispatcher
are in a queue, so each gets its turn. Faults, losses, restarts and new pulses are
never forced.

In `Processor` and `Shutdown` the dispatcher, each worker, `Stop` and `main` are weakly fair, with
no promise about signals, failures and lost databases. In `Transformer` the goroutine runs
on and the processor goes on receiving, as it does also when stopped. In
`Extractor` goroutines go on, sleeps end, the platform finalizes pulses and the transformer
empties the queue; a send on `stopChannel` is promised nothing, and `LoadEnds` and
`StopEnds` say nothing after a refusal of the version. In `PulseExporter` the explorer completes its pulses and the
client receives and reconnects. The API's properties are safety properties.

The liveness properties of `Pipeline` are checked without faults. With a fault and a single worker
the worker waits for itself on the task channel for ever.

### What the violated run shows

`runaway`. While the oldest pulse is saved and not complete, `pulseSequence` asks for
the data up to the predecessor of that pulse, 0. `retrievePulses` takes an upper end
of 0 for "main thread": the reload takes no worker of the pool and never ends, and
whenever the range expires another one is started. `LoadJetDrops` is documented to
load the pulses up to its second argument.

### Where the properties stop

TLC has also shown how stronger forms of some properties fail. These are not among
the runs; the assumption that excludes each of them is named.

* *All workers fail* (`AllResend` in `EveryJetDropIsSaved`, `Jammed` in `StopsWithDatabase`). A
  worker whose `process` failed sends its task on the channel it should receive from. When
  all workers do, nobody receives and nothing is saved any more. If the dispatcher takes
  another jet drop it stays in its send with `taskCCloseMu` held, and then `processor.Stop`
  waits for the lock for ever: with the database up, the program does not end on a signal.
  The run reaches both states; the two properties say that nothing less brings this about.
* *The database is lost during a stop* (`dbDown` in `StopsWithDatabase`). When `main` has left
  `graceful`, for a message from elsewhere, the callback of each failing statement blocks
  in its send on `stopChannel`; when all workers are there the dispatcher keeps
  `taskCCloseMu`, and `processor.Stop`, the first deferred call, waits for it for ever.
* *A failure during a stop* (`panicked` in `StopsWithDatabase`; `NothingForgotten` speaks of an
  active processor only). `Stop` closes `taskC` without waiting for the workers; one whose `process` failed sends on the
  closed channel.
* *A restart before `RegisterForgets`* (`MaxRestarts` is 0 in `reload`). After a crash with an
  incomplete pulse the register holds it under the key from the database. Redelivered
  jet drops go to the other key. That one becomes complete; the first never does, and
  on platform 2 nothing removes it, so the pulse is reloaded as long as the process runs.
* *An insert that fails for a passing reason* (`TransientCreate` is false in `reload`). Any error
  of the insert in `initJD` leads to `updateJD`. If the row was not there, it is now, and
  `jet_drop_amount` does not count it. `AmountIsBounded` holds all the same and is checked with it.
* *A count that fails* (the second alternative of `AmountIsFinal`). `GetNextCompletePulseFilterByPrototypeReference`
  returns the pulse and no error, and the client gets the amount of all its records.
* *Successors in a listing after a merge.* `createNextPrevMaps` does not enter the second
  previous hash (the line is commented out), so one of the two jets has no next jet
  drop. `EveryPredecessorListed` is about the other direction.

## 4. What is proved

Each theorem is for every value of the constants that satisfies the assumptions named in the
modules, however many pulses, jets, workers, requests, faults and restarts there are.

### The pipeline

The assumptions, of `PulseChain`, `Controller` and `Pipeline`: pulse numbers are positive,
there is a last one (they have 32 bits), the predecessor of a pulse is the next smaller
number in use, or 0; the jets of a pulse are finitely many and the leaves of a binary tree;
there is a worker. Both platform versions are covered.

* **`CompletenessTest`**. For every jet tree `S` and `d` a subset of
  it, `PulseIsComplete(d)` iff `d = S`. From left to right: if leaf `j` is missing, take
  the leaf `e` of `d` that shares the longest prefix with `j`. The two part at the
  next symbol. The test has asked for the sibling of `e`'s node there, which is the
  node above `j`, so some leaf of `d` shares more with `j`. That there is a longest
  prefix is `GreatestNumber`, from the well-foundedness of the naturals.
  The lemmas `RootIsTree` and `SplitIsTree` show that the assumption holds of what the
  platform makes: the root is a tree, and splitting a leaf of a tree makes a tree.
* **`Invariance`**. `IInv` is inductive. Its parts, and why each is
  needed:
  * a worker between two statements of `process` has saved what came before
    (`WorkersHaveSaved`), so that
  * the register, and every copy of it, holds only stored jet drops (`HoldsStored`);
    since jet drops are never deleted an old copy is as good as a new one, and with
    `CompletenessTest` a pulse that is completed has all jet drops
    (`CompleteHasAllJetDrops`);
  * the key being erased is of a complete pulse;
  * what `pulseSequence` looked up is still true when it acts on it, and
    `sequentialPulse` is in the database (`SequencerIsCurrent`);
  * the sequential pulses are complete and are a prefix of the chain
    (`SequentialIsPrefix`), which is stronger than having no gap, and without which
    cleaning everything below `sequentialPulse` could not be justified in
  * `IncompleteIsRegistered`.
* **`CompletionIsExact`**. With `HoldsStored` the registered jets of a pulse are a subset of its
  tree, so the maintainer's test is right in every state of the pipeline.
* **`TypeCorrect`, `CompletePulsesAreWhole`, `SequenceIsGapless`, `NoPulseIsForgotten`** are
  its consequences for the properties the runs check.
* **`Refinement`**: `Spec => KeepsLedger`, by the identity on the three columns.
* **`AmountNeverExceeds`**, and **`AmountCounts`** under the assumption that an insert
  fails only for a jet drop that is there. Section 3 says why the assumption is needed.

### The goroutines

* **`DispatcherSafety`, `ForgetsNothing`** (`ComponentProofs`), for any set of workers and jet
  drops and any number of failures. The inductive invariant adds to `NothingForgotten`
  that the lock is the dispatcher's exactly while it is at its send or behind it, that
  the channel is open exactly while `active` (`LockInv`), and who holds a jet drop in
  which state (`HoldInv`), without which a receiver might overwrite one.
* **`ShutdownDispatcherSafety`, `ShutdownForgetsNothing`** say the same of the whole program of
  `Shutdown`. Its steps are steps of `Processor` except three (a sender that ends
  `graceful`, a signal that does, and a worker that finds the database closed), and these
  keep the invariant too. The assumption is that the other senders on `stopChannel` are
  not workers.
* **`ClosedDatabaseTakesNothing`**: a worker never takes a task after `main` has closed the
  database. `main` gets there only when `processor.Stop` has returned (`MainInv`), and then
  `active` is false and the channel closed.
* **`CounterIsRight`, `LimitIsKept`** (`ExtractorProofs`), for any finite set of threads, any
  number of pulses, portions and errors, both modes. The counter is a sum of four
  cardinalities, and each action moves one element between them. `Places` is needed for
  that: only reloads take workers, and a pulse a thread has not reached has no retrieval
  yet, so a new one is really new.
* **`PulsesAreWhole`** states `WholePulses` for any number of records and any size of a
  portion. `DataInv` says that a retrieval holds the first records of its pulse and that
  the next portion starts behind them, or that it is at the end.
* **`ReloadsCoverTheirRange`** states `RangeCovered`: `RangeInv` says that a reload has seen every
  pulse from its start to where it stands. A reload looks at its upper end only after a
  pulse, so one that is asked for the empty range `(p, p]` loads pulse `p + 1`; `LastOf` is
  what it does load. The assumption that a reload starts above 0 is what
  `reloadData` ensures with `MinTimePulse - 1`.

### The pool of ranges, and the exporter

* **`NoEarlyReload`** (`ComponentProofs`), for any set of ranges, any ttl and period of cleaning:
  every range that was let through no longer than ttl ago has its entry in the slice
  (`PoolInv`). This needs that a pass of `deleteExpired` over a slice of any length, which
  moves the last entry into each hole, loses no entry that has not expired.
* **`EveryPassHalves`**: such a pass leaves at most half of the expired entries, because each
  hole it skips was made by a deletion. The loop is a recursive function on the index. Both
  facts need an induction along it, and get it from the least index at which they would
  fail (`LeastMember`, from the well-foundedness of the naturals).
* **`ChainIsReceived`, `FinalAmounts`** (`ComponentProofs`), for any number of streams, pulses and
  failures. What a call has found is the pulse after the one it stands at (`FoundIsNext`),
  at most one stream is connected, and what it has under way continues what the client has
  received (`OneStreamContinues`). A complete pulse has all its records (`CompleteIsFinal`, what
  `CompletePulsesAreWhole` establishes for the pipeline), so a count of it is final
  although the table grows.

### The answers with jet drops

`JetDropsAPIProofs`, for any ledger, any requests, any order in which jet drops are
saved, before, between and after the statements, and any number of failed statements. The
assumptions: no jet of a pulse is above another; from one pulse to the next a jet stays,
splits once or merges once (`LedgersAssumption`; this is how the platform's jet trees
change, and the handlers look for neighbours no further away); and the parameters have the
types that the router gives them (`RequestsAssumption`).

* **`TrueLinks`** states `LinksAreTrue`. What the query calls a neighbour has the number and
  the jet id of one; that the hashes agree as well is `NeighboursAreSiblings`: among the
  jets of two adjacent pulses, those in line with each other are exactly the siblings of
  `Siblings()`, at most two of them (`AtMostTwo`), which is why two columns of previous hashes
  are enough.
* **`NoNeighbourMissed`** states `EveryNeighbourByID`: rows are never deleted, so all that was there
  at the request is there when the two queries for siblings run. When
  `updateNextPulse` finds no later pulse the queries are skipped, and then no row of a later
  pulse was there.
* **`NoPredecessorMissed`** states `EveryPredecessorListed`. A page that is not full holds every row
  that matched (`ListPage`, which rests on the order of `SortJetDrops` being strict and total,
  and on `OrderIsRight`, `RankOrders` and `PageIsRight` of `QueriesProofs`), its edge is the oldest pulse
  on it, and the predecessors of older rows come with the pulse before the edge (`Listing`).
* **`LinksCanBeFollowed`** states `LinksLeadBack`: text and jet id translate into each other, `*` and
  the empty string for the root included (`LinkIs`, `LinkIsUnique`), the row is still there, and
  being siblings is symmetric (`SiblingsRelated`, `Back`).
* **`NoDropSkipped`** states `PagesShowEveryDrop`. The paging invariant says that a jet drop of the pulse
  which was there at the first request has been shown or is still ahead: its rank in the
  order of the query is at least the offset, and it lies behind the jet drop the page starts
  from. A row saved meanwhile can only raise a rank (`RankGrows`), so what is ahead stays ahead,
  and what is ahead of a page is on it or ahead of the next one (`OnPageOrAfterIt`). That the first
  request asks for the first page is `FirstPageAssumption`: the property is about a client that
  pages from the start.

Their inductive invariant is `Inv` of `JetDropsAPIInvariant`: the rows are those of the
ledger (`RowsInv`), the types, what a handler has found at each of its stages (`Stage`), and
the parts named above, for the handler (`ByID`, `Listing`, `Back`) and for the answer (`ListAnswer`).

### The answers with pulses

`PulsesAPIProofs`, for any last pulse, any requests, any pulses saved between the
statements, and any number of failed statements. The assumptions are that the parameters have the
types the router gives them and that a client starts paging at the first page
(`RequestsAssumption`).

* **`RealNeighbours`** states `NeighboursAreReal`. A page as it is found has rows that follow one
  another in the order of the query without a gap in what matched (`PageIsConsecutive`), and
  the filters let pass whatever lies between two pulses they let pass (`MeetsIsConvex`). So the loop of
  `GetPulses` that compares a pulse with the one beside it on the page is right to
  write -1 when the later does not name the earlier: the neighbour was not saved then
  (`RealNumbers`). The loop cannot decide the two ends of the page, which the handler
  asks the database for (`NextUpdated`, `PrevUpdated`); until then they are open (`EdgesOpen`). Pulses saved
  later never make a neighbour wrong, since what a row names is a saved pulse (`RealStays`).
* **`NoPulseSkipped`** states `PagesShowEveryPulse`, with the paging invariant of `NoDropSkipped`, for
  offsets alone.

The inductive invariant `IInv` has what a handler knows at each of its statements (`Inv`) and what
the client has seen or has ahead (`Paging`).

### The answers with records

`RecordsAPIProofs`, for any finite set of records, any requests, any order in which jet drops are
saved, saved again and given orders by the transformer, and any number of failed statements. The
assumptions: a record has a reference of its own, and the states of an object in one pulse are in one
jet and change one another (`LedgerAssumption`; an object lives in one jet, and each state names the one
before); the parameters have the types the router gives them (`RequestsAssumption`); a client
starts paging at the first page (`FirstPageAssumption`).

* **`NoRecordSkipped`** states `PagesShowEveryRecord`. A record that matched at the first request has been
  shown, is on the page just read, or is ahead of it: at a rank not below the offset, or behind the
  index of the last record shown (`Paging`). As long as jet drops are only added, ranks only grow
  (`AheadGrows`). When a jet drop is saved again the rows of its records change places, and the
  claim is kept for lifelines paged by offset: among the states of one object the order of change is
  the order of their indexes before and after (`LifelineOrder`), so that each record keeps its rank
  (`ResaveKeepsPlace`). In a jet drop, and behind an index, it may be lost, and the property does not claim
  it. That no two rows of one request have the same index, and so that the order of the
  query is strict, follows from what a jet drop's orders are and from an object's states of a pulse being in one
  jet drop (`Table`, `IndexesDiffer`, `OrderIsStrict`).
* **`SearchFindsRecord`** states `SearchLeadsToRecord`. What `Search` found is a row of the table
  (`Following`). If no jet drop was saved again it still is when the client asks for the lifeline from its
  index, it meets the filter, and whatever else does has a larger index (`FollowedFirst`).

The inductive invariant `IInv` is `Table`, the types, what a handler has at each stage (`Stage`), `Paging` and
`Following`. It is stated of a table, a handler, an answer and a client as parameters (`Inv`), so that
saving a jet drop, which leaves all but the table alone, is one lemma for the first time
(`SaveKeeps`) and one for the next (`ResaveKeeps`).

### How the proofs were prepared, and what is only model-checked

Each inductive invariant (`IInv` of `Pipeline`, `Extractor` and `PulseExporter`, `ProcessorInv`,
`PoolInv`, `Inv` and the paging invariant of `JetDropsAPI`, `IInv` of `PulsesAPI` and of `RecordsAPI`) was first checked by TLC on the instances of
the runs.

Only model-checked:

* all liveness properties (`SavedBecomesComplete`, `CompleteBecomesSequential`, `LoadEnds`, `StopEnds`,
  `MatchingPulsesArrive`, `StopReturns`, `EveryJetDropIsSaved`, `StopsWithDatabase`) and `RegisterForgets`, which
  depend on fairness;
* `sortRecords` and what the transformer promises (`EveryJetInOrder`, `NoRecordLost`,
  `InOrderOfChange`): recursive operators over sequences, beyond the prover's induction.

## 5. What is not modelled

* Migrations, configuration, logging, metrics, load tests, mocks and generated code:
  set-up, observation and tools, without state the properties depend on.
* `cmd/api`, `cmd/exporter-api`, `etl/exporter/server.go` and `instrumentation/profefe`: they start
  a server and wait for a signal.
* The access token and its refresh (`etl/connection/credentials.go`): no other part reads its
  state. Its hazard, a token read without the lock, is in `PROJECT.json` without a property.
* Dialling the platform (`NewGRPCClientConnection`): options and I/O. What follows, the
  watch of the connection, is a sender in `Shutdown`.
* The bytes of records: `transferToCanonicalRecord` is modelled by the type and the
  references it gives a record, not by its encoding.
* That the slice of `MissedData` implements the set in `Controller` is not stated as a
  refinement. `Controller` lets any range expire at any time, which is more than the
  slice does.
* `Pipeline` and `Processor` are not composed: the first has the transactions of `process`,
  the second the channels, and the product is out of TLC's reach.
