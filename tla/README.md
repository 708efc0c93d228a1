# Verification of gigapi-metadata

gigapi-metadata keeps the metadata of the Parquet files of a time-series store: which files
a table has, which of them are due to be merged, moved to another layer or deleted, and a
small key-value store. It is a Go library. The metadata lives in JSON files, in objects of an
S3 bucket, or in Redis. This directory holds TLA+ modules of its core, the TLC runs that
check them on small instances, and TLAPS proofs for every instance.

`tlc -workers 2 -config <run>.cfg MC<Module>.tla` repeats a run, `tlapm <Module>Proofs.tla` the
proofs about a module and `tlapm DataLemmas.tla` those of the lemmas they share. `PROJECT.json`
lists components, runs, mutants, hazards, findings and theorems, and maps each definition to the
lines it models.

## 1. The system

| Component | State it keeps | Operations |
|---|---|---|
| JSON partition index (`json_part_index.go`, `json_part_*_planner.go`) | entries, counters, time bounds, drop queue, `filesInMerge`; `metadata.json` | Batch, flush goroutine, GetMergePlan/EndMerge, GetDropQueue/RmFromDropQueue, GetMovePlan/EndMove, Stop, opening |
| S3 partition index (`s3_part_index.go`, `s3_client.go`) | the same, and the ETag and the pending changes; the object `metadata.json` | Batch, flush with checkAndPut and reloadAndMerge, opening |
| JSON and S3 table index (`json_index.go`, `s3_index.go`) | the open partitions of each layer | Batch split by partition, Query, planners that ask each partition |
| Hybrid index (`hybrid_index.go`) | a JSON and an S3 index | routes by the type of a layer |
| Redis index (`redis_index.go`, `patch_index.lua`) | hashes of files and folders, lists of tasks in Redis | Batch (one script), Query |
| Redis task queues (`redis_task_queue.go`, `get_merge_plan.lua`, planners) | `<key>:idle`, `<key>:processing` | push, processEntry, finishProcess |
| Key-value stores (`json_kv_store.go`, `s3_kv_store.go`, `redis_kv_store.go`) | a map in memory and its file or object; keys of Redis | Get, Put, Delete, Destroy |
| Promises (`promise.go`) | a result that is set once | Get, Peek, Done, WaitForAll |
| Database indexes (`*_db_index.go`) | none | list databases, tables, paths |

How they interact. A caller calls Batch of a table index, which splits the entries by
partition and calls Batch of each; a partition changes its memory under its mutex, appends a
promise and wakes its goroutine by cancelling a context. The goroutine takes the promises, writes
the partition and resolves them. Merge, move and drop workers poll the planners, do their
work on the data files, report it through Batch and tell the planner that they are done. In
the JSON and S3 backends the planners are the partitions themselves; in Redis they are lists,
filled by the script that executes Batch.

What is hard:

- *Interleaving.* Every partition and every key-value store is changed by callers while
  its goroutine saves it; some reads happen outside the mutex (`serializeToBytes`,
  `json.Marshal` of a live map, GetDropQueue, Query).
- *Crashes and restarts* between the steps of a save. What is read back must be what was written.
- *Failures.* A save that fails leaves memory ahead of the file. An upload may happen and
  report an error.
- *Several processes* on one S3 object: the ETag is compared in one request and the object is
  written in another, and conflicts are resolved by reading and merging.
- *Timeouts.* A Redis task is handed out again half an hour after a worker got it, whether
  that worker is dead or slow.
- *Wake-ups.* A change that comes while the goroutine saves must be saved by the next round.

What makes each component correct:

- Partition: an acknowledged Batch survives; counters and time bounds describe the files; no
  wake-up is lost; a file is in one merge plan at a time and no mark outlives its plan; every
  promise is resolved; every queued file is dropped.
- S3 partition: the same with conflicts; a flush gives up only if others wrote while it ran.
- Table and hybrid index: an acknowledged Batch is saved in every partition it touched; a move loses
  no file, also not for a query that is under way; every query is complete; no call waits for a
  partition that will not answer.
- Redis index: an acknowledged Batch is in the index; the folders count its files; merges and
  moves lose no row and double none; the data of an indexed file is not deleted; every file that is
  still to be merged is in a task; a query finds every row of its range, wherever it has been moved.
- Task queue: no task is lost, none is queued twice, a task is shared only after its
  timeout, a dead worker's task reaches another one, a finished one is gone.
- Key-value store: an acknowledged change stays until a later one replaces it; a change
  lost in a crash does not come back; the store can always be opened again.

## 2. Modules

### JsonPartIndex (with MCJsonPartIndex, JsonPartIndexProofs)

One partition of the JSON index. Each critical section of `J.m` is one action, and each step
the goroutine takes without the mutex is one of its own.

| Variable or action | Code |
|---|---|
| `mem` | entries, rowCount/parquetSizeBytes, minTime, maxTime, dropQueue |
| `disk`, `snap` | `metadata.json`; what flush is about to write |
| `promises`, `armed`, `stopped` | `J.promises`; `updateCtx` or `workCtx` is cancelled |
| `filesInMerge`, `plan` | `J.filesInMerge`; the plans the workers hold |
| `calls` | history: every call that asked for a change, and its answer |
| `Batch` | Batch with add, rm, the recalculated bounds and the drop queue; also the early return |
| `GetMergePlan`, `EndMerge`, `RmFromDropQueue` | the planners |
| `FlushBegin`, `FlushRename`, `FlushFail`, `FlushReply`, `FlushEnd` | flush: lock and snapshot, write and rename, or error, then onErr promise by promise |
| `Stop`, `LoopExit`, `Crash` | Stop; the other branch of the select; the process ends and populate reads the file |

Modelled with care: a Batch is skipped only if nothing is added and nothing in memory is
removed; the bounds are reset by the entry with Id 1, so a restart must restore `lastId`; the
bounds are recomputed over what is left; a file whose `MinTime` is 0, which stands for "not known",
leaves both bounds as they are, unless it has Id 1 (`Timed`); the drop queue is written with the field names
of `DropPlan` and read with others, so only its length survives (`Persisted`, `Reloaded`).
GetMovePlan changes nothing and EndMove looks into a map that is never made, so neither is an
action. Of the counters `rowCount` stands for both; a file has one row.

### S3PartIndex (with MCS3PartIndex, S3PartIndexProofs)

One partition opened by several processes over one object. `FlushBegin`, `Serialize`, `Stat`,
`Put`, `Reload`, `FlushEnd` follow flush request by request; `PutLost` is an upload whose
response is lost, `Fail` any other failing request, `Delete` a deletion from outside.
`Serialize` ranges over a `sync.Map` without the mutex: it must see what was there all the
time and may see what came or went (`window`). `object`, `etag`, `pending`, `attempt` are
those of the code; `stored`, the calls that some version of the object reflected, and `exposed`,
those that waited while a flush of their process met a conflict, are histories, and so are `behind`
and `met`: whether the object was uploaded since the process last knew it, and how many such
uploads a flush has met since it began (`GivesUpOnlyUnderContention`). `AckedStored` is
what is left of the promise of Batch when conflicts come: it excepts `exposed` calls, and
files that were removed before they were added, because reloadAndMerge applies all additions
before all removals.

### TableIndex (with MCTableIndex, TableIndexProofs)

The hybrid index over the JSON and the S3 table index, with their partitions reduced to what
the modules above show of them: a set in memory, a set that is saved, and a flush in one step.
An entry is a layer and a file, a partition a layer and an hour; files have names of their own. A
file lies in the hour in which it begins (`At`, its MinTime) and may go on in later ones (`Until`,
its MaxTime). A mover takes a plan with an empty `LayerTo`, which GetMovePlan offers for a file of
the last layer if that has a time to live, for no plan.

| Variable or action | Code |
|---|---|
| `parts`, `opened`, `saved` | `J.parts`; every partition opened so far, also those the map forgot; `metadata.json` |
| `lock` | `J.lock` of each backend: which call holds it |
| `Batch`, `Load`, `LoadFails`, `Apply`, `Answer` | Batch: the loops over backends, layers and partitions, populate, Batch of the partition, WaitForAllPromise |
| `Get` | Get, which may open a partition as well |
| `Query`, `ListHours`, `QueryLoad`, `QueryFails`, `RangeBegin`, `RangeEnd` | Query: findHours layer by layer, populate without the lock, Range over the `sync.Map` while Batch changes it |
| `GetMovePlan`, `RemoveOriginal`, `EndMove` | a mover: plan, copy, Batch that adds the copy, Batch that removes the original |
| `Flush`, `FlushFails`, `Stop`, `LoopExit`, `Crash` | the goroutines of the partitions, Stop, a restart |

Modelled with care: populate opens a partition and only then puts it into the map, so that two
goroutines may open one; a layer that cannot be opened ends the work in that layer and drops its
promises, and the other layers go on; WaitForAllPromise returns at the first error. `twice`
records the places that two opened partitions served; `AckedEverywhere`, `RowsKept` and
`QueryExact` speak of the others. A flush of an S3 partition whose ETag is not current puts its
pending changes on what it reads (`alone`).

### RedisIndex (with MCRedisIndex, RedisIndexProofs)

| Variable or action | Code |
|---|---|
| `db` | what Redis holds: the hash of files, the folders with their counters, the idle lists, the drop queue (`drops`) |
| `processing`, `jobs` | the processing lists; the task each worker has |
| `calls`, `Send`, `Answer` | Batch: each call is a goroutine with a request of its own, and res.Done |
| `Execute` | one run of `patch_index.lua`, which Redis executes as one step |
| `Process`, `AddEntry`, `DeleteEntry`, `Enqueue` | one entry of ARGV: process_file, delete_file, merge_entry and move_entry |
| `Argv` | the order in which Batch sends its entries: additions first |
| `Repeat`, `GiveUp` | the client library sends a request again, or gives it up |
| `GetTask`, `GetUntimed`, `GetStale` | `get_merge_plan.lua`: a task that is idle; one without a time, which is taken from the list before the script fails; one whose timeout is over |
| `Work`, `Abandon`, `EndTask` | a worker writes the new file (`Output`) and calls Batch, leaves its task, or ends it |
| `Drop` | the drop worker deletes the data of a file |
| `MainKeys`, `InHours`, `InRange`, `Query` | getMainKeys, filterKeys and filterValues |

Requests reach Redis in any order. An entry with an unusable path or layer ends the script after the
entries before it took effect. The log of what was executed, `acked` and `odd` (a file was added
twice, or one that is not indexed removed) are histories.

A file is the rows it holds. A row has the directory it was written to (`Home`) and the times of the
file it was written in (`MinTime`, `MaxTime`), which the code does not relate: the file may go on in
the next hours, or lie elsewhere. A merge joins files of one directory, so that its result has one
as well. A directory is an hour, and a day is a number of hours (`RedisIndexAssumption`).

There is a merge queue for each layer, iteration and directory and a move queue for each layer
(`QueueOf`), with timeouts and sizes of their own (`MergeTtl`, `MaxPlan`). NewRedisIndex puts a layer
with an empty name and no time to live in front of the configured ones, which `Layers` includes.
A file that is moved and whose iteration is not merged gets a task without a time (`HasTime`):
the first worker that asks for it makes the script throw it away (`GetUntimed`). A file that is
added again while it is in the last task is in that task twice (`again`).

The uuid of a name is the number `uid`: planners count theirs up from 1,
so that they are new, and files of users have others. Users write a row into one file and add that
once (`RowsAssumption`); a worker that merges is no user, and writes the rows of its task. The times
of a task and the two commands of finishing it are in RedisTaskQueue.

Query takes the days of After in the time zone of After (`zone` of a range), as `start.Format` does.
`QueryComplete` says what it finds: in the ranges whose days are all read (`ReadsDays`), each row in
the directory of the hour in which it begins, if it does not begin before the hour of After
(`Sought`). Section 4 has the others. Time zones whose offset changes are left out, and so are paths
without a slash, names with a second dot or with the iteration 0, and chunk times that are no numbers,
each of which ends the script in the middle of an entry.

### RedisTaskQueue (with MCRedisTaskQueue, RedisTaskQueueProofs)

One queue: `AddFile` is the part of `patch_index.lua` that makes tasks, `GetIdle`,
`GetUntimed` and `GetStale` are `get_merge_plan.lua`, `FinishScan`, `FinishRemove`,
`FinishFails` are the two commands of finishProcess, `Die` and `Tick` the environment. Times
are relative: the time left until a task is due. The queue of a behaviour is chosen by `Init`
from the constant `Queues` and stays in the variable `queue`. With `maxPlan > 0` it is a merge
queue, whose tasks collect files; with `maxPlan = 0` it is a move or drop queue, one file
to a task. `known = FALSE` is the drop queue as it is: the plan a worker decodes has no
writer, so finishProcess looks into another list. A worker that looks through several keys
(the SCAN in GetMergePlan) is left out: each key is a queue of its own.

### KVStore, JsonKVStore, S3KVStore (the stores with their Proofs and MC modules)

`KVStore` is the contract of `KVStoreIndex`: `Write` changes what Get reads, `Save` lets the
store move on to later values, `Answer` returns to a caller without an error only if the
store has its change or a later one, `Crash` forgets memory. The value of a key is the number of the call
that wrote it, so a lost or resurrected change is visible.

`JsonKVStore` is the store in a file: `Load`, `CreateFile`, `WriteEmpty` open it, `Write` is
Put or Delete, `SaveBegin` to `Release` follow doSave. doSave gives the live map to
`json.Marshal`, so `Marshal` may find for each key any value it had meanwhile. It implements
the contract (`KV == INSTANCE KVStore WITH ...`, property `ImplementsKVStore == KV!Spec`):
the store of the contract is what the file holds; its cache is `j.cache`, or, while the store
is closed, what it will load. Each step of the detailed module is a step of the contract or
changes nothing in it.

`S3KVStore` is the store in an object, opened by several processes, with the requests of
`S3PartIndex`: `SaveBegin`, `Marshal`, `Stat`, `Put`, `PutLost`, `Fail`, `Reload`, `Release`.
It does not implement the contract: reloadAndMerge forgets a Put that arrived while the save was
under way, and the next save acknowledges it. The module says what is left. What was acknowledged
was in the object, unless the call waited while a save of its process met a conflict
(`AckedStored`; `exposed` is the history of those calls), and a process that has the store to
itself and gets its responses keeps what it acknowledged (`SoleDurable`).

## 3. Runs

A pass means that TLC explored every reachable state of the instance.

| Run | Question | Bounds |
|---|---|---|
| JsonPartDurable | Batch, drops, failing flushes, Stop and a crash in every interleaving with the flush: acknowledged changes survive, bounds enclose the files with a MinTime, counters are exact, no wake-up is lost | 3 files, one without a MinTime, 3 calls, 1 crash |
| JsonPartWork | two merge workers and a drop worker over files that come and go: plans are disjoint, no mark is left over, every Batch and drop is answered, the drop queue drains | 2 plans, 2 calls, no crash |
| S3PartSingle | one process: acknowledged changes stay, with a failing request and a crash | 3 calls, up to 3 waiting |
| S3PartShared | two processes, conflicts, a lost response or a deletion of the object: what was acknowledged was in the object (with the exceptions of section 2), a flush that gives up met another's upload at each attempt, an idle process whose ETag agrees knows every file, every promise is resolved | 1 and 3 calls, 2 waiting per process, 1 lost response or deletion |
| RedisQueues | merge, move and drop queues: no file announced with a time is lost; a file is shared only after the timeout; who finishes in time finishes for good; every file with a time is handed out, whatever is in front of it; the task of a dead worker is handed out again | 3 files, 2 workers, 1 death or 1 failing LREM; both with 2 files |
| RedisIndex | calls that overtake each other, repeat, fail or end in the middle of the script, with workers that merge, move and drop: the properties of section 1, each with the faults it excepts | 7 sequences of calls, with 1 repeated request, 1 given up or 1 task handed out twice, or two of these; 3 rows in 2 days, one of which crosses an hour; 2 workers, up to 4 calls; 56 ranges in 3 time zones |
| TableIndex | Batch over both backends, moves, queries, failures, Stop and a crash: the properties of section 1 | 7 scenarios, 3 layers, 2 files in different hours, one of which crosses into the next, up to 6 calls |
| JsonKV | the JSON store implements the contract, can be opened after every crash, loses no wake-up, and every Put and Delete returns unless Destroy was called | 2 keys, 4 calls, 2 waiting, 1 failure, 2 crashes |
| S3KVShared | two processes: what was acknowledged was in the object; what a process alone acknowledged stays | 2 keys, 4 calls, 2 waiting per process, 1 failure, lost response or crash |

The other three runs are those of section 4. `S3KVShared` uses the symmetry of processes and of
keys, `RedisIndex` that of workers, which no definition of the modules tells apart; both check
invariants only. `RedisQueues`, `RedisIndex` and `TableIndex` check several small instances in one
run: `Init` chooses a scenario, which says what may happen, so that each combination
of actors and faults is explored without all of them at once.

Why these bounds are enough. The interesting orders need a change in the running save, one that came
after it began, and one that supersedes or repeats an earlier one: three calls. Three files give a
file that sets both bounds, one inside them, and a merge of two into the third. Conflicts need two
processes, and three uploads of the other to exhaust the three retries. In the queues, two files fit
into one task and a third does not; a timeout of two ticks makes "before", "at" and "after"
different. In TableIndex the interesting orders need a file that moves twice while a query passes
from layer to layer, two movers with one file, and a Batch over two partitions of which one fails;
in RedisIndex, two requests that overtake each other and two workers with one task. Its layers are
one in which files are merged and the results only moved, one in which they are moved before they
would be merged, one in which they are merged and stay, and the empty one; its scenarios two calls
that overtake each other (`Apart`, `Hasty`), files that share a task (`Together`), are moved and then
merged (`Moving`), are merged and get a task without a time (`Losing`), and scripts that end in the
middle (`Partial`, `Rewriting`). Names of files,
keys and workers are not special, so that more of them repeat the same cases. Deadlock is not
checked (`CHECK_DEADLOCK FALSE`): callers may stop calling, and the bounds on calls make every
instance end. That nobody waits for ever is what the liveness properties say.

Fairness. `WF(Flusher)`, `WF(Saver)`: the Go scheduler runs the goroutine of a partition or
store and system calls and requests return, with a result or an error. One fairness
condition covers the goroutine as a whole, so nothing is assumed about which case `select`
takes, nor that a request succeeds. `WF(DropHead)`: a drop worker polls, as the README of the
library tells its users to; `WF(Get)`, `WF(Finish)`, `WF(Tick)` for each worker: it polls and
finishes, and time passes. The liveness properties say only what follows from these; after
Stop or Destroy nothing is promised, as the goroutine has gone. TableIndex and RedisIndex assume no
fairness; `NobodyForgotten` is the invariant behind "every call returns", and `StillScheduled` that
behind "every file of an iteration that is merged comes to a worker". Of files that are only moved
nothing of the kind is true (section 4).

## 4. Where the code does not do what it says

Each is a run that states the sentence of the documentation, a comment or a test, and TLC shows the
behaviour; `PROJECT.json` quotes the sentence.

| Run | What happens |
|---|---|
| JsonPartDropRestart | the drop queue is written as `"Path"` and read as `"path"`: after a restart it offers an empty path for ever |
| S3PartConflict | a Batch that arrives during a conflict is dropped by the reload and acknowledged by the next flush |
| TableOpens | Query opens a partition without the lock, as a Batch does with it; of the two that are open one is not in the map, saves over the other, and an acknowledged Batch is lost |

The models reproduce more that a user of the library should know of, without a run of its own:

- GetMergePlan compares `max_size` before it adds the file, so that a plan exceeds it by its
  last file.
- A removal whose flush failed is gone from memory. Repeating it returns without an error, though
  `metadata.json` still has the file.
- checkAndPut is no compare-and-swap: another upload fits between its two requests and is
  overwritten. This is why `AckedStored` says "was in the object" and not "is".
- After a conflict, a file that was removed and added again before the flush is dropped
  (`AckedStored` speaks of files that no earlier call removed).
- A Put on an S3 key-value store may be dropped as in S3PartConflict (`exposed`).
- finishProcess reads the task and removes it in two commands. If the script restamps it in
  between, nothing is removed and no error is reported (`FinishedOnTime` excepts it).
- A file that can be moved and not merged is queued without a time. The script pops it, fails, and
  the task is gone, while the file stays indexed and is never moved (`NoFileLost` and
  `EveryFileHanded` speak of tasks with a time, `StillScheduled` of files that are merged).
- A file whose MinTime is 0 may lie outside the time bounds of its JSON partition, its MaxTime as
  well (`TimeEnvelope` speaks of the others).
- A drop plan is decoded without its writer: reporting it removes nothing, and it is handed out
  every half hour (`FinishedOnTime` speaks of queues with `known`).
- EndMerge of a JSON partition queues a promise without waking the goroutine: it stays pending until
  another call does (`PromiseResolved` speaks of Batch and of drops).
- A removed file enters the drop queue before the removal is saved; a crash in between leaves an
  indexed file whose data may be gone.
- findHours of the JSON index lists an hour twice when both limits are given (`QueryExact` excepts
  it). In both table indexes it rounds After to the next hour in its second half, in which files are
  then left out; and a file that begins before After and ends after it is left out if it began in
  an earlier hour (`QueryExact` speaks of an After on the hour and files that do not begin before it).
- The Redis index leaves out files that begin before the hour of After as well, although their MaxTime
  is in the range, and files whose directory is not that of the hour in which they begin may be
  missed at both ends (`Sought`). It leaves out the last day when the time of the day of After is not
  before that of Before, and reads the wrong days if After has another date in its own time zone than in
  UTC (`ReadsDays`).
- The move planners offer files of the last layer with an empty `LayerTo`, if that layer has a time to
  live. They offer one file at a time, so that such a plan may keep others waiting.
- A crash or a failed removal between the two halves of a move leaves the file in both layers. In a
  hybrid index whose file-system and S3 layers alternate, the next layer of the backend and the next
  layer of the configuration differ, and the former is used (`LayersTo`).
- Removing a file twice in Redis, because a Batch was repeated or two workers did one merge, takes
  its folder's counter down twice: a folder with files may vanish from Paths
  (`FoldersExact` excepts it). A repeated addition brings back a file that was merged meanwhile,
  and whose data is then dropped (`DeletedUnindexed`).
- Every Batch of the Redis index is a goroutine of its own: the removal of a file may be executed
  before its addition, which then stays.
- A script that meets an invalid path or layer stops with an error; the entries before it stay
  indexed. With an unknown layer the entry itself is indexed and never queued (`StillScheduled`
  speaks of known layers; an empty name counts as one).
- Removing a file does not take it out of its merge task: a merge that still finds the data brings
  its rows back.

## 5. Proofs

The theorems hold for every value of the constants: any number of files, processes, users, workers
and calls, any bounds, any interleaving.

| Module | Theorem | Statement | Inductive invariant |
|---|---|---|---|
| JsonPartIndexProofs | TypeCorrect | `[]TypeOK` | TypeOK |
| | MergePlansDisjoint, MergeMarksReleased | `[]MergeExclusive`, `[]MergeMarksOwned` | MergeInv |
| | AcknowledgedIsDurable | `[]AckedDurable` | DurableInv |
| | NoWakeUpLost | `[]QuiescentSync` | SyncInv |
| | BoundsEnclose | `[]TimeEnvelope` | EnvelopeInv |
| | RowCountCorrect | `[]RowCountExact` | RowInv |
| S3PartIndexProofs | TypeCorrect | `[]TypeOK` | TypeOK, FlusherWoken |
| | AckedWereStored | `[]AckedStored` | and PromisesCovered |
| | SoleWriterDurable, SingleWriterDurable | `[]AckedDurable` of one process | and SoleKept |
| | IdleKnowsObject | `[]IdleInSync` | and InSync |
| | OnlyContentionExhausts | `[]GivesUpOnlyUnderContention` | and Contended |
| RedisTaskQueueProofs | TypeCorrect | `[]TypeOK` | TypeOK |
| | SharedOnlyAfterTimeout | `[]ExclusiveWithinTimeout` | LeaseInv |
| | NothingLost | `[]NoFileLost` | LeaseInv, LossInv |
| | ReportedInTimeIsGone | `[]FinishedOnTime` | LeaseInv, FinishInv |
| RedisIndexProofs | TypeCorrect | `[]TypeOK` | Inv |
| | AcknowledgedShown | `[]AckedIndexed` | and Recorded, AckedShown |
| | DeletedNotIndexed | `[]DeletedUnindexed` | and Dropped |
| | FoldersCount | `[]FoldersExact` | and FoldersInv |
| | AllScheduled | `[]StillScheduled` | and Scheduled |
| | RowsNeitherLostNorDoubled | `[]RowsExact` | and Scheduled, Made, Kept, Once |
| | QueriesComplete | `[]QueryComplete` | follows from Inv and RowsExact |
| JsonKVStoreProofs | TypeCorrect | `[]TypeOK` | TypeOK, SaverWoken |
| | FileLoads | `[]Loadable` | and FileWhole, TmpWritten |
| | JsonImplementsKVStore | `ImplementsKVStore`, the contract | StoreInv |
| | ValuesAboutKeys, AcknowledgedInFile, LostNotInFile | `[]KV!TypeOK`, `[]KV!Durable`, `KV!LostStaysLost` | ContractInv, by refinement |
| S3KVStoreProofs | TypeCorrect | `[]TypeOK` | TypeOK, SaverWoken |
| | AckedWereStored | `[]AckedStored` | and PromisesCovered |
| | SoleWriterDurable | `[]SoleDurable` | and SoleKept |
| TableIndexProofs | TypeCorrect | `[]TypeOK` | TypeInv |
| | NoneForgotten | `[]NobodyForgotten` | and Promised, Locked |
| | AcknowledgedEverywhere | `[]AckedEverywhere` | Kept: TypeInv, Promised, Single, Durable |
| | FilesKept | `[]RowsKept` | Followed: Kept, Logged, Moved |
| | QueriesExact | `[]QueryExact` | Exact: Followed, Counted, Sought |

`DataLemmas` has the facts about data that several of them need: sequences that grow or change in
one place, minima, division.

Assumptions, which TLC evaluates in every run of their modules: `FilesAssumption` (finitely many
files, times are natural numbers, requests are sets of files); `MergeAssumption` (sizes and limits are
natural numbers); `TaskQueueAssumption` (the timeout is positive, and the tasks of a merge queue
have a time, as `merge_entry` gives them one); `S3Assumption` (finitely many processes and at least
one, at least one retry, and marks for "no object" and "no ETag" that are neither);
`JsonKVAssumption` and `S3KVAssumption` (the same of the stores); `RedisIndexAssumption` (times and
limits are natural numbers, a day is a number of hours, workers are not users, calls are lists of
files whose rows are of one directory and whose names no planner made; nothing relates the times of a
row to its directory); `RowsAssumption` (no two entries
that users add share a row, unless one has an unusable name), which only RowsNeitherLostNorDoubled
needs; `TableAssumption` (the layers have distinct names and are of one of two types, files begin at
2 or later, so that 0 and 1 are free, and the mark None is none of what it marks) and
`ScenarioAssumption` (requests are sets of entries, bounds are natural numbers). `KVStore` assumes
nothing. Every inductive invariant was an
invariant of a TLC run before it was proved.

Why the properties are not inductive by themselves, and what the invariants add:

*JsonPartIndex.*

- MergeInv adds `PlansMarked`: every file in a plan is marked. Disjointness follows because a
  new plan takes unmarked files only, and EndMerge can drop the marks of its plan because no
  other plan has them.
- DurableInv follows a call through the flush. A call that waits in `promises` is covered by
  memory (`MemoryCovers`); a call held by the flush is covered by the snapshot
  (`SnapshotCovers`) until the rename and by the file after it (`ReplyCovers`); one that a
  flush will answer has no answer yet (`UnansweredPending`). The rename takes all answered
  calls along since the snapshot covers them as well. A later opposite call only ever
  weakens the claim.
- SyncInv: unless the goroutine is woken, the snapshot or the file is memory (`InSync`), and a
  running flush will answer the calls that it holds (`Due`). An error answer is why the
  theorem excludes failed flushes: nothing wakes the goroutine again after one.
- EnvelopeInv says the bounds enclose the files with a MinTime in memory, snapshot and file, and that
  a partition with files has issued an Id, so that the reset at Id 1 happens only when it is empty.
- RowInv carries the counters through memory, snapshot and file while no call repeats an
  addition.

*S3PartIndex.*

- FlusherWoken: a process that is woken has a promise, one that flushes has one in hand.
- PromisesCovered: a call that waits is noted in `pending` (`Waiting`), one in hand is noted in what the
  flush took of it and, unless it was exposed to a conflict, bounds what the flush may read, then what it
  writes, and is in `stored` before the answer is that it succeeded (`InHand`). A Reload
  restores this from the noted changes: all additions, then all removals.
- SoleKept: while one process calls and no response is lost, it knows the object (its ETag is the
  object's, so that it never reloads), and its files, the snapshot of its flush and the object
  reflect every acknowledged call (`Alone`).
- InSync: ETags are only given once (`Versions`), and from the beginning of a flush of a process on
  which nobody calls Batch, snapshot and files agree, up to the ETag it gets (`Follows`).
- Contended: a process whose ETag is not the object's is `behind`. While a flush runs, the uploads it
  met are at least as many as its attempts that failed, and one more when it is behind, as that
  attempt has to fail too (`Pressed`): the upload that put it there either came during the flush or
  is the one that `met` starts with. With `attempt` at its maximum this is the property.

*RedisTaskQueue.*

- LeaseInv: no task is queued twice and no file is in two tasks (`QueuedOnce`), which needs that an
  unannounced file is in none (`Unannounced`). The task a worker has is not idle, and in the
  processing list it has the files the worker got and comes up only when the worker has had it for
  the timeout: the time it was held and the time that is left add up to at least the timeout
  (`Leased`).
- LossInv: a task without a time, which the script loses, holds no file with one; and LREM
  removes only tasks whose files were processed, since the task has the files of the worker (`Leased`).
- FinishInv: the string LRANGE returned is still in the list or the task was handed out again,
  so that LREM after a report in time removes the one task of that id.

*RedisIndex.* The script folds over its entries. `FoldsExist` unfolds the fold of the community
modules, so that a script is a run: a sequence of states from the hashes before it to those after
it, one step to an entry (`ScriptRuns`). `ScriptInTwo` cuts it into its additions and its removals,
`ScriptDoes`, `ScriptTasks` and `ScriptExact` say what a whole script does to the files, to the
tasks and to the folders, errors in the middle included. Every other step leaves the hashes and the
log alone (`Quiet`).

- Inv adds to TypeOK that the files of a task are those of its queue (`QueuesSorted`, `OfQueue`), so that
  they share route, layer and, in a merge queue, iteration and directory; a task that moves has one
  file. The same holds of tasks in process and with a worker (`Sorted`), which is why the result of a
  merge is a file of one directory again (`OutputIsFile`). Names of idle tasks are distinct (`Named`).
- Recorded and AckedShown follow a call from its script to its answer: its entry in the log shows in
  the index, or a later entry undid it.
- Dropped: a file in the drop queue was removed by a script, and added by a later one if it is indexed.
- FoldersInv: as long as nothing odd happened, the folders are `Exact`. For a script, the additions
  must be distinct and new, and the removals distinct and indexed when the additions are done; a
  script that ends in an error need only satisfy the former.
- Scheduled: an indexed file of an iteration that is merged (`Due`) is in an idle task or in one in
  process that no worker has done (`Ready`, `Open`). A task that GetUntimed throws away has no such
  file. A worker's call removes the files of its task (`Assigned`), and the task
  in process under a worker's name has the same files (`Agree`) and is not idle (`Apart`), so that
  EndTask, which removes tasks by name, takes only files that the script has removed; a file added
  again meanwhile is in another task.
- Made: every file in a task was named before the result that a worker gives it (`Dated`, `Handed`,
  `Begun`), and a worker's call adds that result (`Requested`). Hence the result is none of the
  files the call removes, so that the script, which adds first, does not remove it again.
- Kept: a row of an executed or acknowledged call is in an indexed file, or a user's call removed it
  and added no other file with it (`Shows`). A worker's call keeps it because its result has the rows
  of everything it removes (`OutputRows`).
- Once: as long as there is no excuse (`Excused`: a request repeated or ended in an error, a task
  handed out again), the rows are spread: no row is in two idle tasks (`Scattered`), in two of the
  tasks workers have or in one of each (`WithWorkers`); a file with a row of a task is in that task,
  and no two files share one (`Indexed`); and rows a user has yet to add are nowhere (`Fresh`). A
  worker has a task in this sense until its call is executed (`Busy`), which moves the rows into its
  result; `ScriptRows` follows them through the script, and `Brings` is what the calls of users
  and workers have in common.
- QueriesComplete needs no invariant of its own: a row that was acknowledged is in an indexed file
  (RowsExact), whose directory is that of the row; `QueryFinds` is that the days and hours the query
  reads include it, by the laws of division.

*TableIndex.*

- TypeInv adds to TypeOK that the layer of whatever is saved, open, logged or queried is configured
  (`Layered`), that a Range runs in an hour the query still has to do (`Ranged`), that a mover
  waiting for a copy has asked for it (`Plans`), and that a call which has been answered has nothing
  left to do (`Answered`).
- Promised is the first half of NobodyForgotten: a flush resolves the promises of the partition and
  no others, so that a promise in a partition the map forgot is still answered. Locked is the second.
- Single: a place that was never opened twice has one partition, whose ETag is current, so that
  a flush writes what is in memory. Durable: each call in the log of such a place that may still be
  answered without an error (`Good`: answered so, or pending without a failure) is reflected in the
  memory of that partition, and in what is saved once the place is no longer among its `waits`. Here
  an entry is reflected also if a later call in the log undid it. `StoredStep` says where
  every saved set and every memory comes from. A failing flush makes the calls it drops fail.
- Logged: a call that may still be answered without an error has changed every place that it is done
  with. Moved: who is no writer removes an entry only if a copy in a layer that follows was
  acknowledged (`Copied`).
- RowsKept follows by looking at the last layer. The layers are ordered by `Position`, in which every
  move goes forward (`MoveLater`), so that of the layers in which the file was acknowledged there
  is a last one (`LastLayer`). No mover has removed the file there, since its copy would be in a later
  one; so neither what is saved nor what is in memory can have lost it (`LatestKept`). Nothing
  is said of how many movers have the file, or where they failed.
- QueriesExact uses the same of a query under way. Sought: each file that the query must return
  is counted already, or was acknowledged in a layer whose turn is to come (`Ahead`: a later layer,
  or an hour it has to do, and, if a Range runs there, among the entries that it will see). Since
  moves go in the order in which the query reads, a file can only be moved towards its turn:
  whenever the query passes an hour, the last layer of the file is there or ahead (`LastAhead`).
  That findHours lists the hour (`CoveredHour`) needs that After begins an hour and the file does not
  begin before, and that the directory or the metadata.json of a saved partition is there. Counted: nothing is counted twice, as an hour is listed once
  (`ListedOnce`) and layers are passed once.

*Key-value stores.*

- The contract: its type invariant says that the value of a key is a call about that key, which
  Durable needs; AliveInv says that no call since the opening is lost, and Save takes from those
  only. The theorems about the contract are proved of `KV`, the instance that the JSON store
  implements, and use nothing but its definitions.
- StoreInv of the JSON store: the saver is woken for each promise (SaverWoken); the file is whole
  once the store was opened, and `.tmp` holds what was marshalled when it is renamed (FileWhole,
  TmpWritten); what is in memory is the value of the file or that of a later live call, and what a
  save found is in between (MapsAhead); a promise is in memory, one in hand in what the save found,
  and in the file before the answer (PromisesCovered). With it every step is a step of the contract,
  the rename being Save and the release Answer.
- PromisesCovered and SoleKept of the S3 store are those of the S3 partition, with values instead of
  sets of files: pending changes and the object are never behind the calls they must have.

Induction over numbers (runs of a script, the last layer of a file) is by least counterexample: a
set of numbers that is not empty has a least member (`MinIn`, `Induct` of DataLemmas).

Only model-checked: all liveness properties, since their fairness arguments (WF, `ENABLED`) are
beyond the proof system; and that `JsonPartDropRestart`, `S3PartConflict` and `TableOpens` violate
what the documentation says.

## 6. Not modelled, and why

- *Planners of the S3 partition, merge and drop planners of the tables*: the former are the code of
  the JSON partition over the S3 partition; the latter ask one partition after the other under the lock.
- *Options Folder and Iteration of Query, GetAll, HSCAN in several steps*: filters on single entries,
  reads of everything, and hashes of more than 10000 files.
- *Objects and files that do not parse*: the module's processes write what they serialized, nothing
  else does. reloadAndMerge resets memory and takes the new ETag before it parses, so that a foreign
  object that does not parse leaves an empty or partial partition, which the next flush uploads over it.
- *Moves without a target, time zones whose offset changes, paths, names and chunk times that the
  script cannot take apart*: see section 2.
- *A Redis request executed after the client gave it up* and *a merge and a move of one file at a time
  in the JSON backend*: not composed.
- *Peek reads the result of a promise without the lock*: a data race whose outcomes need a memory model.
- *Redis key-value store, database indexes*: single commands or listings without state.
- *fsync and power failures*: a crash is the death of a process; the code never syncs.
- *Marshalling and torn reads*: the formats appear where they change what is read back (the
  drop queue, the empty path, the task without a time or a writer). A concurrent map access
  that the Go runtime detects ends the process, which is a `Crash`.
- *One store on one file opened twice* by different processes in the JSON backend: the code
  does nothing to make this work and its documentation does not offer it.
- *GetDropQueue without the mutex*: it is an atomic read in the model; the slice it may see
  torn is listed among the hazards.

## 7. Plan

The order follows what would hurt most: losing acknowledged metadata, then doing work twice
or never, then queries.

Done: 1. `JsonPartIndex` and its proofs. 2. `S3PartIndex`. 3. `RedisTaskQueue` and its proofs.
4. `KVStore`, `JsonKVStore`, which implements it, and `S3KVStore`. 5. `TableIndex`. 6. `RedisIndex`. The
proofs of section 5: every invariant that a run checks is a theorem.

To extend the model: the planners and the drop queue of `S3PartIndex`, which reloadAndMerge
rebuilds, and its Stop; an abstract `FileIndex` (a set of files and the promise of Batch) that the
JSON and the single-process S3 partition implement and `TableIndex` uses.

To prove: that `JsonPartIndex` and a single-process `S3PartIndex` implement `FileIndex`, so that what
`TableIndex` takes for a partition is shown of both.
