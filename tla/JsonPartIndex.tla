---------------------------- MODULE JsonPartIndex ----------------------------
(***************************************************************************)
(* One partition (date=../hour=..) of the JSON index: the type             *)
(* jsonPartIndex of json_part_index.go with its merge, move and drop       *)
(* planners.                                                               *)
(*                                                                         *)
(* Callers change the partition in memory under the mutex J.m and get a    *)
(* promise; they wake a background goroutine, which snapshots the          *)
(* partition under the mutex, writes the snapshot to metadata.json.bak     *)
(* without it, renames the file over metadata.json and resolves the        *)
(* promises it took with the snapshot.  Every critical section of J.m is   *)
(* one action; the steps the goroutine takes without the mutex are actions *)
(* of their own, so that callers interleave with them.                     *)
(*                                                                         *)
(* Abstractions.  A data file is immutable and named by a UUID, so its     *)
(* metadata is a function of its path and the map J.entries is the set of  *)
(* its paths.  Every file holds one row: rowCount stands for the two       *)
(* counters that are kept the same way, J.rowCount and J.parquetSizeBytes. *)
(* Of J.lastId only "is it 0?" matters (idIssued).  The content of         *)
(* metadata.json.bak is never read, so it is not a variable.               *)
(***************************************************************************)
EXTENDS Integers, Sequences, FiniteSets, FiniteSetsExt

CONSTANTS
  Paths,        \* the data files of the partition
  EntryMin,     \* MinTime of each file
  EntryMax,     \* MaxTime of each file
  EntrySize,    \* SizeBytes of each file
  Iteration,    \* the merge iteration in the suffix ".<n>.parquet" of each file
  MaxSize,      \* max_size of the merge configuration of each iteration
  Workers,      \* the goroutines that execute merge plans
  Blank,        \* the Path "" of a DropPlan without content
  Requests,     \* the arguments <<add, rm>> callers give to Batch
  MaxBatches,   \* bound: calls of Batch
  MaxPlans,     \* bound: merge plans handed out
  MaxCrashes    \* bound: crashes of the process

ASSUME FilesAssumption ==
  /\ IsFiniteSet(Paths)
  /\ Blank \notin Paths
  /\ EntryMin \in [Paths -> Nat]   \* Unix nanoseconds; 0 is "not known"
  /\ EntryMax \in [Paths -> Nat]
  /\ Requests \subseteq (SUBSET Paths) \X (SUBSET Paths)
ASSUME MergeAssumption ==
  /\ EntrySize \in [Paths -> Nat]
  /\ MaxSize \in Seq(Nat)
  /\ Iteration \in [Paths -> Nat]

VARIABLES
  mem,          \* the partition in memory: entries, counters, drop queue
  idIssued,     \* J.lastId > 0
  promises,     \* J.promises: the calls the next flush will answer
  armed,        \* J.updateCtx is cancelled: doUpdate() was called
  stopped,      \* J.workCtx is cancelled: Stop() was called
  filesInMerge, \* J.filesInMerge
  pc,           \* where the goroutine of Run() is
  snap,         \* flush: the snapshot it writes
  held,         \* flush: the promises taken with the snapshot
  outcome,      \* flush: what it will answer
  disk,         \* metadata.json
  plan,         \* the merge plan each worker holds
  calls,        \* every call that asked for a change, in the order of J.m
  crashes       \* bound: crashes so far

loopVars == <<pc, snap, held, outcome>>
vars == <<mem, idIssued, promises, armed, stopped, filesInMerge, loopVars,
          disk, plan, calls, crashes>>

-----------------------------------------------------------------------------
(* The data.                                                               *)

\* What metadata.json holds.  Of the drop queue it is the length: flush writes
\* the queue with the field names of DropPlan ("Path") and populate looks for
\* others ("path"), so nothing else of an item survives (see Reloaded).
DiskRecord == [files : SUBSET Paths, rowCount : Int, minTime : Nat,
               maxTime : Nat, drops : Nat]
MemRecord == [files : SUBSET Paths, rowCount : Int, minTime : Nat,
              maxTime : Nat, dropQueue : Seq(Paths \cup {Blank})]

\* A missing metadata.json and one without files load the same partition.
EmptyDisk == [files |-> {}, rowCount |-> 0, minTime |-> 0, maxTime |-> 0,
              drops |-> 0]

Persisted(m) == [files |-> m.files, rowCount |-> m.rowCount,
                 minTime |-> m.minTime, maxTime |-> m.maxTime,
                 drops |-> Len(m.dropQueue)]
Reloaded(d) == [files |-> d.files, rowCount |-> d.rowCount,
                minTime |-> d.minTime, maxTime |-> d.maxTime,
                dropQueue |-> [i \in 1 .. d.drops |-> Blank]]

\* populateFiles: lastId becomes the greatest Id in the file.
IdRestoredNever(d) == FALSE                                        \* mutant
IdRestored(d) == d.files # {}

Least(S) == {x \in S : \A y \in S : x <= y}
Greatest(S) == {x \in S : \A y \in S : x >= y}
SizeOf(S) == MapThenSumSet(LAMBDA p : EntrySize[p], S)

\* The orders in which the elements of S can stand in a list.
Listings(S) == {s \in [1 .. Cardinality(S) -> S] :
                  \A p \in S : \E i \in 1 .. Cardinality(S) : s[i] = p}

\* RmFromDropQueue: the last item takes the place of item i.
SwapRemove(q, i) == [k \in 1 .. Len(q) - 1 |-> IF k = i THEN q[Len(q)] ELSE q[k]]

-----------------------------------------------------------------------------
(* Promises and the wake-up of the goroutine.                              *)

Call(kind, add, rm, queued, again) ==
  [kind |-> kind, add |-> add, rm |-> rm, queued |-> queued, again |-> again,
   res |-> IF queued THEN "pending" ELSE "ok"]

\* NewPromise, appended to J.promises: the caller waits for a flush.
Queue(c) ==
  /\ calls' = Append(calls, c)
  /\ promises' = promises \cup {Len(calls) + 1}

\* Fulfilled(nil, 0): the caller is answered at once, nothing changes.
AnswerNow(c) ==
  /\ calls' = Append(calls, c)
  /\ UNCHANGED <<mem, idIssued, promises, armed>>

SignalLost == UNCHANGED armed                                      \* mutant
Signal == armed' = TRUE

BatchCalls == {i \in DOMAIN calls : calls[i].kind = "batch"}
MergeCalls == {i \in DOMAIN calls : calls[i].kind = "merge"}
PlanHolders == {w \in Workers : plan[w] # {}}

-----------------------------------------------------------------------------
(* Batch.  JSONIndex.Batch holds its own lock across the call, so that the  *)
(* ids of a call are taken in the order in which J.m is; the calls of one   *)
(* partition never overlap.                                                *)

\* rm() skips a path that is not in the map.
RemovedBlindly(rm, indexed) == rm                                  \* mutant
Removed(rm, indexed) == rm \cap indexed

\* add(): the entry with Id 1, the first of the list, sets both bounds.
FirstBounds(add) ==
  IF idIssued \/ add = {} THEN {<<mem.minTime, mem.maxTime>>}
  ELSE {<<EntryMin[p], EntryMax[p]>> : p \in add}

\* Every other entry widens them if its MinTime is known, MaxTime included.
Timed(S) == {p \in S : EntryMin[p] # 0}
LowAfterAdd(low, add) == Least({low} \cup {EntryMin[p] : p \in Timed(add)})
HighAfterAdd(high, add) == Greatest({high} \cup {EntryMax[p] : p \in Timed(add)})

\* The last file of the list q that was in the map.
LastRemoved(q, removed) ==
  {q[i] : i \in {i \in DOMAIN q : /\ q[i] \in removed
                                 /\ \A j \in DOMAIN q : q[j] \in removed => j <= i}}

\* rm(): a bound is computed anew when a file that attains it leaves; over an
\* empty map the loop has no body, and the bound of the last file remains.
LowAfterRm(low, removed, kept, q) ==
  IF \A p \in removed : EntryMin[p] # low THEN {low}
  ELSE Least({EntryMin[p] : p \in IF kept = {} THEN LastRemoved(q, removed) ELSE kept})
HighAfterRm(high, removed, kept, q) ==
  IF \A p \in removed : EntryMax[p] # high THEN {high}
  ELSE Greatest({EntryMax[p] : p \in IF kept = {} THEN LastRemoved(q, removed) ELSE kept})

\* The change itself: add, then rm in the order of the list q, then every path
\* of rm on the drop queue, those that were not in the map included.
ApplyBatch(add, rm) ==
  LET indexed == mem.files \cup add
      removed == Removed(rm, indexed)
      kept    == indexed \ rm
  IN /\ idIssued' = (idIssued \/ add # {})
     /\ \E first \in FirstBounds(add), q \in Listings(rm) :
        \E low \in LowAfterAdd(first[1], add), high \in HighAfterAdd(first[2], add) :
        \E newLow \in LowAfterRm(low, removed, kept, q),
           newHigh \in HighAfterRm(high, removed, kept, q) :
             mem' = [files     |-> kept,
                     rowCount  |-> mem.rowCount + Cardinality(add) - Cardinality(removed),
                     minTime   |-> newLow,
                     maxTime   |-> newHigh,
                     dropQueue |-> mem.dropQueue \o q]

Batch(add, rm) ==
  /\ Cardinality(BatchCalls) < MaxBatches
  /\ LET again == add \cap mem.files # {}
         nothing == add = {} /\ Removed(rm, mem.files) = {}
     IN \/ /\ nothing
           /\ AnswerNow(Call("batch", add, rm, FALSE, again))
        \/ /\ ~nothing
           /\ ApplyBatch(add, rm)
           /\ Queue(Call("batch", add, rm, TRUE, again))
           /\ Signal
  /\ UNCHANGED <<stopped, filesInMerge, loopVars, disk, plan, crashes>>

-----------------------------------------------------------------------------
(* The planners.                                                           *)

\* The slots of the drop queue RmFromDropQueue finds for a path.
SlotsButFirst(p) == {i \in DOMAIN mem.dropQueue \ {1} : mem.dropQueue[i] = p} \* mutant
Slots(p) == {i \in DOMAIN mem.dropQueue : mem.dropQueue[i] = p}

\* The call for a path that is not queued is answered at once and changes
\* nothing.
RmFromDropQueue(p) ==
  /\ \E i \in Greatest(Slots(p)) :
       mem' = [mem EXCEPT !.dropQueue = SwapRemove(@, i)]
  /\ Queue(Call("drop", {}, {}, TRUE, FALSE))
  /\ Signal
  /\ UNCHANGED <<idIssued, stopped, filesInMerge, loopVars, disk, plan, crashes>>

\* The path of the plan GetDropQueue offers; a caller takes Blank for "none".
GetDropQueue == IF mem.dropQueue = <<>> THEN Blank ELSE Head(mem.dropQueue)

\* ripe: the files whose ChunkTime is older than the timeout of the iteration.
EligibleAgain(it, ripe) == {p \in mem.files \cap ripe : Iteration[p] = it} \* mutant
Eligible(it, ripe) == {p \in mem.files \cap ripe : Iteration[p] = it} \ filesInMerge

\* The scan, in an order of its own, takes files while the size taken so far
\* is within the limit.
Scanned(from, it, ripe) ==
  /\ from = Eligible(it, ripe) \/ SizeOf(from) > MaxSize[it]
  /\ \E last \in from : SizeOf(from \ {last}) <= MaxSize[it]

GetMergePlan(w, it, ripe) ==
  /\ plan[w] = {}
  /\ Cardinality(MergeCalls) + Cardinality(PlanHolders) < MaxPlans
  /\ \E from \in SUBSET Eligible(it, ripe) :
       /\ Scanned(from, it, ripe)
       /\ filesInMerge' = filesInMerge \cup from
       /\ plan' = [plan EXCEPT ![w] = from]
  /\ UNCHANGED <<mem, idIssued, promises, armed, stopped, loopVars, disk,
                 calls, crashes>>

\* Files that left the index keep their mark.
UnmarkIndexed(from) == filesInMerge' = filesInMerge \ (from \cap mem.files) \* mutant
Unmark(from) == filesInMerge' = filesInMerge \ from

\* EndMerge queues its promise without waking the goroutine.
EndMerge(w) ==
  /\ plan[w] # {}
  /\ plan' = [plan EXCEPT ![w] = {}]
  /\ Unmark(plan[w])
  /\ \/ /\ plan[w] \cap filesInMerge # {}
        /\ Queue(Call("merge", {}, {}, TRUE, FALSE))
        /\ UNCHANGED <<mem, idIssued, armed>>
     \/ /\ plan[w] \cap filesInMerge = {}
        /\ AnswerNow(Call("merge", {}, {}, FALSE, FALSE))
  /\ UNCHANGED <<stopped, loopVars, disk, crashes>>

-----------------------------------------------------------------------------
(* The goroutine of Run.                                                   *)

\* The select, with the critical section at the start of flush: a new
\* updateCtx, the snapshot and the promises it will answer.
FlushBeginKeeping ==                                               \* mutant
  /\ pc = "select"
  /\ armed
  /\ armed' = FALSE
  /\ snap' = Persisted(mem)
  /\ held' = promises
  /\ pc' = "write"
  /\ UNCHANGED <<mem, idIssued, promises, stopped, filesInMerge, outcome, disk,
                 plan, calls, crashes>>
FlushBegin ==
  /\ pc = "select"
  /\ armed
  /\ armed' = FALSE
  /\ snap' = Persisted(mem)
  /\ held' = promises
  /\ promises' = {}
  /\ pc' = "write"
  /\ UNCHANGED <<mem, idIssued, stopped, filesInMerge, outcome, disk, plan,
                 calls, crashes>>

\* The rename, the only step of flush that changes metadata.json.
FlushRename ==
  /\ pc = "write"
  /\ disk' = snap
  /\ outcome' = "ok"
  /\ pc' = "reply"
  /\ UNCHANGED <<mem, idIssued, promises, armed, stopped, filesInMerge, snap,
                 held, plan, calls, crashes>>

\* Creating, writing or renaming the file failed.  Memory keeps the change.
FlushFailIgnored ==                                                \* mutant
  /\ pc = "write"
  /\ outcome' = "ok"
  /\ pc' = "reply"
  /\ UNCHANGED <<mem, idIssued, promises, armed, stopped, filesInMerge, snap,
                 held, disk, plan, calls, crashes>>
FlushFail ==
  /\ pc = "write"
  /\ outcome' = "err"
  /\ pc' = "reply"
  /\ UNCHANGED <<mem, idIssued, promises, armed, stopped, filesInMerge, snap,
                 held, disk, plan, calls, crashes>>

\* onErr: the promises are resolved one after the other, oldest first.
FlushReply ==
  /\ pc = "reply"
  /\ \E i \in Least(held) :
       /\ calls' = [calls EXCEPT ![i].res = outcome]
       /\ held' = held \ {i}
  /\ UNCHANGED <<mem, idIssued, promises, armed, stopped, filesInMerge, pc,
                 snap, outcome, disk, plan, crashes>>

FlushEndRearms ==                                                  \* mutant
  /\ pc = "reply"
  /\ held = {}
  /\ pc' = "select"
  /\ armed' = FALSE
  /\ UNCHANGED <<mem, idIssued, promises, stopped, filesInMerge, snap, held,
                 outcome, disk, plan, calls, crashes>>
FlushEnd ==
  /\ pc = "reply"
  /\ held = {}
  /\ pc' = "select"
  /\ UNCHANGED <<mem, idIssued, promises, armed, stopped, filesInMerge, snap,
                 held, outcome, disk, plan, calls, crashes>>

Stop ==
  /\ ~stopped
  /\ stopped' = TRUE
  /\ UNCHANGED <<mem, idIssued, promises, armed, filesInMerge, loopVars, disk,
                 plan, calls, crashes>>

\* select takes this branch even when updateCtx is cancelled as well.
LoopExit ==
  /\ pc = "select"
  /\ stopped
  /\ pc' = "exited"
  /\ UNCHANGED <<mem, idIssued, promises, armed, stopped, filesInMerge, snap,
                 held, outcome, disk, plan, calls, crashes>>

\* The process dies, callers and workers with it, and a new one opens the
\* partition: newJsonPartIndex, populate, Run.
Crash ==
  /\ crashes < MaxCrashes
  /\ crashes' = crashes + 1
  /\ mem' = Reloaded(disk)
  /\ idIssued' = IdRestored(disk)
  /\ promises' = {} /\ armed' = FALSE /\ stopped' = FALSE
  /\ filesInMerge' = {} /\ plan' = [w \in Workers |-> {}]
  /\ pc' = "select" /\ snap' = EmptyDisk /\ held' = {} /\ outcome' = "ok"
  /\ calls' = [i \in DOMAIN calls |->
                 IF calls[i].res = "pending" THEN [calls[i] EXCEPT !.res = "lost"]
                 ELSE calls[i]]
  /\ UNCHANGED disk

-----------------------------------------------------------------------------

Init ==
  /\ mem = Reloaded(EmptyDisk) /\ idIssued = FALSE
  /\ promises = {} /\ armed = FALSE /\ stopped = FALSE
  /\ filesInMerge = {} /\ plan = [w \in Workers |-> {}]
  /\ pc = "select" /\ snap = EmptyDisk /\ held = {} /\ outcome = "ok"
  /\ disk = EmptyDisk
  /\ calls = <<>>
  /\ crashes = 0

Flusher == FlushBegin \/ FlushRename \/ FlushFail \/ FlushReply \/ FlushEnd

Next ==
  \/ \E r \in Requests : Batch(r[1], r[2])
  \/ \E p \in Paths : RmFromDropQueue(p)
  \/ \E w \in Workers, it \in DOMAIN MaxSize, ripe \in SUBSET Paths :
       GetMergePlan(w, it, ripe)
  \/ \E w \in Workers : EndMerge(w)
  \/ Flusher
  \/ Stop
  \/ LoopExit
  \/ Crash

Spec == Init /\ [][Next]_vars

\* A drop worker asks for the head of the queue, deletes the file and reports.
DropHead == GetDropQueue # Blank /\ RmFromDropQueue(GetDropQueue)

\* The Go scheduler runs the goroutine and file operations return.
FairFlush == WF_vars(Flusher)
FairDrops == WF_vars(DropHead)
LiveSpec == Spec /\ FairFlush /\ FairDrops

-----------------------------------------------------------------------------
(* Properties.                                                             *)

CallRecord == [kind : {"batch", "drop", "merge"}, add : SUBSET Paths,
               rm : SUBSET Paths, queued : BOOLEAN, again : BOOLEAN,
               res : {"pending", "ok", "err", "lost"}]

\* The shape of the state.  A promise is owned by J.promises or by the running
\* flush, never by both, so Done is called once for each.
TypeOK ==
  /\ mem \in MemRecord
  /\ disk \in DiskRecord
  /\ snap \in DiskRecord
  /\ idIssued \in BOOLEAN /\ armed \in BOOLEAN /\ stopped \in BOOLEAN
  /\ calls \in Seq(CallRecord)
  /\ promises \subseteq DOMAIN calls
  /\ held \subseteq DOMAIN calls
  /\ promises \cap held = {}
  /\ filesInMerge \subseteq Paths
  /\ plan \in [Workers -> SUBSET Paths]
  /\ pc \in {"select", "write", "reply", "exited"}
  /\ outcome \in {"ok", "err"}
  /\ crashes \in Nat

\* The files reflect call i, unless a later call asked for the opposite.
Covers(files, i) ==
  /\ \A p \in calls[i].add \ calls[i].rm :
       p \in files \/ \E j \in DOMAIN calls : j > i /\ p \in calls[j].rm
  /\ \A p \in calls[i].rm :
       p \notin files \/ \E j \in DOMAIN calls : j > i /\ p \in calls[j].add

\* A Batch whose promise a flush resolved without error survives every crash:
\* metadata.json has the files it added and lacks those it removed, unless a
\* later Batch undid it.
AckedDurable ==
  \A i \in DOMAIN calls :
    calls[i].queued /\ calls[i].res = "ok" => Covers(disk.files, i)

Enclosed(r) ==
  \A p \in Timed(r.files) : r.minTime <= EntryMin[p] /\ EntryMax[p] <= r.maxTime

\* min_time and max_time, in memory and in metadata.json, enclose every file of
\* the partition whose MinTime is known, however files come and go (those without
\* a MinTime included) and wherever the process restarts.
TimeEnvelope == Enclosed(mem) /\ Enclosed(disk)

\* While no call adds a file that is already indexed, row_count and
\* parquet_size_bytes are exactly those of the files, in memory and on disk.
RowCountExact ==
  (\A i \in DOMAIN calls : ~calls[i].again) =>
    /\ mem.rowCount = Cardinality(mem.files)
    /\ disk.rowCount = Cardinality(disk.files)

\* The goroutine is idle, nobody has woken it and no flush has failed: then
\* metadata.json is the partition in memory, so no wake-up was lost.
QuiescentSync ==
  pc = "select" /\ ~armed /\ (\A i \in DOMAIN calls : calls[i].res # "err")
    => disk = Persisted(mem)

\* No file is in the merge plans of two workers at a time: merging it twice
\* would duplicate its rows.
MergeExclusive ==
  \A v, w \in Workers : v # w => plan[v] \cap plan[w] = {}

\* Every mark in filesInMerge belongs to a plan somebody still holds: a mark
\* left behind would exclude its file from merges and moves for good.
MergeMarksOwned ==
  \A p \in filesInMerge : \E w \in Workers : p \in plan[w]

\* At most one call of RmFromDropQueue per file that a Batch removes.
CallIds == 1 .. MaxBatches * (1 + Cardinality(Paths)) + MaxPlans
Pending(i) == i \in DOMAIN calls /\ calls[i].res = "pending"
Answered(i) == i \in DOMAIN calls /\ calls[i].res # "pending"

\* The promise of Batch and of RmFromDropQueue is resolved, unless Stop came.
PromiseResolved ==
  \A i \in CallIds :
    (Pending(i) /\ calls[i].kind # "merge") ~> (Answered(i) \/ stopped)

Dropping(p) == \E i \in DOMAIN mem.dropQueue : mem.dropQueue[i] = p

\* A drop worker that serves the head of the queue serves every queued file.
DropQueueDrains == \A p \in Paths : Dropping(p) ~> ~Dropping(p)

=============================================================================
