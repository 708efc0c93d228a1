------------------------------ MODULE RedisIndex ------------------------------
(***************************************************************************)
(* The Redis index: RedisIndex of redis_index.go and the script            *)
(* patch_index.lua, with the workers that merge, move and drop files as    *)
(* the planners tell them, and the calls of Batch in flight.               *)
(*                                                                         *)
(* Every Batch is a goroutine with one EVALSHA: requests of one process    *)
(* reach Redis in any order, one that gets no response is sent again by    *)
(* the client library, and one that is given up may have been executed.    *)
(* The script is atomic, but an error ends it where it is: what it did     *)
(* before stays.                                                           *)
(*                                                                         *)
(* Abstractions.  A file is the rows it holds, one per file that was       *)
(* written, and uid, which stands for the uuid in its name: positive in    *)
(* the names that planners make.  A row has the directory and the times of *)
(* the file that was written, which its writer chose.  A directory is an   *)
(* hour.  A task is due at any time after it was made, and one that is     *)
(* being processed may be handed out again at any time: RedisTaskQueue has *)
(* the times and the two commands of finishing a task.  There is one       *)
(* writer.  A request that was given up or repeated is not executed later. *)
(* Query is an operator, evaluated in every state: it reads each hash at   *)
(* one moment, and nothing moves a row from one hash to another.  A file   *)
(* that a task holds twice is read twice and removed twice; its rows are   *)
(* in the result once, as rows form a set.                                 *)
(*                                                                         *)
(* Not modelled: paths without a slash, names with a second dot or with    *)
(* the iteration 0, and chunk times that are no numbers, which end the     *)
(* script in the middle of an entry; and time zones whose offset changes.  *)
(***************************************************************************)
EXTENDS Integers, Sequences, FiniteSets, SequencesExt, FiniteSetsExt

CONSTANTS
  Rows,        \* one for each file that is written
  Home,        \* the directory, an hour, that the row was written to
  MinTime, MaxTime, \* its MinTime and MaxTime
  Hour, Day,   \* the lengths of an hour and a day
  Layers,      \* the layers the script is given: those that are configured and one
               \* with an empty name and no ttl_sec, which NewRedisIndex adds
  NoLayer,     \* the name of another layer
  LayerTo,     \* where files of a layer move
  MoveTtl,     \* ttl_sec of each layer
  MergeTtl,    \* for each iteration that is merged, its timeout
  MaxPlan,     \* and the maximal size of a merge plan
  Scenarios,   \* what may happen in a behaviour: the call of Batch of each user,
               \* and the bounds on faults: requests executed twice, requests
               \* given up, tasks handed out twice
  Workers,     \* the processes that merge and move
  Ranges       \* the ranges a query may ask for; 0 is no limit, zone is the
               \* offset from UTC of the time zone of After

Dir(f) == Home[CHOOSE r \in f.rows : TRUE]

\* iteration is 0 when the name does not end in .<number>.parquet.  Only files of
\* one directory are merged.
File == {f \in [rows : (SUBSET Rows) \ {{}}, uid : Int, iteration : Nat,
                layer : Layers \cup {NoLayer}] :
           \A r \in f.rows : Home[r] = Dir(f)}

ASSUME RedisIndexAssumption ==
  /\ IsFiniteSet(Rows)
  /\ Home \in [Rows -> Nat] /\ MinTime \in [Rows -> Nat] /\ MaxTime \in [Rows -> Nat]
  /\ Hour \in Nat \ {0} /\ Day \in Nat \ {0} /\ Day % Hour = 0
  /\ Ranges \subseteq [after : Nat, before : Nat, zone : Int]
  /\ NoLayer \notin Layers
  /\ LayerTo \in [Layers -> Layers] /\ MoveTtl \in [Layers -> Nat]
  /\ MergeTtl \in Seq(Nat) /\ MaxPlan \in [DOMAIN MergeTtl -> Nat]
  /\ \A s \in Scenarios : /\ DOMAIN s.calls \cap Workers = {}
                          /\ \A u \in DOMAIN s.calls :
                               /\ s.calls[u].add \in Seq(File) /\ s.calls[u].rm \in Seq(File)
                               /\ \A i \in DOMAIN s.calls[u].add : s.calls[u].add[i].uid <= 0
                          /\ s.faults \in [{"repeat", "fail", "redeliver"} -> Nat]

\* A row is in one of the files that users add, and that is added once; an entry whose name
\* has no iteration is refused.
Share(f, g) == f.rows \cap g.rows # {}
ASSUME RowsAssumption ==
  \A s \in Scenarios : \A u, v \in DOMAIN s.calls :
    \A i \in DOMAIN s.calls[u].add, j \in DOMAIN s.calls[v].add :
      LET f == s.calls[u].add[i]
          g == s.calls[v].add[j]
      IN  f.iteration # 0 /\ g.iteration # 0 /\ Share(f, g) => u = v /\ i = j

VARIABLES
  scenario,    \* the scenario of this behaviour
  db,          \* what Redis holds, except the lists of tasks in process
  processing,  \* the tasks in the processing lists
  calls,       \* the call each user or worker is making
  jobs,        \* the task each worker has
  deleted,     \* files whose data the drop worker has deleted
  log,         \* the runs of the script, in their order
  acked,       \* calls answered without an error
  odd,         \* an indexed file was added, or one that is not indexed removed
  spent        \* the faults so far

vars == <<scenario, db, processing, calls, jobs, deleted, log, acked, odd, spent>>

-----------------------------------------------------------------------------
(* Files and tasks.                                                        *)

Size(f) == Cardinality(f.rows)

\* Whether files of the iteration of f are merged.
Merges(f) == f.iteration \in DOMAIN MergeTtl

\* The queue process_file chooses.
Route(f) ==
  LET moves == MoveTtl[f.layer] > 0 IN
  IF Merges(f) /\ (moves => MergeTtl[f.iteration] <= MoveTtl[f.layer]) THEN "merge"
  ELSE IF moves THEN "move"
  ELSE "none"

\* A task is of the queue its files were routed to.
Kind(task) == Route(CHOOSE f \in task.files : TRUE)

\* process_file gives the task of a file that is only moved no time.
HasTime(task) == \A f \in task.files : Merges(f)

Dirs == {Home[r] : r \in Rows}
Queues == ({"merge"} \X Layers \X (DOMAIN MergeTtl) \X Dirs) \cup ({"move"} \X Layers)
QueueOf(f) ==
  IF Route(f) = "merge" THEN <<Route(f), f.layer, f.iteration, Dir(f)>> ELSE <<Route(f), f.layer>>

-----------------------------------------------------------------------------
(* patch_index.lua.                                                        *)

\* merge_entry: the file joins the last task if it fits.
Joins(q, f) ==
  /\ Route(f) = "merge" /\ q # <<>>
  /\ Last(q).size + Size(f) <= MaxPlan[f.iteration]

\* The task a file is in is a list: the file is there again if it is added again.
Joined(task, f) ==
  [task EXCEPT !.files = @ \cup {f}, !.size = @ + Size(f),
               !.again = IF f \in task.files THEN Append(@, f) ELSE @]
NewTask(id, f) == [id |-> id, files |-> {f}, again |-> <<>>, size |-> Size(f)]

\* merge_entry, move_entry.
Enqueue(d, f) ==
  LET q == d.idle[QueueOf(f)] IN
  IF Joins(q, f)
  THEN [d EXCEPT !.idle[QueueOf(f)][Len(q)] = Joined(@, f)]
  ELSE [d EXCEPT !.idle[QueueOf(f)] = Append(@, NewTask(d.uuids + 1, f)), !.uuids = @ + 1]

\* process_file for an ADD.
AddEntry(d, f) ==
  LET indexed == [d EXCEPT !.files = @ \cup {f},
                           !.count[Dir(f)] = @ + 1,
                           !.folders = @ \cup {Dir(f)}]
  IN  IF f.iteration = 0 THEN [d EXCEPT !.error = TRUE]
      ELSE IF f.layer \notin Layers THEN [indexed EXCEPT !.error = TRUE]
      ELSE IF Route(f) = "none" THEN indexed
      ELSE Enqueue(indexed, f)

\* delete_file.
DeleteKeepingField(d, f) ==                                             \* mutant
  [d EXCEPT !.count[Dir(f)] = @ - 1,
            !.folders = IF d.count[Dir(f)] = 1 THEN @ \ {Dir(f)} ELSE @ \cup {Dir(f)},
            !.drops = @ \cup {f}]
DeleteLastTwo(d, f) ==                                                  \* mutant
  [d EXCEPT !.files = @ \ {f},
            !.count[Dir(f)] = @ - 1,
            !.folders = IF d.count[Dir(f)] <= 2 THEN @ \ {Dir(f)} ELSE @ \cup {Dir(f)},
            !.drops = @ \cup {f}]
DeleteEntry(d, f) ==
  [d EXCEPT !.files = @ \ {f},
            !.count[Dir(f)] = @ - 1,
            !.folders = IF d.count[Dir(f)] = 1 THEN @ \ {Dir(f)} ELSE @ \cup {Dir(f)},
            !.drops = @ \cup {f}]

\* One entry of ARGV; an error has ended the script.
Process(d, e) ==
  IF d.error THEN d
  ELSE IF e.cmd = "ADD" THEN AddEntry(d, e.file) ELSE DeleteEntry(d, e.file)

\* The entries Batch sends.
Entries(cmd, s) == [i \in DOMAIN s |-> [cmd |-> cmd, file |-> s[i]]]
ArgvRemovingFirst(c) == Entries("DELETE", c.rm) \o Entries("ADD", c.add) \* mutant
Argv(c) == Entries("ADD", c.add) \o Entries("DELETE", c.rm)

Script(d, c) == FoldLeft(Process, [d EXCEPT !.error = FALSE], Argv(c))

-----------------------------------------------------------------------------
(* A call of Batch.                                                        *)

NoCall == [add |-> <<>>, rm |-> <<>>, at |-> "none"]
Users == DOMAIN scenario.calls
Move(c, where) == calls' = [calls EXCEPT ![c].at = where]
Spend(what) ==
  /\ spent[what] < scenario.faults[what]
  /\ spent' = [spent EXCEPT ![what] = @ + 1]

\* Batch starts a goroutine and returns.
Send(u) ==
  /\ u \in Users /\ calls[u] = NoCall
  /\ calls' = [calls EXCEPT ![u] = [add |-> scenario.calls[u].add, rm |-> scenario.calls[u].rm,
                                    at |-> "sent"]]
  /\ UNCHANGED <<scenario, db, processing, jobs, deleted, log, acked, odd, spent>>

\* Redis runs the script.
Execute(c) ==
  LET after == Script(db, calls[c]) IN
  /\ calls[c].at = "sent"
  /\ db' = after
  /\ Move(c, IF after.error THEN "failed" ELSE "executed")
  /\ log' = Append(log, [by |-> c, add |-> ToSet(calls[c].add), rm |-> ToSet(calls[c].rm),
                         ok |-> ~after.error])
  /\ odd' = \/ odd
            \/ ToSet(calls[c].add) \cap db.files # {} \/ ~IsInjective(calls[c].add)
            \/ ~after.error /\ ~(ToSet(calls[c].rm) \subseteq db.files /\ IsInjective(calls[c].rm))
  /\ UNCHANGED <<scenario, processing, jobs, deleted, acked, spent>>

\* The response does not arrive, and the client sends the request again.
Repeat(c) ==
  /\ calls[c].at = "executed"
  /\ Spend("repeat")
  /\ Move(c, "sent")
  /\ UNCHANGED <<scenario, db, processing, jobs, deleted, log, acked, odd>>

\* The client gives up, whether or not the request was executed.
GiveUp(c) ==
  /\ calls[c].at \in {"sent", "executed"}
  /\ Spend("fail")
  /\ Move(c, "failed")
  /\ UNCHANGED <<scenario, db, processing, jobs, deleted, log, acked, odd>>

\* res.Done: the answer of a user's call.
AnswerUnheard(u) ==                                                     \* mutant
  /\ u \in Users
  /\ calls[u].at \in {"sent", "executed", "failed"}
  /\ acked' = IF calls[u].at = "failed" THEN acked
              ELSE acked \cup {[by |-> u, add |-> ToSet(calls[u].add), rm |-> ToSet(calls[u].rm)]}
  /\ Move(u, "done")
  /\ UNCHANGED <<scenario, db, processing, jobs, deleted, log, odd, spent>>
Answer(u) ==
  /\ u \in Users
  /\ calls[u].at \in {"executed", "failed"}
  /\ acked' = IF calls[u].at = "failed" THEN acked
              ELSE acked \cup {[by |-> u, add |-> ToSet(calls[u].add), rm |-> ToSet(calls[u].rm)]}
  /\ Move(u, "done")
  /\ UNCHANGED <<scenario, db, processing, jobs, deleted, log, odd, spent>>

-----------------------------------------------------------------------------
(* The workers.                                                            *)

NoJob == [id |-> 0, files |-> {}, again |-> <<>>, to |-> 0]
Idle(w) == jobs[w] = NoJob

\* The worker gets a task.  GetMergePlan chooses a name for the result at each
\* call; that of a move is in the task.
Receive(w, task, d) ==
  LET merges == Kind(task) = "merge" IN
  /\ jobs' = [jobs EXCEPT ![w] = [id |-> task.id, files |-> task.files, again |-> task.again,
                                  to |-> IF merges THEN d.uuids + 1 ELSE task.id]]
  /\ db' = [d EXCEPT !.uuids = IF merges THEN @ + 1 ELSE @]

GetTask(w, q) ==
  /\ Idle(w) /\ db.idle[q] # <<>> /\ HasTime(Head(db.idle[q]))
  /\ Receive(w, Head(db.idle[q]), [db EXCEPT !.idle[q] = Tail(@)])
  /\ processing' = processing \cup {Head(db.idle[q])}
  /\ UNCHANGED <<scenario, calls, deleted, log, acked, odd, spent>>

\* The script takes a task without a time from the queue and ends with an error
\* when it compares the time.
GetUntimed(w, q) ==
  /\ Idle(w) /\ db.idle[q] # <<>> /\ ~HasTime(Head(db.idle[q]))
  /\ db' = [db EXCEPT !.idle[q] = Tail(@)]
  /\ UNCHANGED <<scenario, processing, calls, jobs, deleted, log, acked, odd, spent>>

\* The timeout of a task has passed.
GetStale(w) ==
  /\ Idle(w) /\ Spend("redeliver")
  /\ \E task \in processing : Receive(w, task, db)
  /\ UNCHANGED <<scenario, processing, calls, deleted, log, acked, odd>>

\* The file the worker writes.
Output(w) ==
  LET f == CHOOSE f \in jobs[w].files : TRUE
      merged == Kind(jobs[w]) = "merge"
  IN  [rows |-> UNION {g.rows : g \in jobs[w].files}, uid |-> jobs[w].to,
       iteration |-> IF merged THEN f.iteration + 1 ELSE f.iteration,
       layer |-> IF merged THEN f.layer ELSE LayerTo[f.layer]]

\* The worker has read the files and written the new one, and calls Batch.
Work(w) ==
  /\ ~Idle(w) /\ calls[w] = NoCall
  /\ jobs[w].files \cap deleted = {}
  /\ calls' = [calls EXCEPT ![w] = [add |-> <<Output(w)>>, rm |-> SetToSeq(jobs[w].files) \o jobs[w].again,
                                    at |-> "sent"]]
  /\ UNCHANGED <<scenario, db, processing, jobs, deleted, log, acked, odd, spent>>

\* The worker leaves its task: it failed to read a file, or its Batch failed.
AbandonCalling(w) ==                                                    \* mutant
  /\ ~Idle(w)
  /\ \/ calls[w] = NoCall /\ jobs[w].files \cap deleted # {}
     \/ calls[w].at = "failed"
  /\ jobs' = [jobs EXCEPT ![w] = NoJob]
  /\ UNCHANGED <<scenario, db, processing, calls, deleted, log, acked, odd, spent>>
Abandon(w) ==
  /\ ~Idle(w)
  /\ \/ calls[w] = NoCall /\ jobs[w].files \cap deleted # {}
     \/ calls[w].at = "failed"
  /\ jobs' = [jobs EXCEPT ![w] = NoJob]
  /\ calls' = [calls EXCEPT ![w] = NoCall]
  /\ UNCHANGED <<scenario, db, processing, deleted, log, acked, odd, spent>>

\* EndMerge, EndMove.
EndTaskAnyway(w) ==                                                     \* mutant
  /\ ~Idle(w) /\ calls[w].at \in {"executed", "failed"}
  /\ processing' = {p \in processing : p.id # jobs[w].id}
  /\ jobs' = [jobs EXCEPT ![w] = NoJob]
  /\ calls' = [calls EXCEPT ![w] = NoCall]
  /\ UNCHANGED <<scenario, db, deleted, log, acked, odd, spent>>
EndTask(w) ==
  /\ ~Idle(w) /\ calls[w].at = "executed"
  /\ processing' = {p \in processing : p.id # jobs[w].id}
  /\ jobs' = [jobs EXCEPT ![w] = NoJob]
  /\ calls' = [calls EXCEPT ![w] = NoCall]
  /\ UNCHANGED <<scenario, db, deleted, log, acked, odd, spent>>

\* The drop worker deletes the data of a file in the drop queue.
Drop(f) ==
  /\ f \in db.drops \ deleted
  /\ deleted' = deleted \cup {f}
  /\ UNCHANGED <<scenario, db, processing, calls, jobs, log, acked, odd, spent>>

-----------------------------------------------------------------------------

Init ==
  /\ scenario \in Scenarios
  /\ db = [files |-> {}, count |-> [d \in Dirs |-> 0], folders |-> {},
           idle |-> [q \in Queues |-> <<>>], drops |-> {}, uuids |-> 0, error |-> FALSE]
  /\ processing = {}
  /\ calls = [c \in Users \cup Workers |-> NoCall]
  /\ jobs = [w \in Workers |-> NoJob]
  /\ deleted = {} /\ log = <<>> /\ acked = {} /\ odd = FALSE
  /\ spent = [what \in DOMAIN scenario.faults |-> 0]

Next ==
  \/ \E c \in Users \cup Workers : Send(c) \/ Execute(c) \/ Repeat(c) \/ GiveUp(c) \/ Answer(c)
  \/ \E w \in Workers : (\E q \in Queues : GetTask(w, q) \/ GetUntimed(w, q)) \/ GetStale(w) \/ Work(w)
                        \/ Abandon(w) \/ EndTask(w)
  \/ \E f \in db.drops : Drop(f)

Spec == Init /\ [][Next]_vars

-----------------------------------------------------------------------------
(* Query.                                                                  *)

DayOf(hour) == (hour * Hour) \div Day

\* getMainKeys: the days whose hashes are read.
MainKeys(r) ==
  IF r.after > 0 /\ r.before > 0
  THEN {(r.after + r.zone + k * Day) \div Day :
          k \in {k \in 0 .. r.before : r.after + k * Day < r.before}}
  ELSE {d \in {DayOf(h) : h \in Dirs} :
          /\ r.after \div Day <= d
          /\ r.before > 0 => d * Day <= r.before}

\* filterKeys, for the directory of an hour.
InHoursUnrounded(r, h) ==                                               \* mutant
  r.after <= h * Hour /\ (r.before > 0 => h * Hour <= r.before)
InHours(r, h) ==
  /\ r.after - (r.after % Hour) <= h * Hour
  /\ r.before > 0 => h * Hour <= r.before

\* filterValues.
InRange(r, f) ==
  /\ r.before > 0 => \E row \in f.rows : MinTime[row] <= r.before
  /\ r.after > 0 => \E row \in f.rows : MaxTime[row] >= r.after

Query(r) ==
  {f \in db.files : DayOf(Dir(f)) \in MainKeys(r) /\ InHours(r, Dir(f)) /\ InRange(r, f)}

-----------------------------------------------------------------------------
(* Properties.                                                             *)

Call == [add : Seq(File), rm : Seq(File),
         at : {"none", "sent", "executed", "failed", "done"}]
Task ==
  {t \in [id : Nat, files : SUBSET File, again : Seq(File), size : Nat] :
     ToSet(t.again) \subseteq t.files}
Db == [files : SUBSET File, count : [Dirs -> Int], folders : SUBSET Dirs,
       idle : [Queues -> Seq(Task)], drops : SUBSET File, uuids : Nat, error : BOOLEAN]

\* The shape of the state.
TypeOK ==
  /\ scenario \in Scenarios
  /\ db \in Db
  /\ processing \subseteq Task
  /\ calls \in [Users \cup Workers -> Call]
  /\ \A w \in Workers : Idle(w) => calls[w] = NoCall
  /\ deleted \subseteq db.drops
  /\ odd \in BOOLEAN
  /\ spent \in [DOMAIN scenario.faults -> Nat]

\* The hash of the folders, which Paths of the database index reads, counts the
\* files of each directory and has no other, as long as no file is added twice or
\* removed twice.
FoldersExact ==
  ~odd => /\ \A d \in Dirs : db.count[d] = Cardinality({f \in db.files : Dir(f) = d})
          /\ db.folders = {Dir(f) : f \in db.files}

\* A Batch answered without an error has been executed, and its changes are in
\* the index unless one executed later undid them, whatever was sent before or
\* answered since.
AckedIndexed ==
  \A a \in acked : \E i \in DOMAIN log :
    /\ log[i].by = a.by
    /\ \A f \in a.add : f \in db.files \/ \E j \in i .. Len(log) : log[j].ok /\ f \in log[j].rm
    /\ \A f \in a.rm : f \notin db.files \/ \E j \in i + 1 .. Len(log) : f \in log[j].add

\* The data of an indexed file is not deleted, unless the file was added after it
\* had been removed: by a request that was repeated, or that was overtaken.
DeletedUnindexed ==
  \A f \in db.files \cap deleted :
    \E i, j \in DOMAIN log : i < j /\ f \in log[i].rm /\ f \in log[j].add

RowsOf(F) == UNION {f.rows : f \in F}
Removed(r) ==
  \E i \in DOMAIN log :
    /\ log[i].by \in Users /\ log[i].ok
    /\ r \in RowsOf(log[i].rm) \ RowsOf(log[i].add \ log[i].rm)
RowsKept ==
  \A a \in acked : \A r \in RowsOf(a.add) : Removed(r) \/ r \in RowsOf(db.files)
RowsOnce ==
  \A f, g \in db.files :
    f # g /\ Share(f, g) =>
      \/ spent["repeat"] > 0 \/ spent["redeliver"] > 0
      \/ \E i \in DOMAIN log : ~log[i].ok
\* Merges and moves, repeated, abandoned or done by two workers, lose no row of
\* an acknowledged file: only a user can remove it, and a call that fails does not.
\* And no row is in two indexed files, unless a request was repeated or ended in
\* an error, or a task was handed out again.
RowsExact == RowsKept /\ RowsOnce

Tasks == processing \cup UNION {ToSet(db.idle[q]) : q \in Queues}
\* Every indexed file of an iteration that is merged is in a task, through failed
\* requests and workers that leave their tasks.  A file that is only moved is in
\* one without a time, which the first worker that asks for it throws away.
StillScheduled ==
  \A f \in db.files : f.layer \in Layers /\ Merges(f) => \E t \in Tasks : f \in t.files

\* A range whose days a query reads: the last day is left out unless the time of
\* the day of After is before that of Before, and others are read when After is of
\* another day in its own time zone.
ReadsDays(r) ==
  r.after > 0 /\ r.before > 0 =>
    r.after % Day < r.before % Day /\ (r.after + r.zone) \div Day = r.after \div Day
\* A row of the range, in the directory of the hour it begins in, that does not
\* begin before the hour of After.
Sought(r, row) ==
  /\ Home[row] = MinTime[row] \div Hour
  /\ r.before > 0 => MinTime[row] <= r.before
  /\ r.after > 0 => MaxTime[row] >= r.after /\ MinTime[row] >= r.after - (r.after % Hour)
\* A query finds every row of its range that was added by an acknowledged Batch and
\* not removed by a user, however the row's file was merged and moved since, and
\* returns every indexed file that holds it; as long as ReadsDays and Sought hold.
QueryComplete ==
  \A r \in Ranges : ReadsDays(r) =>
    /\ \A f \in db.files : (\E row \in f.rows : Sought(r, row)) => f \in Query(r)
    /\ \A a \in acked : \A row \in RowsOf(a.add) :
         Sought(r, row) => Removed(row) \/ row \in RowsOf(Query(r))
=============================================================================
