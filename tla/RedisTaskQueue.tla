---------------------------- MODULE RedisTaskQueue ----------------------------
(***************************************************************************)
(* A task queue of the Redis index: redisTaskQueue of redis_task_queue.go  *)
(* with the script get_merge_plan.lua, as the merge, move and drop         *)
(* planners use it, and the producer of its tasks in patch_index.lua.      *)
(*                                                                         *)
(* A queue is two lists.  Producers push tasks to the idle list; a worker  *)
(* gets the head of the idle list once its time has come, and the script   *)
(* moves it to the processing list with a new time, half an hour ahead: if *)
(* the worker has not finished it by then, another one gets it.  Scripts   *)
(* are atomic; finishing a task is two commands of the client.             *)
(*                                                                         *)
(* Abstractions.  time_s of a task is the time that is left until then, 0  *)
(* once it has passed.  A task has a list of paths in the merge queue and  *)
(* one path in the others: with maxPlan = 0 a task never gets a second     *)
(* one.  LREM removes the very string that LRANGE returned: it finds it    *)
(* unless the script has given the task a new time (fresh).                *)
(***************************************************************************)
EXTENDS Integers, Sequences, FiniteSets, SequencesExt, FiniteSetsExt

CONSTANTS
  Files,       \* the files the tasks are about
  Workers,     \* the processes that poll the queue
  Size,        \* size_bytes of each file
  Queues,      \* the queues to look at, one in a behaviour: its files; its maxPlan,
               \* max_size of the merge configuration or 0; its delay, when the task
               \* of each file is due, or NoTime; its known, whether the task a
               \* worker holds names the writer of the queue; and its bounds on the
               \* deaths of workers with a task and the failures of LREM commands
  NoTime,      \* the task has no time_s
  Timeout      \* 1800 seconds in the script

ASSUME TaskQueueAssumption ==
  /\ IsFiniteSet(Files)
  /\ Size \in [Files -> Nat \ {0}]
  /\ NoTime \notin Nat
  /\ \A q \in Queues : /\ q.files \subseteq Files
                       /\ q.maxPlan \in Nat
                       /\ q.delay \in [Files -> Nat \cup {NoTime}]
                       /\ q.known \in BOOLEAN
                       /\ q.bounds \in [{"deaths", "failures"} -> Nat]
                       /\ q.maxPlan > 0 => \A f \in Files : q.delay[f] # NoTime
  /\ Timeout \in Nat \ {0}

VARIABLES
  queue,       \* the queue of this behaviour
  pool,        \* files no producer has announced yet
  idle,        \* the list <key>:idle
  processing,  \* the list <key>:processing
  made,        \* tasks made so far: the next id is made + 1
  at,          \* where each worker is
  job,         \* the task it got, or NoJob
  held,        \* for how long it has had it, up to Timeout
  fresh,       \* the string LRANGE gave it is still in the processing list
  processed,   \* files of the tasks some worker has done and begun to report
  finished,    \* tasks reported as finished without an error
  redelivered, \* tasks that were given out more than once
  spent        \* bound: deaths and failures so far

workerVars == <<at, job, held, fresh>>
historyVars == <<processed, finished, redelivered>>
vars == <<queue, pool, idle, processing, made, workerVars, historyVars, spent>>

NoJob == [id |-> 0, files |-> {}]
Timed == {f \in queue.files : queue.delay[f] # NoTime}
Items == ToSet(idle) \cup ToSet(processing)
SizeOf(F) == MapThenSumSet(LAMBDA f : Size[f], F)
Ripe(q) == q # <<>> /\ Head(q).left = 0
Untimed(q) == q # <<>> /\ Head(q).left = NoTime
Spend(what) ==
  /\ spent[what] < queue.bounds[what]
  /\ spent' = [spent EXCEPT ![what] = @ + 1]

-----------------------------------------------------------------------------
(* The producer: patch_index.lua.                                          *)

\* A file joins the last task of the idle list; only merge_entry does this.
Fits(q, f) == /\ queue.maxPlan > 0
              /\ q # <<>>
              /\ SizeOf(Last(q).files) + Size[f] <= queue.maxPlan

\* merge_entry; with maxPlan = 0 also move_entry and the task of delete_file.
AddFile(f) ==
  /\ f \in pool
  /\ pool' = pool \ {f}
  /\ \/ /\ Fits(idle, f)
        /\ idle' = [idle EXCEPT ![Len(idle)].files = @ \cup {f}]
        /\ UNCHANGED made
     \/ /\ ~Fits(idle, f)
        /\ idle' = Append(idle, [id |-> made + 1, files |-> {f}, left |-> queue.delay[f]])
        /\ made' = made + 1
  /\ UNCHANGED <<queue, processing, workerVars, historyVars, spent>>

-----------------------------------------------------------------------------
(* processEntry: one run of get_merge_plan.lua.                            *)

\* The task the script pushes to the processing list.
Unstamped(item) == item                                                 \* mutant
Stamped(item) == [item EXCEPT !.left = Timeout]

Receive(w, item) ==
  /\ at' = [at EXCEPT ![w] = "working"]
  /\ job' = [job EXCEPT ![w] = [id |-> item.id, files |-> item.files]]
  /\ held' = [held EXCEPT ![w] = 0]

\* process_idle_item.
GetIdleUnleased(w) ==                                                   \* mutant
  /\ at[w] = "ready"
  /\ Ripe(idle)
  /\ Receive(w, Head(idle))
  /\ idle' = Tail(idle)
  /\ UNCHANGED <<queue, pool, processing, made, fresh, historyVars, spent>>
GetIdleAnyway(w) ==                                                     \* mutant
  /\ at[w] = "ready"
  /\ idle # <<>>
  /\ IF Ripe(idle)
     THEN Receive(w, Head(idle)) /\ processing' = Append(processing, Stamped(Head(idle)))
     ELSE UNCHANGED <<at, job, held, processing>>
  /\ idle' = Tail(idle)
  /\ UNCHANGED <<queue, pool, made, fresh, historyVars, spent>>
GetIdle(w) ==
  /\ at[w] = "ready"
  /\ Ripe(idle)
  /\ Receive(w, Head(idle))
  /\ idle' = Tail(idle)
  /\ processing' = Append(processing, Stamped(Head(idle)))
  /\ UNCHANGED <<queue, pool, made, fresh, historyVars, spent>>

\* time_s is nil: the comparison fails after LPOP, and Redis does not roll back.
GetUntimed(w) ==
  /\ at[w] = "ready"
  /\ Untimed(idle)
  /\ idle' = Tail(idle)
  /\ UNCHANGED <<queue, pool, processing, made, workerVars, historyVars, spent>>

\* process_processing_item, when there is no idle task to give.
GetStaleNever(w) == FALSE /\ UNCHANGED vars                             \* mutant
GetStale(w) ==
  /\ at[w] = "ready"
  /\ ~Ripe(idle) /\ ~Untimed(idle) /\ Ripe(processing)
  /\ Receive(w, Head(processing))
  /\ processing' = Append(Tail(processing), Stamped(Head(processing)))
  /\ fresh' = [v \in Workers |-> fresh[v] /\ job[v].id # Head(processing).id]
  /\ redelivered' = redelivered \cup {Head(processing).id}
  /\ UNCHANGED <<queue, pool, idle, made, finished, processed, spent>>

Get(w) == GetIdle(w) \/ GetUntimed(w) \/ GetStale(w)

-----------------------------------------------------------------------------
(* finishProcess.                                                          *)

Reported(w) ==
  /\ finished' = finished \cup {job[w].id}
  /\ at' = [at EXCEPT ![w] = "ready"]
  /\ job' = [job EXCEPT ![w] = NoJob]
  /\ fresh' = [fresh EXCEPT ![w] = FALSE]

\* LRANGE, and the search for the id of the task.
FinishScan(w) ==
  /\ at[w] = "working"
  /\ processed' = processed \cup job[w].files
  /\ IF queue.known /\ \E item \in ToSet(processing) : item.id = job[w].id
     THEN /\ at' = [at EXCEPT ![w] = "scanned"]
          /\ fresh' = [fresh EXCEPT ![w] = TRUE]
          /\ UNCHANGED <<job, finished>>
     ELSE Reported(w)
  /\ UNCHANGED <<queue, pool, idle, processing, made, held, redelivered, spent>>

\* LREM removes the string LRANGE returned, if it is still there.
RemovedNothing(w) == processing                                         \* mutant
Removed(w) ==
  IF fresh[w] /\ \E i \in DOMAIN processing : processing[i].id = job[w].id
  THEN RemoveAt(processing, CHOOSE i \in DOMAIN processing : processing[i].id = job[w].id)
  ELSE processing

FinishRemoveHolding(w) ==                                               \* mutant
  /\ at[w] = "scanned"
  /\ processing' = Removed(w)
  /\ finished' = finished \cup {job[w].id}
  /\ at' = [at EXCEPT ![w] = "ready"]
  /\ UNCHANGED <<queue, pool, idle, made, job, held, fresh, processed, redelivered, spent>>
FinishRemove(w) ==
  /\ at[w] = "scanned"
  /\ processing' = Removed(w)
  /\ Reported(w)
  /\ UNCHANGED <<queue, pool, idle, made, held, processed, redelivered, spent>>

\* LREM reports an error, and may have been executed; the worker tries again.
FinishFails(w) ==
  /\ at[w] = "scanned"
  /\ Spend("failures")
  /\ processing' \in {processing, Removed(w)}
  /\ at' = [at EXCEPT ![w] = "working"]
  /\ fresh' = [fresh EXCEPT ![w] = FALSE]
  /\ UNCHANGED <<queue, pool, idle, made, job, held, historyVars>>

Finish(w) == FinishScan(w) \/ FinishRemove(w) \/ FinishFails(w)

-----------------------------------------------------------------------------
(* The environment.                                                        *)

\* A worker dies with its task and starts anew.
Die(w) ==
  /\ at[w] # "ready"
  /\ Spend("deaths")
  /\ at' = [at EXCEPT ![w] = "ready"]
  /\ job' = [job EXCEPT ![w] = NoJob]
  /\ fresh' = [fresh EXCEPT ![w] = FALSE]
  /\ UNCHANGED <<queue, pool, idle, processing, made, held, historyVars>>

Older(q) == [i \in DOMAIN q |->
               IF q[i].left \in {0, NoTime} THEN q[i] ELSE [q[i] EXCEPT !.left = @ - 1]]
Tick ==
  /\ \E item \in Items : item.left \notin {0, NoTime}
  /\ idle' = Older(idle)
  /\ processing' = Older(processing)
  /\ held' = [w \in Workers |-> IF held[w] < Timeout THEN held[w] + 1 ELSE Timeout]
  /\ UNCHANGED <<queue, pool, made, at, job, fresh, historyVars, spent>>

-----------------------------------------------------------------------------

Init ==
  /\ queue \in Queues
  /\ pool = queue.files
  /\ idle = <<>> /\ processing = <<>> /\ made = 0
  /\ at = [w \in Workers |-> "ready"]
  /\ job = [w \in Workers |-> NoJob]
  /\ held = [w \in Workers |-> 0]
  /\ fresh = [w \in Workers |-> FALSE]
  /\ processed = {} /\ finished = {} /\ redelivered = {}
  /\ spent = [what \in {"deaths", "failures"} |-> 0]

Next ==
  \/ \E f \in Files : AddFile(f)
  \/ \E w \in Workers : Get(w) \/ Finish(w) \/ Die(w)
  \/ Tick

Spec == Init /\ [][Next]_vars

\* Time passes, and the workers are loops that poll the queue and finish what
\* they got.
LiveSpec ==
  /\ Spec
  /\ WF_vars(Tick)
  /\ \A w \in Workers : WF_vars(Get(w)) /\ WF_vars(Finish(w))

-----------------------------------------------------------------------------
(* Properties.                                                             *)

Task == [id : 1 .. made, files : (SUBSET Files) \ {{}}, left : Nat \cup {NoTime}]

\* The shape of the state.
TypeOK ==
  /\ queue \in Queues
  /\ pool \subseteq Files
  /\ idle \in Seq(Task) /\ processing \in Seq(Task)
  /\ made \in Nat
  /\ at \in [Workers -> {"ready", "working", "scanned"}]
  /\ job \in [Workers -> [id : 0 .. made, files : SUBSET Files]]
  /\ \A w \in Workers : IF at[w] = "ready" THEN job[w] = NoJob ELSE job[w].id # 0
  /\ held \in [Workers -> 0 .. Timeout]
  /\ fresh \in [Workers -> BOOLEAN]
  /\ finished \subseteq 1 .. made /\ redelivered \subseteq 1 .. made
  /\ processed \subseteq Files
  /\ spent \in [{"deaths", "failures"} -> Nat]

\* A file that was announced with a time is in a task of one of the lists until a
\* worker has done that task: neither a worker that dies nor a lost answer loses it.
NoFileLost ==
  \A f \in Timed \ pool : f \in processed \/ \E item \in Items : f \in item.files

\* Two workers work on the same file only when one of them has had it for the
\* whole timeout, however often its task has been handed out.
ExclusiveWithinTimeout ==
  \A v, w \in Workers :
    v # w /\ job[v].files \cap job[w].files # {} => Timeout \in {held[v], held[w]}

\* A task that only one worker ever got is gone once it is reported, in the queues
\* whose tasks name their writer.
FinishedOnTime ==
  queue.known => \A item \in Items : item.id \in finished => item.id \in redelivered

Handed(f) == f \in processed \/ \E w \in Workers : f \in job[w].files
\* Every file that was announced with a time comes to a worker, whatever is in
\* front of it.
EveryFileHanded ==
  \A f \in Files : (f \in Timed \ pool) ~> Handed(f)

Holders(f) == {w \in Workers : f \in job[w].files}
Orphan(f) == Holders(f) = {} /\ \E item \in ToSet(processing) : f \in item.files
\* A task whose worker died comes to another worker.
OrphanRedelivered == \A f \in Files : Orphan(f) ~> ~Orphan(f)

=============================================================================
