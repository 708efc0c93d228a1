----------------------------- MODULE S3PartIndex -----------------------------
(***************************************************************************)
(* One partition of the S3 index, opened by several processes: the type    *)
(* s3PartIndex of s3_part_index.go over the object store of s3_client.go.  *)
(*                                                                         *)
(* Each process keeps the partition in memory and flushes it to the object *)
(* <partition>/metadata.json: it serializes the partition without a lock,  *)
(* compares the ETag of the object with the one it knows, uploads, and, if *)
(* the ETags differ, reads the object again, puts the changes of this      *)
(* flush on top and tries anew.  The comparison and the upload are two     *)
(* requests.                                                               *)
(*                                                                         *)
(* Abstractions.  The entries are the set of their paths.  The drop queue, *)
(* the counters and the time bounds are left out: they travel with the     *)
(* entries.  Every upload gives the object an ETag of its own.  onErr      *)
(* resolves the promises of a flush in one step.  The object is what some  *)
(* process serialized, so that reading it again does not fail in parsing.  *)
(***************************************************************************)
EXTENDS Integers, Sequences, FiniteSets, FiniteSetsExt

CONSTANTS
  Writers,         \* the processes that opened the partition
  Paths,           \* the data files of the partition
  Requests,        \* the arguments <<add, rm>> callers give to Batch
  NoObject,        \* the object does not exist
  NoETag,          \* J.etag = ""
  maxFlushRetries, \* 3 in the code
  MaxOutstanding,  \* unresolved calls of Batch the callers of a process have at a time
  MaxBatches,      \* bound: calls of Batch of each process
  MaxFailures,     \* bound: requests that fail
  MaxSurprises,    \* bound: uploads that happen although they report an error, and
                   \* deletions of the object from outside
  MaxCrashes       \* bound: crashes of processes

ASSUME S3Assumption ==
  /\ IsFiniteSet(Writers) /\ Writers # {}
  /\ Requests \subseteq (SUBSET Paths) \X (SUBSET Paths)
  /\ maxFlushRetries \in Nat \ {0}
  /\ MaxBatches \in [Writers -> Nat]
  /\ NoETag \notin Writers \X Nat
  /\ NoObject \notin [etag : Writers \X Nat, files : SUBSET Paths]

VARIABLES
  object,     \* metadata.json in the bucket
  puts,       \* uploads of each process: the next ETag is its own
  files,      \* J.entries of each process
  etag,       \* J.etag
  pending,    \* J.pendingAdd and J.pendingRm
  promises,   \* J.promises
  armed,      \* J.updateCtx is cancelled: doUpdate() was called
  pc,         \* where the goroutine of Run() is
  attempt,    \* flush: the iteration of its loop
  held,       \* flush: the promises it will answer
  heldChange, \* flush: the pending changes it took
  window,     \* flush: the files that Range must and may visit
  buffer,     \* flush: the files it serialized
  outcome,    \* flush: what it will answer
  calls,      \* every call of Batch, in the order of J.m
  stored,     \* the calls that some version of the object reflected
  exposed,    \* the calls that waited while a flush of their process met a conflict
  behind,     \* history: the object was uploaded, unknown to the process, since the
              \* process last read or wrote it
  met,        \* history: such uploads during the flush, and one for those before it
  spent       \* bound: failures, lost responses, deletions and crashes so far

memVars == <<files, etag, pending, promises, armed>>
flushVars == <<pc, attempt, held, heldChange, window, buffer, outcome>>
bucketVars == <<object, puts, stored, exposed>>
historyVars == <<behind, met>>
vars == <<bucketVars, memVars, flushVars, historyVars, calls, spent>>

NoChange == [add |-> {}, rm |-> {}]
CurrentETag == IF object = NoObject THEN NoETag ELSE object.etag
CurrentFiles == IF object = NoObject THEN {} ELSE object.files

\* The files F reflect call i, unless a later call asked for the opposite.
Covers(F, i) ==
  /\ \A p \in calls[i].add \ calls[i].rm :
       p \in F \/ \E j \in DOMAIN calls : j > i /\ p \in calls[j].rm
  /\ \A p \in calls[i].rm :
       p \notin F \/ \E j \in DOMAIN calls : j > i /\ p \in calls[j].add

CallsOf(w) == {i \in DOMAIN calls : calls[i].by = w}
Outstanding(w) == {i \in CallsOf(w) : calls[i].res = "pending"}

Call(w, add, rm, queued) ==
  [by |-> w, add |-> add, rm |-> rm, queued |-> queued,
   res |-> IF queued THEN "pending" ELSE "ok"]

\* Range, running while entries come and go, may miss or visit those.
Disturbed(v, add, rm, after) == [must |-> v.must \cap after, may |-> v.may \cup add]

-----------------------------------------------------------------------------

\* add, then rm; the raw arguments are kept for conflict resolution.
Batch(w, add, rm) ==
  /\ Cardinality(CallsOf(w)) < MaxBatches[w]
  /\ Cardinality(Outstanding(w)) < MaxOutstanding
  /\ LET after == (files[w] \cup add) \ rm
         nothing == add = {} /\ rm \cap files[w] = {}
     IN \/ /\ nothing
           /\ calls' = Append(calls, Call(w, add, rm, FALSE))
           /\ UNCHANGED <<memVars, flushVars>>
        \/ /\ ~nothing
           /\ calls' = Append(calls, Call(w, add, rm, TRUE))
           /\ files' = [files EXCEPT ![w] = after]
           /\ pending' = [pending EXCEPT ![w] = [add |-> @.add \cup add, rm |-> @.rm \cup rm]]
           /\ promises' = [promises EXCEPT ![w] = @ \cup {Len(calls) + 1}]
           /\ armed' = [armed EXCEPT ![w] = TRUE]
           /\ window' = [window EXCEPT ![w] = Disturbed(@, add, rm, after)]
           /\ UNCHANGED <<etag, pc, attempt, held, heldChange, buffer, outcome>>
  /\ UNCHANGED <<bucketVars, historyVars, spent>>

-----------------------------------------------------------------------------
(* flush, a step per request and per critical section of J.m.              *)

Spend(what, bound) ==
  /\ spent[what] < bound
  /\ spent' = [spent EXCEPT ![what] = @ + 1]

Surprise(what) == spent["lost"] + spent["deletes"] < MaxSurprises /\ Spend(what, MaxSurprises)

\* From here on Range may run.
Ranging(w, F) ==
  /\ pc' = [pc EXCEPT ![w] = "range"]
  /\ window' = [window EXCEPT ![w] = [must |-> F, may |-> F]]

Answer(w, res) ==
  /\ pc' = [pc EXCEPT ![w] = "reply"]
  /\ outcome' = [outcome EXCEPT ![w] = res]

FlushBegin(w) ==
  /\ pc[w] = "select"
  /\ armed[w]
  /\ armed' = [armed EXCEPT ![w] = FALSE]
  /\ held' = [held EXCEPT ![w] = promises[w]]
  /\ promises' = [promises EXCEPT ![w] = {}]
  /\ heldChange' = [heldChange EXCEPT ![w] = pending[w]]
  /\ pending' = [pending EXCEPT ![w] = NoChange]
  /\ attempt' = [attempt EXCEPT ![w] = 0]
  /\ Ranging(w, files[w])
  /\ met' = [met EXCEPT ![w] = IF behind[w] THEN 1 ELSE 0]
  /\ UNCHANGED <<bucketVars, files, etag, buffer, outcome, behind, calls, spent>>

\* serializeToBytes returns.
Serialize(w) ==
  /\ pc[w] = "range"
  /\ \E extra \in SUBSET (window[w].may \ window[w].must) :
       buffer' = [buffer EXCEPT ![w] = window[w].must \cup extra]
  /\ pc' = [pc EXCEPT ![w] = "stat"]
  /\ UNCHANGED <<bucketVars, memVars, attempt, held, heldChange, window, outcome, historyVars,
                 calls, spent>>

\* checkAndPut: without an ETag to expect, or without an object, it uploads
\* unconditionally.
StatAgrees(w) == etag[w] = NoETag \/ object = NoObject \/ object.etag = etag[w]
Stat(w) ==
  /\ pc[w] = "stat"
  /\ pc' = [pc EXCEPT ![w] = IF StatAgrees(w) THEN "put" ELSE "reload"]
  /\ UNCHANGED <<bucketVars, memVars, attempt, held, heldChange, window, buffer, outcome,
                 historyVars, calls, spent>>

\* The bucket takes an upload, whatever it holds by then; w knows of it or does not.
Upload(w, known) ==
  /\ object' = [etag |-> <<w, puts[w] + 1>>, files |-> buffer[w]]
  /\ puts' = [puts EXCEPT ![w] = @ + 1]
  /\ stored' = stored \cup {i \in DOMAIN calls : Covers(buffer[w], i)}
  /\ behind' = [v \in Writers |-> v # w \/ ~known]
  /\ met' = [v \in Writers |-> IF v = w THEN 0
                                ELSE IF pc[v] \in {"select", "reply"} THEN met[v]
                                ELSE met[v] + 1]
  /\ UNCHANGED exposed

Put(w) ==
  /\ pc[w] = "put"
  /\ Upload(w, TRUE)
  /\ etag' = [etag EXCEPT ![w] = <<w, puts[w] + 1>>]
  /\ Answer(w, "ok")
  /\ UNCHANGED <<files, pending, promises, armed, attempt, held, heldChange, window, buffer,
                 calls, spent>>

\* The upload happened but its response did not arrive.
PutLost(w) ==
  /\ pc[w] = "put"
  /\ Surprise("lost")
  /\ Upload(w, FALSE)
  /\ Answer(w, "err")
  /\ UNCHANGED <<memVars, attempt, held, heldChange, window, buffer, calls>>

\* Stat, upload or download failed.
FailIgnored(w) ==                                                  \* mutant
  /\ pc[w] \in {"stat", "put", "reload"}
  /\ Spend("failures", MaxFailures)
  /\ Answer(w, "ok")
  /\ UNCHANGED <<bucketVars, memVars, attempt, held, heldChange, window, buffer, historyVars,
                 calls>>
Fail(w) ==
  /\ pc[w] \in {"stat", "put", "reload"}
  /\ Spend("failures", MaxFailures)
  /\ Answer(w, "err")
  /\ UNCHANGED <<bucketVars, memVars, attempt, held, heldChange, window, buffer, historyVars,
                 calls>>

\* reloadAndMerge: memory becomes the object with the changes of this flush on
\* top.  Of later calls of Batch it keeps the promises and J.pendingAdd, but not
\* the entries.  The last attempt is over when the object has been read again.
MergedNothing(change) == CurrentFiles                              \* mutant
Merged(change) == (CurrentFiles \cup change.add) \ change.rm

AdoptNothing(w) == etag' = etag                                    \* mutant
AdoptETag(w) == etag' = [etag EXCEPT ![w] = CurrentETag]

Reload(w) ==
  /\ pc[w] = "reload"
  /\ AdoptETag(w)
  /\ LET merged == Merged(heldChange[w])
     IN /\ files' = [files EXCEPT ![w] = merged]
        /\ IF attempt[w] + 1 < maxFlushRetries
           THEN /\ attempt' = [attempt EXCEPT ![w] = @ + 1]
                /\ Ranging(w, merged)
                /\ UNCHANGED outcome
           ELSE /\ Answer(w, "exhausted")
                /\ UNCHANGED <<attempt, window>>
  /\ exposed' = exposed \cup promises[w]
  /\ behind' = [behind EXCEPT ![w] = FALSE]
  /\ UNCHANGED <<object, puts, stored, pending, promises, armed, held, heldChange, buffer, met,
                 calls, spent>>

FlushEndHolding(w) ==                                              \* mutant
  /\ pc[w] = "reply"
  /\ calls' = [i \in DOMAIN calls |->
                 IF i \in held[w] THEN [calls[i] EXCEPT !.res = outcome[w]] ELSE calls[i]]
  /\ pc' = [pc EXCEPT ![w] = "select"]
  /\ UNCHANGED <<bucketVars, memVars, attempt, held, heldChange, window, buffer, outcome,
                 historyVars, spent>>
FlushEndRearms(w) ==                                               \* mutant
  /\ pc[w] = "reply"
  /\ calls' = [i \in DOMAIN calls |->
                 IF i \in held[w] THEN [calls[i] EXCEPT !.res = outcome[w]] ELSE calls[i]]
  /\ held' = [held EXCEPT ![w] = {}]
  /\ pc' = [pc EXCEPT ![w] = "select"]
  /\ armed' = [armed EXCEPT ![w] = FALSE]
  /\ UNCHANGED <<bucketVars, files, etag, pending, promises, attempt, heldChange, window,
                 buffer, outcome, historyVars, spent>>
FlushEnd(w) ==
  /\ pc[w] = "reply"
  /\ calls' = [i \in DOMAIN calls |->
                 IF i \in held[w] THEN [calls[i] EXCEPT !.res = outcome[w]] ELSE calls[i]]
  /\ held' = [held EXCEPT ![w] = {}]
  /\ pc' = [pc EXCEPT ![w] = "select"]
  /\ met' = [met EXCEPT ![w] = 0]
  /\ UNCHANGED <<bucketVars, memVars, attempt, heldChange, window, buffer, outcome, behind,
                 spent>>

-----------------------------------------------------------------------------
(* The environment.                                                        *)

Delete ==
  /\ object # NoObject
  /\ Surprise("deletes")
  /\ object' = NoObject
  /\ UNCHANGED <<puts, stored, exposed, memVars, flushVars, historyVars, calls>>

\* A process dies with its callers and opens the partition anew: populate.
Crash(w) ==
  /\ Spend("crashes", MaxCrashes)
  /\ files' = [files EXCEPT ![w] = CurrentFiles]
  /\ etag' = [etag EXCEPT ![w] = CurrentETag]
  /\ pending' = [pending EXCEPT ![w] = NoChange]
  /\ promises' = [promises EXCEPT ![w] = {}]
  /\ armed' = [armed EXCEPT ![w] = FALSE]
  /\ pc' = [pc EXCEPT ![w] = "select"]
  /\ held' = [held EXCEPT ![w] = {}]
  /\ calls' = [i \in DOMAIN calls |->
                 IF i \in Outstanding(w) THEN [calls[i] EXCEPT !.res = "lost"] ELSE calls[i]]
  /\ behind' = [behind EXCEPT ![w] = FALSE]
  /\ met' = [met EXCEPT ![w] = 0]
  /\ UNCHANGED <<bucketVars, attempt, heldChange, window, buffer, outcome>>

-----------------------------------------------------------------------------

\* The ETag of a version from before the processes opened the partition.
FirstETag == <<CHOOSE w \in Writers : TRUE, 0>>

\* The processes opened the partition before it had an object, or when it was
\* empty: newS3PartIndex, populate, Run.
Init ==
  /\ object \in {NoObject, [etag |-> FirstETag, files |-> {}]}
  /\ puts = [w \in Writers |-> 0]
  /\ files = [w \in Writers |-> CurrentFiles] /\ etag = [w \in Writers |-> CurrentETag]
  /\ pending = [w \in Writers |-> NoChange] /\ promises = [w \in Writers |-> {}]
  /\ armed = [w \in Writers |-> FALSE]
  /\ pc = [w \in Writers |-> "select"] /\ attempt = [w \in Writers |-> 0]
  /\ held = [w \in Writers |-> {}] /\ heldChange = [w \in Writers |-> NoChange]
  /\ window = [w \in Writers |-> [must |-> {}, may |-> {}]]
  /\ buffer = [w \in Writers |-> {}] /\ outcome = [w \in Writers |-> "ok"]
  /\ calls = <<>> /\ stored = {} /\ exposed = {}
  /\ behind = [w \in Writers |-> FALSE] /\ met = [w \in Writers |-> 0]
  /\ spent = [what \in {"failures", "lost", "deletes", "crashes"} |-> 0]

Flusher(w) ==
  \/ FlushBegin(w) \/ Serialize(w) \/ Stat(w) \/ Put(w) \/ PutLost(w) \/ Fail(w)
  \/ Reload(w) \/ FlushEnd(w)

Next ==
  \/ \E w \in Writers, r \in Requests : Batch(w, r[1], r[2])
  \/ \E w \in Writers : Flusher(w)
  \/ Delete
  \/ \E w \in Writers : Crash(w)

Spec == Init /\ [][Next]_vars

\* The Go scheduler runs the goroutine of each process and requests return.
LiveSpec == Spec /\ \A w \in Writers : WF_vars(Flusher(w))

-----------------------------------------------------------------------------
(* Properties.                                                             *)

Change == [add : SUBSET Paths, rm : SUBSET Paths]
ETags == (Writers \X Nat) \cup {NoETag}

\* The shape of the state.
TypeOK ==
  /\ object \in {NoObject} \cup [etag : Writers \X Nat, files : SUBSET Paths]
  /\ puts \in [Writers -> Nat]
  /\ files \in [Writers -> SUBSET Paths]
  /\ etag \in [Writers -> ETags]
  /\ pending \in [Writers -> Change] /\ heldChange \in [Writers -> Change]
  /\ armed \in [Writers -> BOOLEAN]
  /\ pc \in [Writers -> {"select", "range", "stat", "put", "reload", "reply"}]
  /\ attempt \in [Writers -> 0 .. maxFlushRetries - 1]
  /\ window \in [Writers -> [must : SUBSET Paths, may : SUBSET Paths]]
  /\ buffer \in [Writers -> SUBSET Paths]
  /\ outcome \in [Writers -> {"ok", "err", "exhausted"}]
  /\ calls \in Seq([by : Writers, add : SUBSET Paths, rm : SUBSET Paths, queued : BOOLEAN,
                    res : {"pending", "ok", "err", "exhausted", "lost"}])
  /\ promises \in [Writers -> SUBSET DOMAIN calls] /\ held \in [Writers -> SUBSET DOMAIN calls]
  /\ \A w \in Writers :
       /\ promises[w] \cup held[w] \subseteq Outstanding(w)
       /\ promises[w] \cap held[w] = {}
  /\ stored \cup exposed \subseteq DOMAIN calls
  /\ behind \in [Writers -> BOOLEAN] /\ met \in [Writers -> Nat]
  /\ spent \in [{"failures", "lost", "deletes", "crashes"} -> Nat]

Acked(i) == calls[i].queued /\ calls[i].res = "ok"

\* A Batch answered without error by a flush was in metadata.json at some time,
\* whatever conflicts the flush met on its way.
EveryAckedStored == \A i \in DOMAIN calls : Acked(i) => i \in stored

\* No earlier call removed what this one adds: a flush that met a conflict puts all
\* additions it took on top of the object, then all removals.
Fresh(i) == \A j \in 1 .. i - 1 : calls[j].rm \cap calls[i].add = {}

\* The same of new files, except for the calls that were waiting for the next flush
\* when the running one met a conflict.
AckedStored ==
  \A i \in DOMAIN calls : Acked(i) /\ Fresh(i) /\ i \notin exposed => i \in stored

\* A Batch answered without error by a flush is in metadata.json until a later
\* Batch undoes it.
AckedDurable ==
  \A i \in DOMAIN calls : Acked(i) => Covers(CurrentFiles, i)

Unhurt(w) == \A i \in CallsOf(w) : calls[i].res \in {"pending", "ok", "lost"}

\* A process that is idle, that nobody has woken and whose flushes all succeeded
\* holds the files of the version it read or wrote last: when its ETag agrees
\* with the object's, the next upload cannot drop a file it does not know.
IdleInSync ==
  \A w \in Writers :
    pc[w] = "select" /\ ~armed[w] /\ Unhurt(w) /\ etag[w] # NoETag /\ etag[w] = CurrentETag
      => files[w] = CurrentFiles

\* A flush gives up only when the object changed under each of its attempts: during
\* the flush itself it met maxFlushRetries uploads of other processes, of which one may
\* stand for what happened between the last time the process knew the object and the
\* flush (others uploaded, or an upload of its own lost its response).
GivesUpOnlyUnderContention ==
  \A w \in Writers :
    pc[w] = "reply" /\ outcome[w] = "exhausted" => met[w] >= maxFlushRetries

\* Every flush ends, and the promise of every Batch is resolved: a process whose
\* callers wait comes to a time when none does, as they call a bounded number of times.
PromiseResolved == \A w \in Writers : Outstanding(w) # {} ~> Outstanding(w) = {}
=============================================================================
