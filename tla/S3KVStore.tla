------------------------------ MODULE S3KVStore ------------------------------
(***************************************************************************)
(* The key-value store in an object of a bucket: s3KVStoreIndex of         *)
(* s3_kv_store.go over the requests of s3_client.go, opened by several     *)
(* processes.  Put and Delete change the map in memory, note the change as *)
(* pending, queue a promise and wake the goroutine of the store; doSave    *)
(* serializes the map, compares the ETag of the object with the one it     *)
(* knows, uploads, and, if the ETags differ, reads the object again, puts  *)
(* the changes it took on top and tries anew.                              *)
(*                                                                         *)
(* Abstractions.  As in KVStore the value of a key is the number of the    *)
(* call that wrote it.  The ETag of an object stands for its content.      *)
(* A process that dies has no request under way; one that the Go runtime   *)
(* stops because json.Marshal and a writer meet in the map dies, too.      *)
(***************************************************************************)
EXTENDS Integers, Sequences, FiniteSets, FiniteSetsExt

CONSTANTS
  Writers,           \* the processes that opened the store
  Keys,
  NoObject,          \* the object does not exist; j.etag = ""
  maxKVFlushRetries, \* 3 in the code
  MaxOutstanding,    \* callers of a process that wait for a promise at a time
  MaxWrites,         \* bound: calls of Put and Delete
  MaxFaults          \* bound: failing requests, lost responses and crashes

ASSUME S3KVAssumption ==
  /\ maxKVFlushRetries \in Nat \ {0}
  /\ MaxWrites \in Nat
  /\ NoObject \notin [Keys -> Nat]

VARIABLES
  object,    \* kv_store.json in the bucket
  cache,     \* j.cache of each process
  etag,      \* j.etag
  pending,   \* j.pendingPuts and j.pendingDeletes
  promises,  \* j.savePromises
  armed,     \* j.saveCtx is cancelled: planSave() was called
  destroyed, \* j.ctx is cancelled: Destroy() was called
  pc,        \* where the goroutine of the store is
  attempt,   \* doSave: the iteration of its loop
  held,      \* doSave: the promises it will resolve
  heldChange,\* doSave: the pending changes it took
  window,    \* doSave: the values json.Marshal may find for each key
  contents,  \* doSave: what it found
  outcome,   \* doSave: what it will answer
  calls,     \* every call of Put and Delete
  stored,    \* the calls that some version of the object reflected
  exposed,   \* the calls that waited while a save of their process met a conflict
  spent      \* bound: failures, lost responses and crashes so far

bucketVars == <<object, stored, exposed>>
memVars == <<cache, etag, pending, promises, armed, destroyed>>
saveVars == <<pc, attempt, held, heldChange, window, contents, outcome>>
vars == <<bucketVars, memVars, saveVars, calls, spent>>

Empty == [k \in Keys |-> 0]
Current == IF object = NoObject THEN Empty ELSE object
Outstanding(w) == {n \in DOMAIN calls : calls[n].by = w /\ calls[n].res = "pending"}
Spend(what) ==
  /\ MapThenSumSet(LAMBDA k : spent[k], DOMAIN spent) < MaxFaults
  /\ spent' = [spent EXCEPT ![what] = @ + 1]

\* The map reflects call n, or a later one of the same process about its key.
Covers(map, n) ==
  LET m == map[calls[n].key] IN m = n \/ (m > n /\ calls[m].by = calls[n].by)

-----------------------------------------------------------------------------
(* The callers.                                                            *)

\* Put and Delete, up to the release of the mutex.  A Delete takes the pending
\* Put of its key away and a Put the pending Delete.
Signal(w) == armed' = [armed EXCEPT ![w] = TRUE]
Write(w, k) ==
  /\ Len(calls) < MaxWrites
  /\ Cardinality(Outstanding(w)) < MaxOutstanding
  /\ LET n == Len(calls) + 1
     IN /\ calls' = Append(calls, [by |-> w, key |-> k, res |-> "pending"])
        /\ cache' = [cache EXCEPT ![w][k] = n]
        /\ pending' = [pending EXCEPT ![w][k] = n]
        /\ promises' = [promises EXCEPT ![w] = @ \cup {n}]
        /\ window' = [window EXCEPT ![w][k] = @ \cup {n}]
  /\ Signal(w)
  /\ UNCHANGED <<bucketVars, etag, destroyed, pc, attempt, held, heldChange, contents,
                 outcome, spent>>

Destroy(w) ==
  /\ ~destroyed[w]
  /\ destroyed' = [destroyed EXCEPT ![w] = TRUE]
  /\ UNCHANGED <<bucketVars, cache, etag, pending, promises, armed, saveVars, calls, spent>>

-----------------------------------------------------------------------------
(* The goroutine of the store and doSave.                                  *)

\* select takes either case when both are ready.
Exit(w) ==
  /\ pc[w] = "select"
  /\ destroyed[w]
  /\ pc' = [pc EXCEPT ![w] = "gone"]
  /\ UNCHANGED <<bucketVars, memVars, attempt, held, heldChange, window, contents, outcome,
                 calls, spent>>

\* json.Marshal gets the map itself, not a copy.
Marshalling(w, map) ==
  /\ pc' = [pc EXCEPT ![w] = "marshal"]
  /\ window' = [window EXCEPT ![w] = [k \in Keys |-> {map[k]}]]

Answer(w, res) ==
  /\ pc' = [pc EXCEPT ![w] = "release"]
  /\ outcome' = [outcome EXCEPT ![w] = res]

TakeKeeping(w) ==                                                    \* mutant
  /\ held' = [held EXCEPT ![w] = promises[w]]
  /\ UNCHANGED promises
TakePromises(w) ==
  /\ held' = [held EXCEPT ![w] = promises[w]]
  /\ promises' = [promises EXCEPT ![w] = {}]

SaveBegin(w) ==
  /\ pc[w] = "select"
  /\ armed[w]
  /\ armed' = [armed EXCEPT ![w] = FALSE]
  /\ TakePromises(w)
  /\ heldChange' = [heldChange EXCEPT ![w] = pending[w]]
  /\ pending' = [pending EXCEPT ![w] = Empty]
  /\ attempt' = [attempt EXCEPT ![w] = 0]
  /\ Marshalling(w, cache[w])
  /\ UNCHANGED <<bucketVars, cache, etag, destroyed, contents, outcome, calls, spent>>

\* json.Marshal returns.
Marshal(w) ==
  /\ pc[w] = "marshal"
  /\ \E map \in [Keys -> UNION {window[w][k] : k \in Keys}] :
       /\ \A k \in Keys : map[k] \in window[w][k]
       /\ contents' = [contents EXCEPT ![w] = map]
  /\ pc' = [pc EXCEPT ![w] = "stat"]
  /\ UNCHANGED <<bucketVars, memVars, attempt, held, heldChange, window, outcome, calls,
                 spent>>

\* checkAndPut: without an ETag to expect, or without an object, it uploads
\* unconditionally.
StatAgrees(w) == etag[w] = NoObject \/ object \in {NoObject, etag[w]}
Stat(w) ==
  /\ pc[w] = "stat"
  /\ pc' = [pc EXCEPT ![w] = IF StatAgrees(w) THEN "put" ELSE "reload"]
  /\ UNCHANGED <<bucketVars, memVars, attempt, held, heldChange, window, contents, outcome,
                 calls, spent>>

\* The bucket takes an upload, whatever it holds by then.
Upload(w) ==
  /\ object' = contents[w]
  /\ stored' = stored \cup {n \in DOMAIN calls : Covers(contents[w], n)}
  /\ UNCHANGED exposed

Put(w) ==
  /\ pc[w] = "put"
  /\ Upload(w)
  /\ etag' = [etag EXCEPT ![w] = contents[w]]
  /\ Answer(w, "ok")
  /\ UNCHANGED <<cache, pending, promises, armed, destroyed, attempt, held, heldChange,
                 window, contents, calls, spent>>

\* The upload happened but its response did not arrive.
PutLost(w) ==
  /\ pc[w] = "put"
  /\ Spend("lost")
  /\ Upload(w)
  /\ Answer(w, "err")
  /\ UNCHANGED <<memVars, attempt, held, heldChange, window, contents, calls>>

\* StatObject, PutObject or GetObject failed; nothing puts the change back.
FailIgnored(w) ==                                                    \* mutant
  /\ pc[w] \in {"stat", "put", "reload"}
  /\ Spend("failures")
  /\ Answer(w, "ok")
  /\ UNCHANGED <<bucketVars, memVars, attempt, held, heldChange, window, contents, calls>>
Fail(w) ==
  /\ pc[w] \in {"stat", "put", "reload"}
  /\ Spend("failures")
  /\ Answer(w, "err")
  /\ UNCHANGED <<bucketVars, memVars, attempt, held, heldChange, window, contents, calls>>

\* reloadAndMerge: memory becomes the object with the changes of this flush on
\* top; what was put since the flush began stays in j.pendingPuts only.
MergedNothing(change) == Current                                     \* mutant
Merged(change) == [k \in Keys |-> IF change[k] = 0 THEN Current[k] ELSE change[k]]

Reload(w) ==
  /\ pc[w] = "reload"
  /\ etag' = [etag EXCEPT ![w] = object]
  /\ LET merged == Merged(heldChange[w])
     IN /\ cache' = [cache EXCEPT ![w] = merged]
        /\ IF attempt[w] + 1 < maxKVFlushRetries
           THEN /\ attempt' = [attempt EXCEPT ![w] = @ + 1]
                /\ Marshalling(w, merged)
                /\ UNCHANGED outcome
           ELSE /\ Answer(w, "exhausted")
                /\ UNCHANGED <<attempt, window>>
  /\ exposed' = exposed \cup promises[w]
  /\ UNCHANGED <<object, stored, pending, promises, armed, destroyed, held, heldChange, contents,
                 calls, spent>>

\* release resolves one promise after the other.
Release(w) ==
  /\ pc[w] = "release"
  /\ LET n == Min(held[w])
     IN /\ calls' = [calls EXCEPT ![n].res = outcome[w]]
        /\ held' = [held EXCEPT ![w] = @ \ {n}]
        /\ pc' = [pc EXCEPT ![w] = IF held[w] = {n} THEN "select" ELSE "release"]
  /\ UNCHANGED <<bucketVars, memVars, attempt, heldChange, window, contents, outcome,
                 spent>>

Saver(w) ==
  \/ Exit(w) \/ SaveBegin(w) \/ Marshal(w) \/ Stat(w) \/ Put(w) \/ PutLost(w) \/ Fail(w)
  \/ Reload(w) \/ Release(w)

-----------------------------------------------------------------------------

\* A process dies with its callers and opens the store anew: load.
Crash(w) ==
  /\ Spend("crashes")
  /\ cache' = [cache EXCEPT ![w] = Current]
  /\ etag' = [etag EXCEPT ![w] = object]
  /\ pending' = [pending EXCEPT ![w] = Empty]
  /\ promises' = [promises EXCEPT ![w] = {}]
  /\ armed' = [armed EXCEPT ![w] = FALSE]
  /\ destroyed' = [destroyed EXCEPT ![w] = FALSE]
  /\ pc' = [pc EXCEPT ![w] = "select"]
  /\ held' = [held EXCEPT ![w] = {}]
  /\ calls' = [n \in DOMAIN calls |->
                 IF n \in Outstanding(w) THEN [calls[n] EXCEPT !.res = "lost"] ELSE calls[n]]
  /\ UNCHANGED <<bucketVars, attempt, heldChange, window, contents, outcome>>

\* The processes opened the store before it had an object: NewS3KVStoreIndex.
Init ==
  /\ object = NoObject /\ stored = {} /\ exposed = {}
  /\ cache = [w \in Writers |-> Empty] /\ etag = [w \in Writers |-> NoObject]
  /\ pending = [w \in Writers |-> Empty] /\ promises = [w \in Writers |-> {}]
  /\ armed = [w \in Writers |-> FALSE] /\ destroyed = [w \in Writers |-> FALSE]
  /\ pc = [w \in Writers |-> "select"] /\ attempt = [w \in Writers |-> 0]
  /\ held = [w \in Writers |-> {}] /\ heldChange = [w \in Writers |-> Empty]
  /\ window = [w \in Writers |-> [k \in Keys |-> {}]]
  /\ contents = [w \in Writers |-> Empty] /\ outcome = [w \in Writers |-> "ok"]
  /\ calls = <<>>
  /\ spent = [what \in {"failures", "lost", "crashes"} |-> 0]

Next ==
  \/ \E w \in Writers, k \in Keys : Write(w, k)
  \/ \E w \in Writers : Destroy(w) \/ Saver(w) \/ Crash(w)

Spec == Init /\ [][Next]_vars

-----------------------------------------------------------------------------
(* Properties.                                                             *)

Content == [Keys -> 0 .. Len(calls)]

\* The shape of the state; a promise is waited for, and in one place.
TypeOK ==
  /\ object \in {NoObject} \cup Content
  /\ stored \cup exposed \subseteq DOMAIN calls
  /\ etag \in [Writers -> {NoObject} \cup Content]
  /\ \A F \in {cache, pending, heldChange, contents} : F \in [Writers -> Content]
  /\ armed \in [Writers -> BOOLEAN] /\ destroyed \in [Writers -> BOOLEAN]
  /\ pc \in [Writers -> {"select", "marshal", "stat", "put", "reload", "release", "gone"}]
  /\ attempt \in [Writers -> 0 .. maxKVFlushRetries - 1]
  /\ window \in [Writers -> [Keys -> SUBSET (0 .. Len(calls))]]
  /\ outcome \in [Writers -> {"ok", "err", "exhausted"}]
  /\ calls \in Seq([by : Writers, key : Keys,
                    res : {"pending", "ok", "err", "exhausted", "lost"}])
  /\ promises \in [Writers -> SUBSET DOMAIN calls] /\ held \in [Writers -> SUBSET DOMAIN calls]
  /\ \A w \in Writers :
       /\ promises[w] \cup held[w] \subseteq Outstanding(w)
       /\ promises[w] \cap held[w] = {}
       /\ pc[w] = "release" => held[w] # {}
  /\ spent \in [{"failures", "lost", "crashes"} -> Nat]

\* A Put or Delete that returned without an error was in kv_store.json at some
\* time, or a later one of its process in its place, whatever conflicts with other
\* processes, failures and lost responses its save met; the exception are calls
\* that were waiting for the next save when the running one met a conflict.
AckedStored ==
  \A n \in DOMAIN calls : calls[n].res = "ok" /\ n \notin exposed => n \in stored

\* As long as one process has the store to itself and learns of its uploads, a Put
\* or Delete that returned without an error is in kv_store.json, unless a later one
\* replaced it; no crash, failing request or change of the map while it is
\* serialized takes it back.
SoleDurable ==
  (\A m, n \in DOMAIN calls : calls[m].by = calls[n].by) /\ spent["lost"] = 0 =>
    \A n \in DOMAIN calls : calls[n].res = "ok" => Current[calls[n].key] >= n
=============================================================================
