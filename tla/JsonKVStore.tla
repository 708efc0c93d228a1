----------------------------- MODULE JsonKVStore -----------------------------
(***************************************************************************)
(* The key-value store in a JSON file: jsonKVStoreIndex of                 *)
(* json_kv_store.go.  Put and Delete change the map in memory, queue a     *)
(* promise and wake the goroutine of the store; doSave writes the map to   *)
(* <path>.tmp and renames it.  It hands the map itself to json.Marshal,    *)
(* after it has released the mutex: Put and Delete go on changing it.      *)
(*                                                                         *)
(* Abstractions.  As in KVStore the value of a key is the number of the    *)
(* call that wrote it.  A process that dies between two steps leaves the   *)
(* files as they are; so does one that the Go runtime stops because it     *)
(* catches json.Marshal and a writer in the map at the same time.          *)
(***************************************************************************)
EXTENDS Integers, Sequences, FiniteSets, FiniteSetsExt

CONSTANTS
  Keys,
  NoFile,          \* the file does not exist
  Torn,            \* the file exists and is not (yet) JSON
  MaxOutstanding,  \* callers that wait for a promise at a time
  MaxWrites,       \* bound: calls of Put and Delete
  MaxFailures,     \* bound: system calls that fail
  MaxCrashes       \* bound: crashes of the process

ASSUME JsonKVAssumption ==
  /\ MaxWrites \in Nat
  /\ NoFile # Torn
  /\ NoFile \notin [Keys -> Nat] /\ Torn \notin [Keys -> Nat]

VARIABLES
  file,      \* j.Path
  tmp,       \* j.Path + ".tmp"
  cache,     \* j.cache
  promises,  \* j.savePromises
  armed,     \* j.saveCtx is cancelled: planSave() was called
  destroyed, \* j.ctx is cancelled: Destroy() was called
  pc,        \* where the goroutine of the store is
  held,      \* doSave: the promises it will resolve
  window,    \* doSave: the values json.Marshal may find for each key
  contents,  \* doSave: what it found
  outcome,   \* doSave: what it will answer
  calls,     \* every call of Put and Delete, in the order of j.m
  alive,     \* the calls since the store was opened
  spent      \* bound: failures and crashes so far

memVars == <<cache, promises, armed, destroyed>>
saveVars == <<held, window, contents, outcome>>
vars == <<file, tmp, memVars, pc, saveVars, calls, alive, spent>>

Empty == [k \in Keys |-> 0]
Parsed == IF file \in {NoFile, Torn} THEN Empty ELSE file
Outstanding == {n \in DOMAIN calls : calls[n].res = "pending"}
Spend(what, bound) ==
  /\ spent[what] < bound
  /\ spent' = [spent EXCEPT ![what] = @ + 1]

-----------------------------------------------------------------------------
(* NewJSONKVStoreIndex.                                                    *)

Opened(content) ==
  /\ cache' = content
  /\ pc' = "select"
  /\ UNCHANGED <<tmp, promises, armed, destroyed, saveVars, calls, alive, spent>>

\* Load finds a file that parses; one that does not is an error, every time.
Load ==
  /\ pc = "closed"
  /\ file \notin {NoFile, Torn}
  /\ Opened(file)
  /\ UNCHANGED file

\* Load finds no file: os.Create, then WriteString("{}").
CreateFile ==
  /\ pc = "closed"
  /\ file = NoFile
  /\ file' = Torn
  /\ pc' = "created"
  /\ UNCHANGED <<tmp, memVars, saveVars, calls, alive, spent>>

WriteEmpty ==
  /\ pc = "created"
  /\ file' = Empty
  /\ Opened(Empty)

-----------------------------------------------------------------------------
(* The callers.                                                            *)

Closed == pc \in {"closed", "created"}

\* Put and Delete, up to the release of the mutex.  While json.Marshal runs it
\* may find the value before or after.
SignalUnlessSaving == armed' = (pc = "select")                       \* mutant
Signal == armed' = TRUE
Write(k) ==
  /\ ~Closed
  /\ Len(calls) < MaxWrites
  /\ Cardinality(Outstanding) < MaxOutstanding
  /\ LET n == Len(calls) + 1
     IN /\ calls' = Append(calls, [key |-> k, res |-> "pending"])
        /\ cache' = [cache EXCEPT ![k] = n]
        /\ promises' = promises \cup {n}
        /\ alive' = alive \cup {n}
        /\ window' = [window EXCEPT ![k] = @ \cup {n}]
  /\ Signal
  /\ UNCHANGED <<file, tmp, destroyed, pc, held, contents, outcome, spent>>

Destroy ==
  /\ ~Closed
  /\ ~destroyed
  /\ destroyed' = TRUE
  /\ UNCHANGED <<file, tmp, cache, promises, armed, pc, saveVars, calls, alive, spent>>

-----------------------------------------------------------------------------
(* The goroutine of the store and doSave.                                  *)

\* select takes either case when both are ready.
Exit ==
  /\ pc = "select"
  /\ destroyed
  /\ pc' = "gone"
  /\ UNCHANGED <<file, tmp, memVars, saveVars, calls, alive, spent>>

\* Under the mutex: the map is not copied.
SaveBeginKeeping ==                                                  \* mutant
  /\ pc = "select"
  /\ armed
  /\ armed' = FALSE
  /\ held' = promises
  /\ window' = [k \in Keys |-> {cache[k]}]
  /\ pc' = "marshal"
  /\ UNCHANGED <<file, tmp, cache, promises, destroyed, contents, outcome, calls, alive, spent>>
SaveBegin ==
  /\ pc = "select"
  /\ armed
  /\ armed' = FALSE
  /\ held' = promises
  /\ promises' = {}
  /\ window' = [k \in Keys |-> {cache[k]}]
  /\ pc' = "marshal"
  /\ UNCHANGED <<file, tmp, cache, destroyed, contents, outcome, calls, alive, spent>>

\* json.Marshal returns.
Marshal ==
  /\ pc = "marshal"
  /\ contents' \in [Keys -> UNION {window[k] : k \in Keys}]
  /\ \A k \in Keys : contents'[k] \in window[k]
  /\ pc' = "create"
  /\ UNCHANGED <<file, tmp, memVars, held, window, outcome, calls, alive, spent>>

CreateInPlace ==                                                     \* mutant
  /\ pc = "create"
  /\ file' = Torn
  /\ pc' = "write"
  /\ UNCHANGED <<tmp, memVars, saveVars, calls, alive, spent>>
CreateTmp ==
  /\ pc = "create"
  /\ tmp' = Torn
  /\ pc' = "write"
  /\ UNCHANGED <<file, memVars, saveVars, calls, alive, spent>>

WriteTmp ==
  /\ pc = "write"
  /\ tmp' = contents
  /\ pc' = "rename"
  /\ UNCHANGED <<file, memVars, saveVars, calls, alive, spent>>

Rename ==
  /\ pc = "rename"
  /\ file' = tmp /\ tmp' = NoFile
  /\ pc' = "release" /\ outcome' = "ok"
  /\ UNCHANGED <<memVars, held, window, contents, calls, alive, spent>>

\* os.Create, Write or os.Rename fails; nothing puts the change back.
FailIgnored ==                                                       \* mutant
  /\ pc \in {"create", "write", "rename"}
  /\ Spend("failures", MaxFailures)
  /\ pc' = "release" /\ outcome' = "ok"
  /\ UNCHANGED <<file, tmp, memVars, held, window, contents, calls, alive>>
Fail ==
  /\ pc \in {"create", "write", "rename"}
  /\ Spend("failures", MaxFailures)
  /\ pc' = "release" /\ outcome' = "err"
  /\ UNCHANGED <<file, tmp, memVars, held, window, contents, calls, alive>>

\* release resolves one promise after the other.
Release ==
  /\ pc = "release"
  /\ LET n == Min(held)
     IN /\ calls' = [calls EXCEPT ![n].res = outcome]
        /\ held' = held \ {n}
        /\ pc' = IF held = {n} THEN "select" ELSE "release"
  /\ UNCHANGED <<file, tmp, memVars, window, contents, outcome, alive, spent>>

Saver == Exit \/ SaveBegin \/ Marshal \/ CreateTmp \/ WriteTmp \/ Rename \/ Fail \/ Release

-----------------------------------------------------------------------------

\* The process dies with its callers; a new one may open the store.
Crash ==
  /\ pc # "closed"
  /\ Spend("crashes", MaxCrashes)
  /\ pc' = "closed"
  /\ cache' = Empty /\ promises' = {} /\ armed' = FALSE /\ destroyed' = FALSE
  /\ held' = {}
  /\ calls' = [n \in DOMAIN calls |->
                 IF n \in Outstanding THEN [calls[n] EXCEPT !.res = "lost"] ELSE calls[n]]
  /\ alive' = {}
  /\ UNCHANGED <<file, tmp, window, contents, outcome>>

Init ==
  /\ file = NoFile /\ tmp = NoFile
  /\ cache = Empty /\ promises = {} /\ armed = FALSE /\ destroyed = FALSE
  /\ pc = "closed"
  /\ held = {} /\ window = [k \in Keys |-> {}] /\ contents = Empty /\ outcome = "ok"
  /\ calls = <<>> /\ alive = {}
  /\ spent = [what \in {"failures", "crashes"} |-> 0]

Next ==
  \/ Load \/ CreateFile \/ WriteEmpty
  \/ \E k \in Keys : Write(k)
  \/ Destroy
  \/ Saver
  \/ Crash

Spec == Init /\ [][Next]_vars

\* The Go scheduler runs the goroutine of the store and system calls return.
LiveSpec == Spec /\ WF_vars(Saver)

-----------------------------------------------------------------------------
(* Properties.                                                             *)

Content == [Keys -> 0 .. Len(calls)]

\* The shape of the state; a promise is waited for, and in one place.
TypeOK ==
  /\ file \in {NoFile, Torn} \cup Content
  /\ tmp \in {NoFile, Torn} \cup Content
  /\ cache \in Content /\ contents \in Content
  /\ promises \cup held \subseteq Outstanding
  /\ promises \cap held = {}
  /\ armed \in BOOLEAN /\ destroyed \in BOOLEAN
  /\ pc \in {"closed", "created", "select", "marshal", "create", "write", "rename", "release",
             "gone"}
  /\ pc = "release" => held # {}
  /\ window \in [Keys -> SUBSET (0 .. Len(calls))]
  /\ outcome \in {"ok", "err"}
  /\ calls \in Seq([key : Keys, res : {"pending", "ok", "err", "lost"}])
  /\ alive \subseteq DOMAIN calls
  /\ spent \in [{"failures", "crashes"} -> Nat]

\* Once the store has been opened its file can be loaded, whenever the process
\* dies and whatever system call fails: no later caller is locked out.
Loadable == ~Closed \/ calls # <<>> => file \notin {NoFile, Torn}

KV == INSTANCE KVStore WITH store <- Parsed, cache <- IF Closed THEN Parsed ELSE cache
\* The store keeps the promise of KVStore, through crashes, failed saves and the
\* map that changes while it is written: its file is the store.
ImplementsKVStore == KV!Spec

\* Every Put and Delete returns, as long as nobody destroys the store.
WriteReturns ==
  \A n \in 1 .. MaxWrites :
    (n \in Outstanding) ~> (n \notin Outstanding \/ destroyed)
=============================================================================
