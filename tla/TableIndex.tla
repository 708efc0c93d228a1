----------------------------- MODULE TableIndex -----------------------------
(***************************************************************************)
(* A table whose layers lie on file systems and in S3 buckets: HybridIndex *)
(* of hybrid_index.go over JSONIndex of json_index.go and S3Index of       *)
(* s3_index.go, with the promises of promise.go.                           *)
(*                                                                         *)
(* Batch routes its entries to the two backends, and each backend, under   *)
(* its lock, to the partitions of its layers, which it opens when they are *)
(* not yet in its map J.parts.  Query opens partitions as well, without    *)
(* the lock.  Movers follow the move planner: they copy a file to the next *)
(* layer, index the copy, wait, and remove the original from the index.    *)
(*                                                                         *)
(* Abstractions.  A partition is what JsonPartIndex and S3PartIndex show   *)
(* of theirs: a set of entries in memory and one that is saved, and a      *)
(* flush in one step.  An entry is a layer and a file, <<layer, datum>>: a *)
(* move changes the layer only.  Time is counted in half-hours, and a      *)
(* partition is a layer and an hour; a file lies in the hour in which its  *)
(* rows begin.  The options Folder and Iteration of Query are left out.  A *)
(* mover takes a plan without LayerTo, which the planner offers for files  *)
(* of the last layer if it has a time to live, for no plan.                *)
(***************************************************************************)
EXTENDS Integers, Sequences, FiniteSets, FiniteSetsExt

CONSTANTS
  Layers,      \* the names of the layers, in the configured order
  LayerType,   \* "fs" or "s3" for each
  Data,        \* the data files
  At, Until,   \* the half-hours of MinTime and MaxTime of each file
  Options,     \* the time ranges [after, before] of Query; 0 is no limit
  Movers,      \* the goroutines that execute move plans
  None,        \* no partition, no layer, no file
  Scenarios    \* bound: what may happen in a run: the requests <<add, rm>> writers
               \* give to Batch, the entries readers ask Get for, the movers, and the
               \* numbers of calls, queries, failures, crashes and stops

LayerNames == {Layers[i] : i \in DOMAIN Layers}
Requested == UNION {r[1] \cup r[2] : r \in UNION {s.requests : s \in Scenarios}}
Entries == (LayerNames \X Data) \cup Requested
Place(e) == <<e[1], At[e[2]] \div 2>>
Places == {Place(e) : e \in Entries}

ASSUME TableAssumption ==
  /\ Layers \in Seq(LayerNames) /\ IsInjective(Layers)
  /\ LayerType \in [LayerNames -> {"fs", "s3"}]
  /\ At \in [Data -> Nat \ {0, 1}] /\ Until \in [Data -> Nat]
  /\ None \notin LayerNames \cup Places \cup Entries /\ None \notin Places \X Nat
  /\ \A files \in SUBSET Entries : files # None
  /\ Options \subseteq [after : Nat, before : Nat]

ASSUME ScenarioAssumption ==
  /\ Requested \subseteq {e[1] : e \in Requested} \X Data
  /\ Scenarios \subseteq
       [requests : SUBSET ((SUBSET Entries) \X (SUBSET Entries)), reads : SUBSET Entries,
        movers : SUBSET Movers, calls : Nat, queries : Nat, failures : Nat, crashes : Nat,
        stops : Nat]

VARIABLES
  saved,   \* metadata.json of each place, None if there is none
  dirs,    \* the directories hour=.. on the file systems
  opened,  \* the partitions opened so far for each place
  parts,   \* J.parts: the number of the one in the map, 0 if there is none
  lock,    \* J.lock of each backend: the call that holds it, or 0
  calls,   \* every call of Batch and Get
  query,   \* the query that runs, or ran last
  plan,    \* what each mover is doing
  log,     \* the calls that changed each place, in order
  twice,   \* the places that two opened partitions served at a time
  left     \* bound: what may still happen

vars == <<saved, dirs, opened, parts, lock, calls, query, plan, log, twice, left>>

-----------------------------------------------------------------------------
(* Layers, hours and partitions.                                           *)

\* A layer nobody configured is taken for one of the JSON index.
isS3Layer(l) == l \in LayerNames /\ LayerType[l] = "s3"
Backend(p) == IF isS3Layer(p[1]) THEN "s3" ELSE "fs"

\* The layers configured behind l, and the one of a set that follows it.
Behind(l) == {Layers[j] : j \in {j \in DOMAIN Layers : \E i \in 1 .. j - 1 : Layers[i] = l}}
After(l, S) == {m \in S \cap Behind(l) : S \cap Behind(l) \subseteq {m} \cup Behind(m)}
SameType(l) == {m \in LayerNames : LayerType[m] = LayerType[l]}

\* LayerTo of a move plan: the next layer of the backend; the hybrid index
\* completes what the JSON index leaves empty.
LayersToStaying(l) == {l}                                          \* mutant
LayersTo(l) ==
  IF After(l, SameType(l)) = {} /\ LayerType[l] = "fs" THEN After(l, LayerNames)
  ELSE After(l, SameType(l))

\* HybridIndex.Query: first the JSON index, then the S3 index, each with its layers
\* in their order.  The layers that come before l, and the number of l.
EarlierSwapped(l) ==                                               \* mutant
  {m \in LayerNames : IF LayerType[m] = LayerType[l] THEN l \in Behind(m) ELSE LayerType[m] = "s3"}
Earlier(l) ==
  {m \in LayerNames : IF LayerType[m] = LayerType[l] THEN l \in Behind(m) ELSE LayerType[m] = "fs"}
Position(l) == Cardinality(Earlier(l)) + 1

\* Round(time.Hour), half an hour upwards.
RoundedHour(t) == (t + 1) \div 2
Hours(n) == {p \in Places : /\ p[1] \in LayerNames /\ Position(p[1]) = n
                            /\ IF isS3Layer(p[1]) THEN saved[p] # None ELSE p \in dirs}

\* With both limits the JSON index appends the hours that satisfy them to the
\* hours it had kept for Before; the S3 index starts anew.
KeepsAlways(l) == TRUE                                             \* mutant
KeepsEarlier(l) == ~isS3Layer(l)

\* How often findHours lists each hour of the n-th layer.
findHours(n, o) ==
  LET earlier == {p \in Hours(n) : o.before = 0 \/ 2 * p[2] < o.before}
      between == {p \in earlier : o.after = 0 \/ p[2] >= RoundedHour(o.after)}
      kept    == {p \in earlier : o.before # 0 /\ o.after # 0 /\ KeepsEarlier(p[1])}
  IN [p \in Places |-> Cardinality({p} \cap between) + Cardinality({p} \cap kept)]

\* jsonPartIndex.Query and s3PartIndex.Query.
Matches(e, o) == /\ o.before # 0 => At[e[2]] <= o.before
                 /\ o.after # 0 => Until[e[2]] >= o.after

\* newJsonPartIndex or newS3PartIndex, and Run.  alone: no other partition has
\* saved since this one read or saved (the ETag it has is current).
Fresh(p) == [files |-> IF saved[p] = None THEN {} ELSE saved[p], add |-> {}, rm |-> {},
             waiting |-> {}, alone |-> TRUE, loop |-> "runs"]
Open(p) ==
  /\ opened' = [opened EXCEPT ![p] = Append(@, Fresh(p))]
  /\ twice' = IF opened[p] = <<>> THEN twice ELSE twice \cup {p}
  /\ dirs' = IF isS3Layer(p[1]) THEN dirs ELSE dirs \cup {p}

Spend(what) ==
  /\ left[what] > 0
  /\ left' = [left EXCEPT ![what] = @ - 1]

-----------------------------------------------------------------------------
(* Batch and Get.                                                          *)

\* todo: the places still to do; loaded: the partition populate has opened and
\* not yet put into the map; waits: the places whose promises the call got.
NewCall(by, add, rm, places) ==
  /\ left.calls > 0
  /\ calls' = Append(calls, [by |-> by, add |-> add, rm |-> rm, todo |-> places,
                             loaded |-> None, waits |-> {}, failed |-> FALSE,
                             res |-> "pending"])

\* Whoever adds an entry has written the file, and so made its directory.
Written(add) == dirs' = dirs \cup {p \in {Place(e) : e \in add} : Backend(p) = "fs"}

\* Files have names of their own, so that a writer does not repeat a request.
Batch(r) ==
  /\ left' = [left EXCEPT !.calls = @ - 1, !.requests = @ \ {r}]
  /\ NewCall("writer", r[1], r[2], {Place(e) : e \in r[1] \cup r[2]})
  /\ Written(r[1])
  /\ UNCHANGED <<saved, opened, parts, lock, query, plan, log, twice>>

Get(e) ==
  /\ left' = [left EXCEPT !.calls = @ - 1, !.reads = @ \ {e}]
  /\ NewCall("reader", {}, {}, {Place(e)})
  /\ UNCHANGED <<saved, dirs, opened, parts, lock, query, plan, log, twice>>

\* The JSON index has its turn before the S3 index.
Turn(c) == IF \E p \in c.todo : Backend(p) = "fs" THEN "fs" ELSE "s3"

\* J.lock is held from the first partition of a backend to the last.
Free(i, b) == lock[b] \in {0, i}
Hold(i, b, todo) ==
  lock' = [lock EXCEPT ![b] = IF \E p \in todo : Backend(p) = b THEN i ELSE 0]

\* The loops over layers and over partPath, in an order of their own: a layer
\* that was begun is finished before the next.
Begun(c) == {Place(e)[1] : e \in {e \in c.add \cup c.rm : Place(e) \notin c.todo}}
AtHand(i, p) ==
  /\ p \in calls[i].todo
  /\ Backend(p) = Turn(calls[i])
  /\ Free(i, Backend(p))
  /\ \A r \in calls[i].todo : r[1] \in Begun(calls[i]) => p[1] = r[1]

\* populate: the partition is not in the map and is read.
Load(i, p) ==
  /\ AtHand(i, p)
  /\ calls[i].loaded = None
  /\ p[1] \in LayerNames
  /\ parts[p] = 0
  /\ Open(p)
  /\ calls' = [calls EXCEPT ![i].loaded = <<p, Len(opened[p]) + 1>>]
  /\ Hold(i, Backend(p), calls[i].todo)
  /\ UNCHANGED <<saved, parts, query, plan, log, left>>

Without(S, l) == {p \in S : p[1] # l}

\* populate does not know the layer, or cannot read the partition: batchLayer
\* returns, and the promises it had from other partitions are dropped.
LoadFails(i, p) ==
  /\ AtHand(i, p)
  /\ calls[i].loaded = None
  /\ \/ p[1] \notin LayerNames /\ UNCHANGED left
     \/ p[1] \in LayerNames /\ parts[p] = 0 /\ Spend("failures")
  /\ dirs' = IF p[1] \in LayerNames /\ ~isS3Layer(p[1]) THEN dirs \cup {p} ELSE dirs
  /\ calls' = [calls EXCEPT ![i].todo = Without(@, p[1]),
                            ![i].waits = Without(@, p[1]),
                            ![i].failed = TRUE]
  /\ Hold(i, Backend(p), Without(calls[i].todo, p[1]))
  /\ UNCHANGED <<saved, opened, parts, query, plan, log, twice>>

\* A Range that visits the partition meanwhile may or may not see the change.
Disturbed(p, k, files) ==
  IF query.ranging # <<p, k>> THEN query
  ELSE [query EXCEPT !.must = @ \cap files, !.may = @ \cup files]

OfLayer(S, p) == {e \in S : e[1] = p[1]}                           \* mutant
Of(S, p) == {e \in S : Place(e) = p}

\* populate puts the partition it has opened into the map, unless it found one
\* there; then Batch or Get of that partition.
Found(loaded, p) == IF loaded = None THEN parts[p] ELSE loaded[2]
Apply(i, p) ==
  LET k     == Found(calls[i].loaded, p)
      add   == Of(calls[i].add, p)
      rm    == Of(calls[i].rm, p)
      files == (opened[p][k].files \cup add) \ rm
  IN /\ AtHand(i, p)
     /\ calls[i].loaded # None => calls[i].loaded[1] = p
     /\ k # 0
     /\ parts' = [parts EXCEPT ![p] = k]
     /\ IF add = {} /\ rm \cap opened[p][k].files = {}
        THEN /\ calls' = [calls EXCEPT ![i].todo = @ \ {p}, ![i].loaded = None]
             /\ UNCHANGED <<opened, log, query>>
        ELSE /\ calls' = [calls EXCEPT ![i].todo = @ \ {p}, ![i].loaded = None,
                                       ![i].waits = @ \cup {p}]
             /\ opened' = [opened EXCEPT ![p][k].files = files,
                                         ![p][k].add = @ \cup add, ![p][k].rm = @ \cup rm,
                                         ![p][k].waiting = @ \cup {i}]
             /\ log' = [log EXCEPT ![p] = Append(@, i)]
             /\ query' = Disturbed(p, k, files)
     /\ Hold(i, Backend(p), calls[i].todo \ {p})
     /\ UNCHANGED <<saved, dirs, plan, twice, left>>

\* WaitForAllPromise.Get: an error that is known, or one it comes to, ends the
\* wait; without one it lasts until every promise is resolved.
SettledAlways(c) == TRUE                                           \* mutant
Settled(c) == c.failed \/ c.waits = {}

Answer(i) ==
  /\ calls[i].res = "pending"
  /\ calls[i].todo = {}
  /\ Settled(calls[i])
  /\ calls' = [calls EXCEPT ![i].res = IF calls[i].failed THEN "err" ELSE "ok",
                            ![i].waits = {}, ![i].failed = FALSE]
  /\ UNCHANGED <<saved, dirs, opened, parts, lock, query, plan, log, twice, left>>

-----------------------------------------------------------------------------
(* flush of partition k of place p.                                        *)

ResolveUnlessBad(p, k, bad) ==                                     \* mutant
  IF bad THEN UNCHANGED calls ELSE
  calls' = [i \in DOMAIN calls |->
              IF i \in opened[p][k].waiting THEN [calls[i] EXCEPT !.waits = @ \ {p}]
              ELSE calls[i]]
Resolve(p, k, bad) ==
  calls' = [i \in DOMAIN calls |->
              IF i \notin opened[p][k].waiting \/ p \notin calls[i].waits THEN calls[i]
              ELSE [calls[i] EXCEPT !.waits = @ \ {p}, !.failed = @ \/ bad]]

\* A JSON partition writes what it has in memory.  One in S3 does so if its
\* ETag is current, and otherwise puts its pending changes on what it reads.
Flush(p, k) ==
  LET part  == opened[p][k]
      files == IF isS3Layer(p[1]) /\ ~part.alone
               THEN ((IF saved[p] = None THEN {} ELSE saved[p]) \cup part.add) \ part.rm
               ELSE part.files
  IN /\ part.waiting # {} /\ part.loop # "over"
     /\ saved' = [saved EXCEPT ![p] = files]
     /\ opened' = [opened EXCEPT ![p] =
          [j \in DOMAIN @ |->
             IF j # k THEN [@[j] EXCEPT !.alone = FALSE]
             ELSE [part EXCEPT !.files = files, !.add = {}, !.rm = {}, !.waiting = {},
                               !.alone = TRUE]]]
     /\ Resolve(p, k, FALSE)
     /\ UNCHANGED <<dirs, parts, lock, query, plan, log, twice, left>>

\* Memory keeps the change; what was pending is forgotten.
FlushFails(p, k) ==
  /\ opened[p][k].waiting # {} /\ opened[p][k].loop # "over"
  /\ Spend("failures")
  /\ opened' = [opened EXCEPT ![p][k].add = {}, ![p][k].rm = {}, ![p][k].waiting = {}]
  /\ Resolve(p, k, TRUE)
  /\ UNCHANGED <<saved, dirs, parts, lock, query, plan, log, twice>>

-----------------------------------------------------------------------------
(* Query.                                                                  *)

Zero == [p \in Places |-> 0]
NoQuery == [after |-> 0, before |-> 0, layer |-> Len(Layers) + 1, todo |-> Zero,
            loaded |-> None, ranging |-> None, must |-> {}, may |-> {},
            got |-> [e \in Entries |-> 0], known |-> {}]

Acked(i) == calls[i].res = "ok"

\* The files whose addition was acknowledged; a query remembers those of its
\* beginning.
Known == {e[2] : e \in UNION {calls[i].add : i \in {i \in DOMAIN calls : Acked(i)}}}

Query(o) ==
  /\ Spend("queries")
  /\ query' = [NoQuery EXCEPT !.after = o.after, !.before = o.before, !.layer = 0,
                              !.known = Known]
  /\ UNCHANGED <<saved, dirs, opened, parts, lock, calls, plan, log, twice>>

\* The query is done with a layer and lists the hours of the next.
ListHours ==
  /\ query.layer < Len(Layers)
  /\ query.todo = Zero
  /\ query' = [query EXCEPT !.layer = @ + 1,
                            !.todo = findHours(query.layer + 1, query)]
  /\ UNCHANGED <<saved, dirs, opened, parts, lock, calls, plan, log, twice, left>>

QueryAt(p) == query.todo[p] > 0 /\ query.ranging = None

\* populate, without the lock.
QueryLoad(p) ==
  /\ QueryAt(p)
  /\ query.loaded = None
  /\ parts[p] = 0
  /\ Open(p)
  /\ query' = [query EXCEPT !.loaded = <<p, Len(opened[p]) + 1>>]
  /\ UNCHANGED <<saved, parts, lock, calls, plan, log, left>>

QueryFails(p) ==
  /\ QueryAt(p)
  /\ query.loaded = None
  /\ parts[p] = 0
  /\ Spend("failures")
  /\ query' = NoQuery
  /\ UNCHANGED <<saved, dirs, opened, parts, lock, calls, plan, log, twice>>

RangeBegin(p) ==
  LET k == Found(query.loaded, p)
  IN /\ QueryAt(p)
     /\ query.loaded # None => query.loaded[1] = p
     /\ k # 0
     /\ parts' = [parts EXCEPT ![p] = k]
     /\ query' = [query EXCEPT !.loaded = None, !.ranging = <<p, k>>,
                               !.must = opened[p][k].files, !.may = opened[p][k].files]
     /\ UNCHANGED <<saved, dirs, opened, lock, calls, plan, log, twice, left>>

RangeEnd ==
  /\ query.ranging # None
  /\ \E seen \in SUBSET query.may :
       /\ query.must \subseteq seen
       /\ query' = [query EXCEPT !.ranging = None, !.must = {}, !.may = {},
                      !.todo[query.ranging[1]] = @ - 1,
                      !.got = [e \in Entries |->
                                 @[e] + IF e \in seen /\ Matches(e, query) THEN 1 ELSE 0]]
  /\ UNCHANGED <<saved, dirs, opened, parts, lock, calls, plan, log, twice, left>>

Returned == query.layer = Len(Layers) /\ query.todo = Zero

-----------------------------------------------------------------------------
(* Movers.                                                                 *)

Idle == [file |-> None, to |-> None, call |-> 0, step |-> "idle"]

\* GetMovePlan offers an entry whose time to live is over; the mover copies the
\* file and calls Batch.
GetMovePlan(m) ==
  /\ left' = [left EXCEPT !.calls = @ - 1]
  /\ plan[m].step = "idle"
  /\ \E e \in Entries :
       /\ parts[Place(e)] # 0
       /\ lock[Backend(Place(e))] = 0
       /\ e \in opened[Place(e)][parts[Place(e)]].files
       /\ \E to \in LayersTo(e[1]) :
            /\ NewCall(m, {<<to, e[2]>>}, {}, {Place(<<to, e[2]>>)})
            /\ plan' = [plan EXCEPT ![m] = [file |-> e, to |-> to, call |-> Len(calls) + 1,
                                            step |-> "copy"]]
            /\ Written({<<to, e[2]>>})
  /\ UNCHANGED <<saved, opened, parts, lock, query, log, twice>>

RemoveOriginal(m) ==
  /\ left' = [left EXCEPT !.calls = @ - 1]
  /\ plan[m].step = "copy"
  /\ calls[plan[m].call].res = "ok"
  /\ NewCall(m, {}, {plan[m].file}, {Place(plan[m].file)})
  /\ plan' = [plan EXCEPT ![m].call = Len(calls) + 1, ![m].step = "remove"]
  /\ UNCHANGED <<saved, dirs, opened, parts, lock, query, log, twice>>

\* EndMove finds no mark and changes nothing.
EndMove(m) ==
  /\ \/ plan[m].step = "copy" /\ calls[plan[m].call].res = "err"
     \/ plan[m].step = "remove" /\ calls[plan[m].call].res # "pending"
  /\ plan' = [plan EXCEPT ![m] = Idle]
  /\ UNCHANGED <<saved, dirs, opened, parts, lock, calls, query, log, twice, left>>

-----------------------------------------------------------------------------

\* Stop cancels the partitions in the map; a goroutine that is told to stop and
\* to flush at once does the one or the other.
Stop ==
  /\ Spend("stops")
  /\ opened' = [p \in Places |->
                  [k \in DOMAIN opened[p] |->
                     IF k = parts[p] THEN [opened[p][k] EXCEPT !.loop = "stopping"]
                     ELSE opened[p][k]]]
  /\ UNCHANGED <<saved, dirs, parts, lock, calls, query, plan, log, twice>>

LoopExit(p, k) ==
  /\ opened[p][k].loop = "stopping"
  /\ opened' = [opened EXCEPT ![p][k].loop = "over"]
  /\ UNCHANGED <<saved, dirs, parts, lock, calls, query, plan, log, twice, left>>

\* The process dies and a new one opens the table: NewIndex opens every
\* partition that has a metadata.json.
Crash ==
  /\ Spend("crashes")
  /\ opened' = [p \in Places |-> IF saved[p] = None THEN <<>> ELSE <<Fresh(p)>>]
  /\ parts' = [p \in Places |-> IF saved[p] = None THEN 0 ELSE 1]
  /\ lock' = [b \in DOMAIN lock |-> 0]
  /\ calls' = [i \in DOMAIN calls |->
                 IF calls[i].res # "pending" THEN calls[i]
                 ELSE [calls[i] EXCEPT !.res = "lost", !.todo = {}, !.loaded = None,
                                       !.waits = {}, !.failed = FALSE]]
  /\ query' = NoQuery
  /\ plan' = [m \in Movers |-> Idle]
  /\ UNCHANGED <<saved, dirs, log, twice>>

Init ==
  /\ saved = [p \in Places |-> None]
  /\ dirs = {}
  /\ opened = [p \in Places |-> <<>>]
  /\ parts = [p \in Places |-> 0]
  /\ lock = [fs |-> 0, s3 |-> 0]
  /\ calls = <<>>
  /\ query = NoQuery
  /\ plan = [m \in Movers |-> Idle]
  /\ log = [p \in Places |-> <<>>]
  /\ twice = {}
  /\ left \in Scenarios

CallStep(i) ==
  \/ \E p \in Places : Load(i, p) \/ LoadFails(i, p) \/ Apply(i, p)
  \/ Answer(i)

Next ==
  \/ \E r \in left.requests : Batch(r)
  \/ \E e \in left.reads : Get(e)
  \/ \E i \in DOMAIN calls : CallStep(i)
  \/ \E p \in Places : \E k \in DOMAIN opened[p] : Flush(p, k) \/ FlushFails(p, k)
                                                    \/ LoopExit(p, k)
  \/ \E o \in Options : Query(o)
  \/ ListHours
  \/ \E p \in Places : QueryLoad(p) \/ QueryFails(p) \/ RangeBegin(p)
  \/ RangeEnd
  \/ \E m \in left.movers : GetMovePlan(m) \/ RemoveOriginal(m) \/ EndMove(m)
  \/ Stop
  \/ Crash

Spec == Init /\ [][Next]_vars

-----------------------------------------------------------------------------
(* Properties.                                                             *)

CallRecord == [by : Movers \cup {"writer", "reader"}, add : SUBSET Entries,
               rm : SUBSET Entries, todo : SUBSET Places,
               loaded : {None} \cup (Places \X Nat), waits : SUBSET Places,
               failed : BOOLEAN, res : {"pending", "ok", "err", "lost"}]
PartRecord == [files : SUBSET Entries, add : SUBSET Entries, rm : SUBSET Entries,
               waiting : SUBSET DOMAIN calls, alone : BOOLEAN,
               loop : {"runs", "stopping", "over"}]

\* The shape of the state.  A partition holds entries of its place only, the
\* map points to one that was opened, and the call a partition will answer is
\* one that waits for it or has stopped to.
TypeOK ==
  /\ calls \in Seq(CallRecord)
  /\ \A p \in Places :
       /\ saved[p] = None \/ \A e \in saved[p] : Place(e) = p
       /\ opened[p] \in Seq(PartRecord)
       /\ \A k \in DOMAIN opened[p] : \A e \in opened[p][k].files : Place(e) = p
       /\ parts[p] \in 0 .. Len(opened[p])
       /\ log[p] \in Seq(DOMAIN calls)
  /\ dirs \subseteq Places /\ twice \subseteq Places
  /\ lock \in [{"fs", "s3"} -> 0 .. Len(calls)]
  /\ query.got \in [Entries -> Nat]
  /\ \A m \in Movers : plan[m] = Idle \/ plan[m].call \in DOMAIN calls

SavedAt(p) == IF saved[p] = None THEN {} ELSE saved[p]
Later(p, n) == {calls[log[p][m]] : m \in {m \in DOMAIN log[p] : m > n}}
Reflected(p, n) ==
  LET c == calls[log[p][n]]
  IN /\ \A e \in Of(c.add \ c.rm, p) : e \in SavedAt(p) \/ \E d \in Later(p, n) : e \in d.rm
     /\ \A e \in Of(c.rm, p) : e \notin SavedAt(p) \/ \E d \in Later(p, n) : e \in d.add
SavedIn(S) == \A p \in S, n \in 1 .. Len(calls) :
                n \in DOMAIN log[p] /\ Acked(log[p][n]) => Reflected(p, n)

\* A Batch that is answered without an error is saved in every partition it
\* touched, of both backends, unless a partition was opened twice.
AckedEverywhere == SavedIn(Places \ twice)

RemovedByWriter(d) ==
  \E i \in DOMAIN calls : calls[i].by = "writer" /\ \E e \in calls[i].rm : e[2] = d
PlacesOf(d) == {Place(e) : e \in {e \in Entries : e[2] = d}}

\* A file whose addition was acknowledged is listed in a metadata.json at every
\* moment, while movers take it from layer to layer and the process crashes
\* between their two calls.
RowsKept ==
  \A d \in Known :
    ~RemovedByWriter(d) /\ PlacesOf(d) \cap twice = {} =>
      \E l \in LayerNames : <<l, d>> \in SavedAt(Place(<<l, d>>))

\* findHours rounds After, to the next hour in its second half, and takes the
\* hours that begin then or later, and before Before; files that begin in an
\* earlier hour are left out.
Covered(d) ==
  /\ Matches(<<None, d>>, query)
  /\ query.before # 0 => 2 * (At[d] \div 2) < query.before
  /\ query.after # 0 => query.after % 2 = 0 /\ At[d] >= query.after

RowsSeen ==
  \A d \in query.known :
    Covered(d) /\ ~RemovedByWriter(d) /\ PlacesOf(d) \cap twice = {} =>
      \E l \in LayerNames : query.got[<<l, d>>] > 0
NoneDoubled ==
  \A e \in Entries :
    query.got[e] > 1 => ~isS3Layer(e[1]) /\ query.before # 0 /\ query.after # 0
\* A query returns every file that was acknowledged when it began and is in its
\* range, even one that is moved from a layer to another while it runs; and no
\* entry twice, unless it is one of the JSON index and the query has both limits.
QueryExact == Returned => RowsSeen /\ NoneDoubled

\* No call waits in vain: every promise it has is held by a partition, in the map
\* or no longer in it, whose goroutine will resolve it unless Stop ended it, and
\* whoever holds a lock still has work to do under it.
NobodyForgotten ==
  /\ \A i \in DOMAIN calls : \A p \in calls[i].waits :
       \E k \in DOMAIN opened[p] : i \in opened[p][k].waiting
  /\ \A b \in DOMAIN lock :
       lock[b] # 0 => \E p \in calls[lock[b]].todo : Backend(p) = b

-----------------------------------------------------------------------------
(* What the documentation says and the code does not do.                   *)

\* "Both JSON and Redis implementations are thread-safe": whatever calls run
\* side by side, queries included, what a Batch acknowledged is saved.
AckedAnyway == SavedIn(Places)
=============================================================================
