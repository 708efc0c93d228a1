--------------------------- MODULE TableIndexProofs ---------------------------
(* What a table over file systems and S3 keeps: that every acknowledged     *)
(* Batch is saved in all partitions it touched, that movers lose no file,   *)
(* that a query misses none and doubles none, and that no call is           *)
(* forgotten; for any layers, files, movers and scenarios.                  *)
EXTENDS TableIndex, DataLemmas

-----------------------------------------------------------------------------
(* Entries and places.                                                     *)

\* The place of an entry has its layer.
LEMMA PlaceOfEntry ==
  ASSUME NEW e \in Entries
  PROVE  /\ Place(e) \in Places /\ Place(e)[1] = e[1]
         /\ e = <<e[1], e[2]>> /\ e[2] \in Data
<1>1. e \in (LayerNames \X Data) \/ e \in Requested
  BY DEF Entries
<1>2. e = <<e[1], e[2]>> /\ e[2] \in Data
  BY <1>1, ScenarioAssumption
<1>3. Place(e) \in Places
  BY DEF Places
<1> QED  BY <1>2, <1>3 DEF Place

\* A place is a layer and an hour.
LEMMA PlaceIsPair ==
  ASSUME NEW p \in Places
  PROVE  p = <<p[1], p[2]>> /\ p # None /\ p[2] \in Nat
<1>1. PICK e \in Entries : p = Place(e)
  BY DEF Places
<1>2. p = <<e[1], At[e[2]] \div 2>>
  BY <1>1 DEF Place
<1>3. At[e[2]] \in Nat
  BY PlaceOfEntry, TableAssumption
<1>4. At[e[2]] \div 2 \in Nat
  BY <1>3
<1>5. p # None
  BY TableAssumption
<1> QED  BY <1>2, <1>4, <1>5

\* Every file has an entry in every layer.
LEMMA EntryInLayer ==
  ASSUME NEW l \in LayerNames, NEW d \in Data
  PROVE  <<l, d>> \in Entries
BY DEF Entries

\* A partition belongs to the backend of its layer.
LEMMA BackendOfLayer ==
  /\ \A p \in Places : Backend(p) \in {"fs", "s3"}
  /\ \A p, q \in Places : p[1] = q[1] => Backend(p) = Backend(q)
BY DEF Backend

-----------------------------------------------------------------------------
(* The shape of the state.                                                 *)

PartShape == [files : SUBSET Entries, add : SUBSET Entries, rm : SUBSET Entries,
              waiting : SUBSET Nat, alone : BOOLEAN, loop : {"runs", "stopping", "over"}]
PlanRecord == [file : Entries \cup {None}, to : LayerNames \cup {None}, call : Nat,
               step : {"idle", "copy", "remove"}]
Opened == {None} \cup (Places \X Nat)
QueryRecord == [after : Nat, before : Nat, layer : Nat, todo : [Places -> Nat],
                loaded : Opened, ranging : Opened, must : SUBSET Entries,
                may : SUBSET Entries, got : [Entries -> Nat], known : SUBSET Data]
Scenario == [requests : SUBSET ((SUBSET Entries) \X (SUBSET Entries)), reads : SUBSET Entries,
             movers : SUBSET Movers, calls : Nat, queries : Nat, failures : Nat,
             crashes : Nat, stops : Nat]

Shape ==
  /\ calls \in Seq(CallRecord)
  /\ saved \in [Places -> {None} \cup SUBSET Entries]
  /\ opened \in [Places -> Seq(PartShape)]
  /\ parts \in [Places -> Nat]
  /\ log \in [Places -> Seq(Nat)]
  /\ lock \in [{"fs", "s3"} -> Nat]
  /\ dirs \subseteq Places /\ twice \subseteq Places
  /\ query \in QueryRecord
  /\ plan \in [Movers -> PlanRecord]
  /\ left \in Scenario

\* What points to a partition or to a call points to one there is.
Held(x) == x # None => x[2] \in DOMAIN opened[x[1]]
Pointers ==
  /\ \A p \in Places : parts[p] # 0 => parts[p] \in DOMAIN opened[p]
  /\ \A p \in Places : \A n \in DOMAIN log[p] : log[p][n] \in DOMAIN calls
  /\ \A b \in {"fs", "s3"} : lock[b] # 0 => lock[b] \in DOMAIN calls
  /\ \A p \in Places : \A k \in DOMAIN opened[p] : opened[p][k].waiting \subseteq DOMAIN calls
  /\ \A i \in DOMAIN calls : Held(calls[i].loaded)
  /\ Held(query.loaded) /\ Held(query.ranging)

\* The partitions hold entries of their place.
InPlace ==
  \A p \in Places :
    /\ \A e \in SavedAt(p) : Place(e) = p
    /\ \A k \in DOMAIN opened[p] : \A e \in opened[p][k].files \cup opened[p][k].add : Place(e) = p

\* A Range runs in a place that is still to be done, over entries of that place.
Ranged ==
  query.ranging # None =>
    /\ query.todo[query.ranging[1]] > 0
    /\ \A e \in query.may : Place(e) = query.ranging[1]

\* The records of calls that a step does not complete.
SameRequest(c, d) == c.by = d.by /\ c.add = d.add /\ c.rm = d.rm

\* A call becomes another one.
LEMMA CallChanged ==
  ASSUME calls \in Seq(CallRecord), NEW i \in DOMAIN calls, NEW c \in CallRecord,
         calls' = [calls EXCEPT ![i] = c]
  PROVE  /\ calls' \in Seq(CallRecord) /\ DOMAIN calls' = DOMAIN calls
         /\ Len(calls') = Len(calls)
         /\ calls'[i] = c /\ \A j \in DOMAIN calls : j # i => calls'[j] = calls[j]
<1>1. DOMAIN calls' = DOMAIN calls /\ calls' = [n \in DOMAIN calls |-> calls'[n]]
  OBVIOUS
<1>2. calls'[i] = c /\ \A j \in DOMAIN calls : j # i => calls'[j] = calls[j]
  OBVIOUS
<1>3. \A j \in DOMAIN calls : calls[j] \in CallRecord
  OBVIOUS
<1>4. \A j \in DOMAIN calls : calls'[j] \in CallRecord
  BY <1>2, <1>3
<1>5. calls' \in Seq(CallRecord) /\ Len(calls') = Len(calls)
  BY <1>1, <1>4, Updated
<1> QED  BY <1>1, <1>2, <1>5

\* The numbers of the calls and of the partitions.
LEMMA Numbers ==
  ASSUME Shape
  PROVE  /\ Len(calls) \in Nat /\ DOMAIN calls = 1 .. Len(calls)
         /\ \A i \in DOMAIN calls : i \in Nat \ {0} /\ calls[i] \in CallRecord
         /\ \A p \in Places : /\ Len(opened[p]) \in Nat /\ DOMAIN opened[p] = 1 .. Len(opened[p])
                              /\ opened[p] \in Seq(PartShape)
         /\ \A p \in Places : \A k \in DOMAIN opened[p] :
              k \in Nat \ {0} /\ opened[p][k] \in PartShape
<1>1. calls \in Seq(CallRecord) /\ opened \in [Places -> Seq(PartShape)]
  BY DEF Shape
<1>2. \A p \in Places : opened[p] \in Seq(PartShape)
  BY <1>1
<1>3. /\ Len(calls) \in Nat /\ DOMAIN calls = 1 .. Len(calls)
      /\ \A i \in DOMAIN calls : i \in Nat \ {0} /\ calls[i] \in CallRecord
  BY <1>1
<1>4. ASSUME NEW p \in Places
      PROVE  /\ Len(opened[p]) \in Nat /\ DOMAIN opened[p] = 1 .. Len(opened[p])
             /\ \A k \in DOMAIN opened[p] : k \in Nat \ {0} /\ opened[p][k] \in PartShape
  BY <1>2
<1> QED  BY <1>2, <1>3, <1>4

\* A partition of a place is opened.
LEMMA OpenFacts ==
  ASSUME Shape, NEW p \in Places, Open(p)
  PROVE  /\ opened' \in [Places -> Seq(PartShape)]
         /\ \A q \in Places : q # p => opened'[q] = opened[q]
         /\ DOMAIN opened'[p] = DOMAIN opened[p] \cup {Len(opened[p]) + 1}
         /\ Len(opened[p]) + 1 \notin DOMAIN opened[p]
         /\ \A k \in DOMAIN opened[p] : opened'[p][k] = opened[p][k]
         /\ opened'[p][Len(opened[p]) + 1] = Fresh(p)
         /\ Fresh(p).files = SavedAt(p) /\ Fresh(p).add = {} /\ Fresh(p).waiting = {}
         /\ Fresh(p).alone /\ Fresh(p) \in PartShape
         /\ dirs \subseteq dirs' /\ dirs' \subseteq Places /\ (isS3Layer(p[1]) \/ p \in dirs')
         /\ twice \subseteq twice' /\ twice' \subseteq twice \cup {p}
         /\ opened[p] # <<>> => p \in twice'
<1>1. opened \in [Places -> Seq(PartShape)] /\ saved \in [Places -> {None} \cup SUBSET Entries]
      /\ dirs \subseteq Places
  BY DEF Shape
<1>2. Fresh(p) \in PartShape /\ Fresh(p).files = SavedAt(p)
  BY <1>1 DEF Fresh, PartShape, SavedAt
<1>3. Fresh(p).add = {} /\ Fresh(p).waiting = {} /\ Fresh(p).alone
  BY DEF Fresh
<1>4. opened' = [opened EXCEPT ![p] = Append(opened[p], Fresh(p))]
  BY DEF Open
<1>5. opened'[p] = Append(opened[p], Fresh(p)) /\ \A q \in Places : q # p => opened'[q] = opened[q]
  BY <1>1, <1>4
<1>6. opened[p] \in Seq(PartShape)
  BY <1>1
<1>7. /\ opened'[p] \in Seq(PartShape)
      /\ DOMAIN opened'[p] = DOMAIN opened[p] \cup {Len(opened[p]) + 1}
      /\ Len(opened[p]) + 1 \notin DOMAIN opened[p]
      /\ \A k \in DOMAIN opened[p] : opened'[p][k] = opened[p][k]
      /\ opened'[p][Len(opened[p]) + 1] = Fresh(p)
  BY <1>2, <1>5, <1>6, Appended
<1>8. opened' \in [Places -> Seq(PartShape)]
  BY <1>1, <1>4, <1>5, <1>7
<1>9. /\ dirs \subseteq dirs' /\ dirs' \subseteq Places /\ (isS3Layer(p[1]) \/ p \in dirs')
      /\ twice \subseteq twice' /\ twice' \subseteq twice \cup {p}
      /\ opened[p] # <<>> => p \in twice'
  BY <1>1 DEF Open
<1> QED  BY <1>2, <1>3, <1>5, <1>7, <1>8, <1>9

\* The partitions of a place become others, as many as before.
LEMMA PlaceChanged ==
  ASSUME Shape, NEW p \in Places, NEW f, DOMAIN f = DOMAIN opened[p],
         f = [k \in DOMAIN opened[p] |-> f[k]], \A k \in DOMAIN opened[p] : f[k] \in PartShape,
         opened' = [opened EXCEPT ![p] = f]
  PROVE  /\ opened' \in [Places -> Seq(PartShape)]
         /\ \A q \in Places : q # p => opened'[q] = opened[q]
         /\ opened'[p] = f
<1>1. opened \in [Places -> Seq(PartShape)] /\ opened[p] \in Seq(PartShape)
  BY DEF Shape
<1>2. f \in Seq(PartShape)
  BY <1>1, Updated
<1> QED  BY <1>1, <1>2

\* One partition becomes another one.
LEMMA PartChanged ==
  ASSUME Shape, NEW p \in Places, NEW k \in DOMAIN opened[p], NEW c \in PartShape,
         opened' = [opened EXCEPT ![p] = [opened[p] EXCEPT ![k] = c]]
  PROVE  /\ opened' \in [Places -> Seq(PartShape)]
         /\ \A q \in Places : q # p => opened'[q] = opened[q]
         /\ DOMAIN opened'[p] = DOMAIN opened[p]
         /\ \A j \in DOMAIN opened[p] : j # k => opened'[p][j] = opened[p][j]
         /\ opened'[p][k] = c
<1> DEFINE f == [opened[p] EXCEPT ![k] = c]
<1>1. /\ DOMAIN f = DOMAIN opened[p] /\ f = [j \in DOMAIN opened[p] |-> f[j]]
      /\ f[k] = c /\ \A j \in DOMAIN opened[p] : j # k => f[j] = opened[p][j]
  OBVIOUS
<1>2. \A j \in DOMAIN opened[p] : opened[p][j] \in PartShape
  BY Numbers
<1>3. \A j \in DOMAIN opened[p] : f[j] \in PartShape
  BY <1>1, <1>2
<1>4. opened' = [opened EXCEPT ![p] = f]
  OBVIOUS
<1> HIDE DEF f
<1>5. /\ opened' \in [Places -> Seq(PartShape)]
      /\ \A q \in Places : q # p => opened'[q] = opened[q]
      /\ opened'[p] = f
  BY <1>1, <1>3, <1>4, PlaceChanged
<1> QED  BY <1>1, <1>5

-----------------------------------------------------------------------------
(* What the steps do to the calls and the partitions.                      *)

\* The partitions stay, but for the state of their goroutines.
SameParts ==
  /\ opened' \in [Places -> Seq(PartShape)]
  /\ \A p \in Places :
       /\ DOMAIN opened'[p] = DOMAIN opened[p] /\ (opened[p] = <<>> <=> opened'[p] = <<>>)
       /\ \A k \in DOMAIN opened[p] :
            /\ opened'[p][k].files = opened[p][k].files /\ opened'[p][k].add = opened[p][k].add
            /\ opened'[p][k].rm = opened[p][k].rm
            /\ opened'[p][k].waiting = opened[p][k].waiting
            /\ opened'[p][k].alone = opened[p][k].alone

\* A step that changes neither partitions nor calls.
Quiet == SameParts /\ UNCHANGED <<saved, dirs, lock, calls, log, twice>>

\* Stop and the exit of a loop change the states of goroutines only.
LEMMA LoopSteps ==
  ASSUME Shape,
         \/ Stop
         \/ \E p \in Places : \E k \in DOMAIN opened[p] : LoopExit(p, k)
  PROVE  Quiet
<1>1. \A p \in Places : /\ opened[p] \in Seq(PartShape) /\ Len(opened[p]) \in Nat
                        /\ DOMAIN opened[p] = 1 .. Len(opened[p])
                        /\ \A k \in DOMAIN opened[p] : opened[p][k] \in PartShape
  BY Numbers
<1>2. CASE Stop
  <2> DEFINE f(p) == [k \in DOMAIN opened[p] |->
                        IF k = parts[p] THEN [opened[p][k] EXCEPT !.loop = "stopping"]
                        ELSE opened[p][k]]
  <2>1. opened' = [p \in Places |-> f(p)]
    BY <1>2 DEF Stop
  <2>2. ASSUME NEW p \in Places
        PROVE  /\ opened'[p] = f(p) /\ f(p) \in Seq(PartShape)
               /\ DOMAIN opened'[p] = DOMAIN opened[p]
               /\ opened[p] = <<>> <=> opened'[p] = <<>>
    <3>1. ASSUME NEW k \in DOMAIN opened[p]
          PROVE  f(p)[k] \in PartShape
      <4>1. opened[p][k] \in PartShape
        BY <1>1
      <4>2. [opened[p][k] EXCEPT !.loop = "stopping"] \in PartShape
        BY <4>1 DEF PartShape
      <4> QED  BY <4>1, <4>2
    <3>2. DOMAIN f(p) = DOMAIN opened[p] /\ f(p) = [k \in DOMAIN opened[p] |-> f(p)[k]]
      OBVIOUS
    <3>3. f(p) \in Seq(PartShape) /\ Len(f(p)) = Len(opened[p])
      BY <1>1, <3>1, <3>2, Updated
    <3> HIDE DEF f
    <3>4. opened'[p] = f(p)
      BY <2>1
    <3>5. opened[p] = <<>> <=> f(p) = <<>>
      BY <1>1, <3>3
    <3> QED  BY <3>2, <3>3, <3>4, <3>5
  <2>3. ASSUME NEW p \in Places, NEW k \in DOMAIN opened[p]
        PROVE  /\ opened'[p][k].files = opened[p][k].files /\ opened'[p][k].add = opened[p][k].add
               /\ opened'[p][k].rm = opened[p][k].rm
               /\ opened'[p][k].waiting = opened[p][k].waiting
               /\ opened'[p][k].alone = opened[p][k].alone
    <3>1. opened'[p][k] = opened[p][k] \/ opened'[p][k] = [opened[p][k] EXCEPT !.loop = "stopping"]
      BY <2>2
    <3> QED  BY <1>1, <3>1 DEF PartShape
  <2>4. opened' \in [Places -> Seq(PartShape)]
    <3> HIDE DEF f
    <3> QED  BY <2>1, <2>2
  <2> QED  BY <1>2, <2>2, <2>3, <2>4 DEF Quiet, SameParts, Stop
<1>3. ASSUME NEW p \in Places, NEW k \in DOMAIN opened[p], LoopExit(p, k)
      PROVE  Quiet
  <2> DEFINE c == [opened[p][k] EXCEPT !.loop = "over"]
  <2>1. c \in PartShape
    BY <1>1 DEF PartShape
  <2>2. opened' = [opened EXCEPT ![p] = [opened[p] EXCEPT ![k] = c]]
    BY <1>3 DEF LoopExit
  <2>3. /\ c.files = opened[p][k].files /\ c.add = opened[p][k].add /\ c.rm = opened[p][k].rm
        /\ c.waiting = opened[p][k].waiting /\ c.alone = opened[p][k].alone
    BY <1>1 DEF PartShape
  <2> HIDE DEF c
  <2>4. /\ opened' \in [Places -> Seq(PartShape)]
        /\ \A q \in Places : q # p => opened'[q] = opened[q]
        /\ DOMAIN opened'[p] = DOMAIN opened[p]
        /\ \A j \in DOMAIN opened[p] : j # k => opened'[p][j] = opened[p][j]
        /\ opened'[p][k] = c
    BY <2>1, <2>2, PartChanged
  <2>5. opened[p] # <<>> /\ opened'[p] # <<>>
    BY <2>4
  <2> QED  BY <1>3, <2>3, <2>4, <2>5 DEF Quiet, SameParts, LoopExit
<1> QED  BY <1>2, <1>3

\* A record of a call whose request stays.
Changed(i, c) ==
  /\ calls' \in Seq(CallRecord) /\ DOMAIN calls' = DOMAIN calls
  /\ \A j \in DOMAIN calls : j # i => calls'[j] = calls[j]
  /\ calls'[i] = c /\ c.by = calls[i].by /\ c.add = calls[i].add /\ c.rm = calls[i].rm

\* Load.
LEMMA LoadCall ==
  ASSUME Shape, NEW i \in DOMAIN calls, NEW p \in Places, Load(i, p)
  PROVE  /\ Changed(i, [calls[i] EXCEPT !.loaded = <<p, Len(opened[p]) + 1>>])
         /\ calls'[i].loaded = <<p, Len(opened[p]) + 1>>
         /\ calls'[i].todo = calls[i].todo /\ calls'[i].waits = calls[i].waits
         /\ calls'[i].failed = calls[i].failed /\ calls'[i].res = calls[i].res
<1> DEFINE c == [calls[i] EXCEPT !.loaded = <<p, Len(opened[p]) + 1>>]
<1>1. calls \in Seq(CallRecord) /\ calls[i] \in CallRecord /\ Len(opened[p]) + 1 \in Nat
  BY Numbers DEF Shape
<1>2. c \in CallRecord /\ c.by = calls[i].by /\ c.add = calls[i].add /\ c.rm = calls[i].rm
      /\ c.loaded = <<p, Len(opened[p]) + 1>> /\ c.todo = calls[i].todo
      /\ c.waits = calls[i].waits /\ c.failed = calls[i].failed /\ c.res = calls[i].res
  BY <1>1 DEF CallRecord
<1>3. calls' = [calls EXCEPT ![i] = c]
  BY DEF Load
<1> HIDE DEF c
<1>4. Changed(i, c) /\ calls'[i] = c
  BY <1>1, <1>2, <1>3, CallChanged DEF Changed
<1> QED  BY <1>2, <1>4 DEF c

\* LoadFails.
LEMMA LoadFailsCall ==
  ASSUME Shape, NEW i \in DOMAIN calls, NEW p \in Places, LoadFails(i, p)
  PROVE  /\ Changed(i, calls'[i])
         /\ calls'[i].loaded = calls[i].loaded /\ calls'[i].res = calls[i].res
         /\ calls'[i].todo = Without(calls[i].todo, p[1])
         /\ calls'[i].waits = Without(calls[i].waits, p[1])
         /\ calls'[i].failed
<1> DEFINE c == [calls[i] EXCEPT !.todo = Without(@, p[1]), !.waits = Without(@, p[1]),
                                 !.failed = TRUE]
<1>1. calls \in Seq(CallRecord) /\ calls[i] \in CallRecord
  BY Numbers DEF Shape
<1>2. \A S \in SUBSET Places : Without(S, p[1]) \in SUBSET Places
  BY DEF Without
<1>3. c \in CallRecord /\ c.by = calls[i].by /\ c.add = calls[i].add /\ c.rm = calls[i].rm
      /\ c.loaded = calls[i].loaded /\ c.res = calls[i].res /\ c.failed
      /\ c.todo = Without(calls[i].todo, p[1]) /\ c.waits = Without(calls[i].waits, p[1])
  BY <1>1, <1>2 DEF CallRecord
<1>4. calls' = [calls EXCEPT ![i] = c]
  BY DEF LoadFails
<1> HIDE DEF c
<1>5. Changed(i, c) /\ calls'[i] = c
  BY <1>1, <1>3, <1>4, CallChanged DEF Changed
<1> QED  BY <1>3, <1>5

\* Apply changes the partition, or there is nothing to do.
LEMMA ApplyCall ==
  ASSUME Shape, NEW i \in DOMAIN calls, NEW p \in Places, Apply(i, p)
  PROVE  /\ Changed(i, calls'[i])
         /\ calls'[i].loaded = None /\ calls'[i].res = calls[i].res
         /\ calls'[i].failed = calls[i].failed
         /\ calls'[i].todo = calls[i].todo \ {p}
         /\ \/ /\ UNCHANGED <<opened, log, query>>
               /\ calls'[i].waits = calls[i].waits
               /\ Of(calls[i].add, p) = {}
            \/ calls'[i].waits = calls[i].waits \cup {p}
<1> DEFINE c == [calls[i] EXCEPT !.todo = @ \ {p}, !.loaded = None]
           d == [calls[i] EXCEPT !.todo = @ \ {p}, !.loaded = None, !.waits = @ \cup {p}]
<1>1. calls \in Seq(CallRecord) /\ calls[i] \in CallRecord
  BY Numbers DEF Shape
<1>2. c \in CallRecord /\ c.by = calls[i].by /\ c.add = calls[i].add /\ c.rm = calls[i].rm
      /\ c.loaded = None /\ c.res = calls[i].res /\ c.failed = calls[i].failed
      /\ c.todo = calls[i].todo \ {p} /\ c.waits = calls[i].waits
  BY <1>1 DEF CallRecord
<1>3. d \in CallRecord /\ d.by = calls[i].by /\ d.add = calls[i].add /\ d.rm = calls[i].rm
      /\ d.loaded = None /\ d.res = calls[i].res /\ d.failed = calls[i].failed
      /\ d.todo = calls[i].todo \ {p} /\ d.waits = calls[i].waits \cup {p}
  BY <1>1 DEF CallRecord
<1>4. \/ /\ calls' = [calls EXCEPT ![i] = c] /\ UNCHANGED <<opened, log, query>>
         /\ Of(calls[i].add, p) = {}
      \/ calls' = [calls EXCEPT ![i] = d]
  BY DEF Apply
<1> HIDE DEF c, d
<1>5. CASE calls' = [calls EXCEPT ![i] = c] /\ UNCHANGED <<opened, log, query>>
           /\ Of(calls[i].add, p) = {}
  <2>1. Changed(i, c) /\ calls'[i] = c
    BY <1>1, <1>2, <1>5, CallChanged DEF Changed
  <2> QED  BY <1>2, <1>5, <2>1
<1>6. CASE calls' = [calls EXCEPT ![i] = d]
  <2>1. Changed(i, d) /\ calls'[i] = d
    BY <1>1, <1>3, <1>6, CallChanged DEF Changed
  <2> QED  BY <1>3, <2>1
<1> QED  BY <1>4, <1>5, <1>6

\* Answer.
LEMMA AnswerCall ==
  ASSUME Shape, NEW i \in DOMAIN calls, Answer(i)
  PROVE  /\ Changed(i, calls'[i])
         /\ calls'[i].loaded = calls[i].loaded /\ calls'[i].todo = calls[i].todo
         /\ calls[i].res = "pending" /\ calls[i].todo = {} /\ calls'[i].waits = {}
         /\ calls'[i].res = "ok" => ~calls[i].failed /\ calls[i].waits = {}
         /\ calls'[i].res \in {"ok", "err"}
<1> DEFINE r == IF calls[i].failed THEN "err" ELSE "ok"
           c == [calls[i] EXCEPT !.res = r, !.waits = {}, !.failed = FALSE]
<1>1. calls \in Seq(CallRecord) /\ calls[i] \in CallRecord
  BY Numbers DEF Shape
<1>2. calls[i].res = "pending" /\ calls[i].todo = {} /\ (calls[i].failed \/ calls[i].waits = {})
  BY DEF Answer, Settled
<1>3. r \in {"ok", "err"} /\ (r = "ok" => ~calls[i].failed)
  OBVIOUS
<1> HIDE DEF r
<1>4. c \in CallRecord /\ c.by = calls[i].by /\ c.add = calls[i].add /\ c.rm = calls[i].rm
      /\ c.loaded = calls[i].loaded /\ c.todo = calls[i].todo /\ c.waits = {} /\ c.res = r
  BY <1>1, <1>3 DEF CallRecord
<1>5. calls' = [calls EXCEPT ![i] = c]
  BY DEF Answer, r
<1> HIDE DEF c
<1>6. Changed(i, c) /\ calls'[i] = c
  BY <1>1, <1>4, <1>5, CallChanged DEF Changed
<1> QED  BY <1>2, <1>3, <1>4, <1>6

\* A partition resolves the promises it holds.
LEMMA ResolveCalls ==
  ASSUME Shape, NEW p \in Places, NEW k \in DOMAIN opened[p], NEW bad \in BOOLEAN,
         Resolve(p, k, bad)
  PROVE  /\ calls' \in Seq(CallRecord) /\ DOMAIN calls' = DOMAIN calls
         /\ \A i \in DOMAIN calls :
              /\ SameRequest(calls'[i], calls[i])
              /\ calls'[i].loaded = calls[i].loaded /\ calls'[i].res = calls[i].res
              /\ calls'[i].todo = calls[i].todo
              /\ \/ calls'[i] = calls[i] /\ (i \notin opened[p][k].waiting \/ p \notin calls[i].waits)
                 \/ /\ i \in opened[p][k].waiting /\ p \in calls[i].waits
                    /\ calls'[i].waits = calls[i].waits \ {p}
                    /\ bad => calls'[i].failed
                    /\ calls[i].failed => calls'[i].failed
<1>1. calls \in Seq(CallRecord) /\ \A i \in DOMAIN calls : calls[i] \in CallRecord
  BY Numbers DEF Shape
<1>2. ASSUME NEW i \in DOMAIN calls
      PROVE  /\ calls'[i] \in CallRecord /\ SameRequest(calls'[i], calls[i])
             /\ calls'[i].loaded = calls[i].loaded /\ calls'[i].res = calls[i].res
             /\ calls'[i].todo = calls[i].todo
             /\ \/ calls'[i] = calls[i] /\ (i \notin opened[p][k].waiting \/ p \notin calls[i].waits)
                \/ /\ i \in opened[p][k].waiting /\ p \in calls[i].waits
                   /\ calls'[i].waits = calls[i].waits \ {p}
                   /\ bad => calls'[i].failed
                   /\ calls[i].failed => calls'[i].failed
  <2>1. calls[i] \in CallRecord
    BY <1>1
  <2>2. CASE i \notin opened[p][k].waiting \/ p \notin calls[i].waits
    <3>1. calls'[i] = calls[i]
      BY <2>2 DEF Resolve
    <3> QED  BY <2>1, <2>2, <3>1 DEF SameRequest
  <2>3. CASE i \in opened[p][k].waiting /\ p \in calls[i].waits
    <3> DEFINE f == calls[i].failed \/ bad
    <3>1. calls'[i] = [calls[i] EXCEPT !.waits = @ \ {p}, !.failed = f]
      BY <2>3 DEF Resolve
    <3>2. f \in BOOLEAN /\ (bad => f) /\ (calls[i].failed => f)
      BY <2>1 DEF CallRecord
    <3> HIDE DEF f
    <3>3. calls'[i] \in CallRecord /\ SameRequest(calls'[i], calls[i])
          /\ calls'[i].loaded = calls[i].loaded /\ calls'[i].res = calls[i].res
          /\ calls'[i].todo = calls[i].todo /\ calls'[i].waits = calls[i].waits \ {p}
          /\ calls'[i].failed = f
      BY <2>1, <3>1, <3>2 DEF CallRecord, SameRequest
    <3> QED  BY <2>3, <3>2, <3>3
  <2> QED  BY <2>2, <2>3
<1>3. DOMAIN calls' = DOMAIN calls /\ calls' = [i \in DOMAIN calls |-> calls'[i]]
  BY DEF Resolve
<1>4. calls' \in Seq(CallRecord)
  BY <1>1, <1>2, <1>3, Updated
<1> QED  BY <1>2, <1>3, <1>4

\* A crash takes the calls that were not answered.
LEMMA CrashCalls ==
  ASSUME Shape, Crash
  PROVE  /\ calls' \in Seq(CallRecord) /\ DOMAIN calls' = DOMAIN calls
         /\ \A i \in DOMAIN calls :
              /\ SameRequest(calls'[i], calls[i])
              /\ \/ calls'[i] = calls[i] /\ calls[i].res # "pending"
                 \/ /\ calls'[i].res = "lost" /\ calls[i].res = "pending"
                    /\ calls'[i].todo = {} /\ calls'[i].waits = {} /\ calls'[i].loaded = None
<1>1. calls \in Seq(CallRecord) /\ \A i \in DOMAIN calls : calls[i] \in CallRecord
  BY Numbers DEF Shape
<1>2. calls' = [i \in DOMAIN calls |->
                  IF calls[i].res # "pending" THEN calls[i]
                  ELSE [calls[i] EXCEPT !.res = "lost", !.todo = {}, !.loaded = None,
                                        !.waits = {}, !.failed = FALSE]]
  BY DEF Crash
<1>3. ASSUME NEW i \in DOMAIN calls
      PROVE  /\ calls'[i] \in CallRecord /\ SameRequest(calls'[i], calls[i])
             /\ \/ calls'[i] = calls[i] /\ calls[i].res # "pending"
                \/ /\ calls'[i].res = "lost" /\ calls[i].res = "pending"
                   /\ calls'[i].todo = {} /\ calls'[i].waits = {} /\ calls'[i].loaded = None
  BY <1>1, <1>2 DEF CallRecord, SameRequest
<1>4. DOMAIN calls' = DOMAIN calls /\ calls' = [i \in DOMAIN calls |-> calls'[i]]
  BY <1>2
<1>5. calls' \in Seq(CallRecord)
  BY <1>1, <1>3, <1>4, Updated
<1> QED  BY <1>3, <1>4, <1>5

\* A call changes partition k of a place, which will answer it, and is logged.
AppliedTo(i, p, k) ==
  /\ opened' \in [Places -> Seq(PartShape)]
  /\ \A q \in Places : q # p => opened'[q] = opened[q]
  /\ DOMAIN opened'[p] = DOMAIN opened[p]
  /\ \A j \in DOMAIN opened[p] : j # k => opened'[p][j] = opened[p][j]
  /\ opened'[p][k].files = (opened[p][k].files \cup Of(calls[i].add, p)) \ Of(calls[i].rm, p)
  /\ opened'[p][k].add = opened[p][k].add \cup Of(calls[i].add, p)
  /\ opened'[p][k].waiting = opened[p][k].waiting \cup {i}
  /\ opened'[p][k].alone = opened[p][k].alone
  /\ log' \in [Places -> Seq(Nat)]
  /\ \A q \in Places : q # p => log'[q] = log[q]
  /\ Len(log[p]) \in Nat /\ DOMAIN log[p] = 1 .. Len(log[p])
  /\ DOMAIN log'[p] = DOMAIN log[p] \cup {Len(log[p]) + 1}
  /\ \A n \in DOMAIN log[p] : log'[p][n] = log[p][n]
  /\ log'[p][Len(log[p]) + 1] = i
  /\ query' = Disturbed(p, k, opened'[p][k].files)

\* The partition Apply finds.
FoundFor(i, p) == Found(calls[i].loaded, p)

LEMMA ApplyPart ==
  ASSUME Shape, Pointers, NEW i \in DOMAIN calls, NEW p \in Places, Apply(i, p)
  PROVE  /\ FoundFor(i, p) \in DOMAIN opened[p]
         /\ parts' = [parts EXCEPT ![p] = FoundFor(i, p)]
         /\ \/ /\ UNCHANGED <<opened, log, query>>
               /\ calls'[i].waits = calls[i].waits
               /\ Of(calls[i].add, p) = {}
            \/ AppliedTo(i, p, FoundFor(i, p)) /\ calls'[i].waits = calls[i].waits \cup {p}
<1> DEFINE k == FoundFor(i, p)
           add == Of(calls[i].add, p)
           rm == Of(calls[i].rm, p)
           files == (opened[p][k].files \cup add) \ rm
           c == [opened[p][k] EXCEPT !.files = files, !.add = @ \cup add, !.rm = @ \cup rm,
                                     !.waiting = @ \cup {i}]
<1>1. k \in DOMAIN opened[p]
  <2>1. k # 0 /\ (calls[i].loaded # None => calls[i].loaded[1] = p)
    BY DEF Apply, FoundFor
  <2> QED  BY <2>1 DEF Pointers, Held, Found, FoundFor
<1>2. parts' = [parts EXCEPT ![p] = k]
  BY DEF Apply, FoundFor
<1>3. calls[i] \in CallRecord /\ opened[p][k] \in PartShape /\ i \in Nat
  BY <1>1, Numbers
<1>4. add \in SUBSET Entries /\ rm \in SUBSET Entries /\ files \in SUBSET Entries
  BY <1>3 DEF CallRecord, PartShape, Of
<1>5. \/ /\ UNCHANGED <<opened, log, query>> /\ add = {}
         /\ calls' = [calls EXCEPT ![i].todo = @ \ {p}, ![i].loaded = None]
      \/ /\ opened' = [opened EXCEPT ![p][k].files = files,
                                     ![p][k].add = @ \cup add, ![p][k].rm = @ \cup rm,
                                     ![p][k].waiting = @ \cup {i}]
         /\ log' = [log EXCEPT ![p] = Append(@, i)]
         /\ query' = Disturbed(p, k, files)
         /\ calls' = [calls EXCEPT ![i].todo = @ \ {p}, ![i].loaded = None,
                                   ![i].waits = @ \cup {p}]
  BY DEF Apply, FoundFor
<1> HIDE DEF k, add, rm, files
<1>6. CASE /\ UNCHANGED <<opened, log, query>> /\ add = {}
           /\ calls' = [calls EXCEPT ![i].todo = @ \ {p}, ![i].loaded = None]
  <2>1. calls'[i].waits = calls[i].waits
    <3>1. calls'[i] = [calls[i] EXCEPT !.todo = @ \ {p}, !.loaded = None]
      BY <1>6
    <3> QED  BY <1>3, <3>1 DEF CallRecord
  <2> QED  BY <1>1, <1>2, <1>6, <2>1 DEF add, k
<1>7. CASE /\ opened' = [opened EXCEPT ![p][k].files = files,
                                       ![p][k].add = @ \cup add, ![p][k].rm = @ \cup rm,
                                       ![p][k].waiting = @ \cup {i}]
           /\ log' = [log EXCEPT ![p] = Append(@, i)]
           /\ query' = Disturbed(p, k, files)
           /\ calls' = [calls EXCEPT ![i].todo = @ \ {p}, ![i].loaded = None,
                                     ![i].waits = @ \cup {p}]
  <2>1. c \in PartShape /\ c.files = files /\ c.add = opened[p][k].add \cup add
        /\ c.waiting = opened[p][k].waiting \cup {i} /\ c.alone = opened[p][k].alone
    BY <1>3, <1>4 DEF PartShape
  <2>2. opened' = [opened EXCEPT ![p] = [opened[p] EXCEPT ![k] = c]]
    BY <1>1, <1>7 DEF Shape
  <2> HIDE DEF c
  <2>3. /\ opened' \in [Places -> Seq(PartShape)]
        /\ \A q \in Places : q # p => opened'[q] = opened[q]
        /\ DOMAIN opened'[p] = DOMAIN opened[p]
        /\ \A j \in DOMAIN opened[p] : j # k => opened'[p][j] = opened[p][j]
        /\ opened'[p][k] = c
    BY <1>1, <2>1, <2>2, PartChanged
  <2>4. log \in [Places -> Seq(Nat)] /\ log[p] \in Seq(Nat)
    BY DEF Shape
  <2>5. log'[p] = Append(log[p], i) /\ \A q \in Places : q # p => log'[q] = log[q]
    BY <1>7, <2>4
  <2>6. /\ log'[p] \in Seq(Nat) /\ Len(log[p]) \in Nat /\ DOMAIN log[p] = 1 .. Len(log[p])
        /\ DOMAIN log'[p] = DOMAIN log[p] \cup {Len(log[p]) + 1}
        /\ \A n \in DOMAIN log[p] : log'[p][n] = log[p][n]
        /\ log'[p][Len(log[p]) + 1] = i
    BY <1>3, <2>4, <2>5, Appended
  <2>7. log' \in [Places -> Seq(Nat)]
    BY <1>7, <2>4, <2>5, <2>6
  <2>8. calls'[i].waits = calls[i].waits \cup {p}
    <3>1. calls'[i] = [calls[i] EXCEPT !.todo = @ \ {p}, !.loaded = None, !.waits = @ \cup {p}]
      BY <1>7
    <3> QED  BY <1>3, <3>1 DEF CallRecord
  <2>9. AppliedTo(i, p, k)
    BY <1>7, <2>1, <2>3, <2>5, <2>6, <2>7 DEF AppliedTo, files, add, rm
  <2> QED  BY <1>1, <1>2, <2>8, <2>9 DEF k
<1> QED  BY <1>5, <1>6, <1>7

\* A flush of partition k, of a place, which saves files.
Flushed(p, k, files) ==
  /\ files \in SUBSET Entries
  /\ saved' \in [Places -> {None} \cup SUBSET Entries]
  /\ saved'[p] = files /\ \A q \in Places : q # p => saved'[q] = saved[q]
  /\ opened' \in [Places -> Seq(PartShape)]
  /\ \A q \in Places : q # p => opened'[q] = opened[q]
  /\ DOMAIN opened'[p] = DOMAIN opened[p]
  /\ \A j \in DOMAIN opened[p] : j # k =>
       /\ opened'[p][j].files = opened[p][j].files /\ opened'[p][j].add = opened[p][j].add
       /\ opened'[p][j].waiting = opened[p][j].waiting
  /\ opened'[p][k].files = files /\ opened'[p][k].add = {} /\ opened'[p][k].waiting = {}
  /\ opened'[p][k].alone

LEMMA FlushPart ==
  ASSUME Shape, NEW p \in Places, NEW k \in DOMAIN opened[p], Flush(p, k)
  PROVE  /\ Resolve(p, k, FALSE)
         /\ \E files :
              /\ Flushed(p, k, files)
              /\ \/ files = opened[p][k].files
                 \/ ~opened[p][k].alone /\ files \subseteq SavedAt(p) \cup opened[p][k].add
<1> DEFINE part == opened[p][k]
           files == IF isS3Layer(p[1]) /\ ~part.alone
                    THEN ((IF saved[p] = None THEN {} ELSE saved[p]) \cup part.add) \ part.rm
                    ELSE part.files
           c(j) == IF j # k THEN [opened[p][j] EXCEPT !.alone = FALSE]
                   ELSE [part EXCEPT !.files = files, !.add = {}, !.rm = {}, !.waiting = {},
                                     !.alone = TRUE]
           f == [j \in DOMAIN opened[p] |-> c(j)]
<1>1. /\ saved' = [saved EXCEPT ![p] = files] /\ Resolve(p, k, FALSE)
      /\ opened' = [opened EXCEPT ![p] = f]
  BY DEF Flush, Shape
<1>2. part \in PartShape /\ (saved[p] = None \/ saved[p] \in SUBSET Entries)
      /\ saved \in [Places -> {None} \cup SUBSET Entries]
  BY Numbers DEF Shape
<1>3. files \in SUBSET Entries
  BY <1>2 DEF PartShape
<1>4. files = part.files \/ (~part.alone /\ files \subseteq SavedAt(p) \cup part.add)
  BY DEF SavedAt
<1> HIDE DEF files
<1>5. ASSUME NEW j \in DOMAIN opened[p]
      PROVE  /\ c(j) \in PartShape
             /\ j # k => /\ c(j).files = opened[p][j].files /\ c(j).add = opened[p][j].add
                         /\ c(j).waiting = opened[p][j].waiting
             /\ j = k => c(j).files = files /\ c(j).add = {} /\ c(j).waiting = {} /\ c(j).alone
  <2>1. opened[p][j] \in PartShape
    BY Numbers
  <2>2. CASE j # k
    BY <2>1, <2>2 DEF PartShape
  <2>3. CASE j = k
    <3>1. c(j) = [part EXCEPT !.files = files, !.add = {}, !.rm = {}, !.waiting = {},
                              !.alone = TRUE]
      BY <2>3
    <3> QED  BY <1>2, <1>3, <2>3, <3>1 DEF PartShape
  <2> QED  BY <2>2, <2>3
<1> HIDE DEF c
<1>6. DOMAIN f = DOMAIN opened[p] /\ f = [j \in DOMAIN opened[p] |-> f[j]]
      /\ \A j \in DOMAIN opened[p] : f[j] = c(j)
  OBVIOUS
<1> HIDE DEF f
<1>7. \A j \in DOMAIN opened[p] : f[j] \in PartShape
  BY <1>5, <1>6
<1>8. /\ opened' \in [Places -> Seq(PartShape)]
      /\ \A q \in Places : q # p => opened'[q] = opened[q]
      /\ opened'[p] = f
  BY <1>1, <1>6, <1>7, PlaceChanged
<1>9. /\ saved' \in [Places -> {None} \cup SUBSET Entries]
      /\ saved'[p] = files /\ \A q \in Places : q # p => saved'[q] = saved[q]
  BY <1>1, <1>2, <1>3
<1>10. Flushed(p, k, files)
  BY <1>3, <1>5, <1>6, <1>8, <1>9 DEF Flushed
<1> QED  BY <1>1, <1>4, <1>10

\* A flush that fails keeps the files.
LEMMA FlushFailsPart ==
  ASSUME Shape, NEW p \in Places, NEW k \in DOMAIN opened[p], FlushFails(p, k)
  PROVE  /\ Resolve(p, k, TRUE)
         /\ opened' \in [Places -> Seq(PartShape)]
         /\ \A q \in Places : q # p => opened'[q] = opened[q]
         /\ DOMAIN opened'[p] = DOMAIN opened[p]
         /\ \A j \in DOMAIN opened[p] : j # k => opened'[p][j] = opened[p][j]
         /\ opened'[p][k].files = opened[p][k].files /\ opened'[p][k].add = {}
         /\ opened'[p][k].waiting = {} /\ opened'[p][k].alone = opened[p][k].alone
<1> DEFINE c == [opened[p][k] EXCEPT !.add = {}, !.rm = {}, !.waiting = {}]
<1>1. opened[p][k] \in PartShape
  BY Numbers
<1>2. c \in PartShape /\ c.files = opened[p][k].files /\ c.add = {} /\ c.waiting = {}
      /\ c.alone = opened[p][k].alone
  BY <1>1 DEF PartShape
<1>3. opened' = [opened EXCEPT ![p] = [opened[p] EXCEPT ![k] = c]] /\ Resolve(p, k, TRUE)
  BY DEF FlushFails, Shape
<1> HIDE DEF c
<1>4. /\ opened' \in [Places -> Seq(PartShape)]
      /\ \A q \in Places : q # p => opened'[q] = opened[q]
      /\ DOMAIN opened'[p] = DOMAIN opened[p]
      /\ \A j \in DOMAIN opened[p] : j # k => opened'[p][j] = opened[p][j]
      /\ opened'[p][k] = c
  BY <1>2, <1>3, PartChanged
<1> QED  BY <1>2, <1>3, <1>4

\* NewIndex opens what is saved.
LEMMA CrashParts ==
  ASSUME Shape, Crash
  PROVE  /\ opened' \in [Places -> Seq(PartShape)] /\ parts' \in [Places -> Nat]
         /\ \A p \in Places :
              /\ saved[p] = None => opened'[p] = <<>> /\ DOMAIN opened'[p] = {} /\ parts'[p] = 0
              /\ saved[p] # None =>
                   /\ DOMAIN opened'[p] = {1} /\ parts'[p] = 1
                   /\ opened'[p][1].files = SavedAt(p) /\ opened'[p][1].add = {}
                   /\ opened'[p][1].waiting = {} /\ opened'[p][1].alone
<1> DEFINE f(p) == IF saved[p] = None THEN <<>> ELSE <<Fresh(p)>>
<1>1. saved \in [Places -> {None} \cup SUBSET Entries]
  BY DEF Shape
<1>2. ASSUME NEW p \in Places
      PROVE  /\ Fresh(p) \in PartShape /\ Fresh(p).files = SavedAt(p) /\ Fresh(p).add = {}
             /\ Fresh(p).waiting = {} /\ Fresh(p).alone
  BY <1>1 DEF Fresh, PartShape, SavedAt
<1>3. ASSUME NEW p \in Places
      PROVE  f(p) \in Seq(PartShape)
  BY <1>2
<1>4. opened' = [p \in Places |-> f(p)]
      /\ parts' = [p \in Places |-> IF saved[p] = None THEN 0 ELSE 1]
  BY DEF Crash
<1>5. opened' \in [Places -> Seq(PartShape)] /\ parts' \in [Places -> Nat]
  <2> HIDE DEF f
  <2> QED  BY <1>3, <1>4
<1>6. ASSUME NEW p \in Places, saved[p] = None
      PROVE  opened'[p] = <<>> /\ DOMAIN opened'[p] = {} /\ parts'[p] = 0
  BY <1>4, <1>6
<1>7. ASSUME NEW p \in Places, saved[p] # None
      PROVE  DOMAIN opened'[p] = {1} /\ parts'[p] = 1 /\ opened'[p][1] = Fresh(p)
  BY <1>4, <1>7
<1> QED  BY <1>2, <1>5, <1>6, <1>7

-----------------------------------------------------------------------------
(* The kinds of steps.                                                     *)

\* The layer of a partition that is saved, opened, changed or queried is configured,
\* and a partition on a file system has its directory.
Layered ==
  \A p \in Places :
    /\ \/ saved[p] # None \/ opened[p] # <<>> \/ log[p] # <<>> \/ query.todo[p] > 0
       => p[1] \in LayerNames
    /\ saved[p] # None \/ opened[p] # <<>> => isS3Layer(p[1]) \/ p \in dirs

\* A mover that waits for its copy has asked for it.
Plans ==
  \A m \in Movers :
    /\ plan[m].step = "idle" => plan[m] = Idle
    /\ plan[m].step # "idle" => plan[m].call \in DOMAIN calls
    /\ plan[m].step = "copy" =>
         /\ plan[m].file \in Entries /\ plan[m].file[1] \in LayerNames
         /\ plan[m].to \in LayersTo(plan[m].file[1])
         /\ <<plan[m].to, plan[m].file[2]>> \in calls[plan[m].call].add

\* A mover moves a file to a layer of the table.
LEMMA MoveTo ==
  ASSUME NEW l
  PROVE  LayersTo(l) \subseteq LayerNames
BY DEF LayersTo, After, SameType

\* A call with its places to do begins.
Begins(by, add, rm, places) ==
  LET c == calls'[Len(calls) + 1]
  IN /\ calls' \in Seq(CallRecord)
     /\ DOMAIN calls' = DOMAIN calls \cup {Len(calls) + 1}
     /\ Len(calls) + 1 \notin DOMAIN calls /\ Len(calls) + 1 \in Nat
     /\ \A i \in DOMAIN calls : calls'[i] = calls[i]
     /\ c.by = by /\ c.add = add /\ c.rm = rm /\ c.todo = places /\ c.loaded = None
     /\ c.waits = {} /\ ~c.failed /\ c.res = "pending"

LEMMA CallBegins ==
  ASSUME Shape, NEW by \in Movers \cup {"writer", "reader"}, NEW add \in SUBSET Entries,
         NEW rm \in SUBSET Entries, NEW places \in SUBSET Places, NewCall(by, add, rm, places)
  PROVE  Begins(by, add, rm, places)
<1> DEFINE c == [by |-> by, add |-> add, rm |-> rm, todo |-> places, loaded |-> None,
                 waits |-> {}, failed |-> FALSE, res |-> "pending"]
<1>1. c \in CallRecord
  BY DEF CallRecord
<1>2. c.by = by /\ c.add = add /\ c.rm = rm /\ c.todo = places /\ c.loaded = None
      /\ c.waits = {} /\ ~c.failed /\ c.res = "pending"
  OBVIOUS
<1>3. calls \in Seq(CallRecord) /\ calls' = Append(calls, c)
  BY DEF NewCall, Shape
<1> HIDE DEF c
<1>4. /\ calls' \in Seq(CallRecord) /\ Len(calls) \in Nat
      /\ DOMAIN calls' = DOMAIN calls \cup {Len(calls) + 1}
      /\ Len(calls) + 1 \notin DOMAIN calls
      /\ \A i \in DOMAIN calls : calls'[i] = calls[i]
      /\ calls'[Len(calls) + 1] = c
  BY <1>1, <1>3, Appended
<1> QED  BY <1>2, <1>4 DEF Begins

\* A step that begins a call, and may make directories.
Called ==
  /\ \E by \in Movers \cup {"writer", "reader"} :
     \E add, rm \in SUBSET Entries : \E places \in SUBSET Places :
       /\ Begins(by, add, rm, places)
       /\ \A e \in add \cup rm : Place(e) \in places
  /\ dirs \subseteq dirs' /\ dirs' \subseteq Places
  /\ UNCHANGED <<saved, opened, parts, lock, query, log, twice>>

\* Batch, Get and the two calls of a mover.
LEMMA BatchBegins ==
  ASSUME Shape, NEW r \in left.requests, Batch(r)
  PROVE  Called /\ Begins("writer", r[1], r[2], {Place(e) : e \in r[1] \cup r[2]})
<1>1. r[1] \in SUBSET Entries /\ r[2] \in SUBSET Entries /\ dirs \subseteq Places
  BY DEF Shape, Scenario
<1>2. {Place(e) : e \in r[1] \cup r[2]} \in SUBSET Places
  BY <1>1, PlaceOfEntry
<1>3. Begins("writer", r[1], r[2], {Place(e) : e \in r[1] \cup r[2]})
  BY <1>1, <1>2, CallBegins DEF Batch
<1>4. dirs \subseteq dirs' /\ dirs' \subseteq Places
  BY <1>1, <1>2 DEF Batch, Written
<1> QED  BY <1>1, <1>2, <1>3, <1>4 DEF Called, Batch

LEMMA GetBegins ==
  ASSUME Shape, NEW e \in left.reads, Get(e)
  PROVE  Called /\ Begins("reader", {}, {}, {Place(e)})
<1>1. e \in Entries /\ dirs \subseteq Places
  BY DEF Shape, Scenario
<1>2. {Place(e)} \in SUBSET Places
  BY <1>1, PlaceOfEntry
<1>3. Begins("reader", {}, {}, {Place(e)})
  BY <1>2, CallBegins DEF Get
<1>4. UNCHANGED <<saved, opened, parts, lock, query, log, twice, dirs>>
  BY DEF Get
<1> QED  BY <1>1, <1>2, <1>3, <1>4 DEF Called

\* GetMovePlan gives a mover a file of a partition and a layer to copy it to.
LEMMA CopyBegins ==
  ASSUME Shape, Pointers, Layered, NEW m \in left.movers, GetMovePlan(m)
  PROVE  /\ Called /\ m \in Movers
         /\ \E e \in Entries : \E to \in LayersTo(e[1]) :
              /\ e[1] \in LayerNames
              /\ Begins(m, {<<to, e[2]>>}, {}, {Place(<<to, e[2]>>)})
              /\ plan' = [plan EXCEPT ![m] = [file |-> e, to |-> to, call |-> Len(calls) + 1,
                                              step |-> "copy"]]
<1>1. m \in Movers /\ dirs \subseteq Places
  BY DEF Shape, Scenario
<1>2. PICK e \in Entries :
        /\ parts[Place(e)] # 0
        /\ \E to \in LayersTo(e[1]) :
             /\ NewCall(m, {<<to, e[2]>>}, {}, {Place(<<to, e[2]>>)})
             /\ plan' = [plan EXCEPT ![m] = [file |-> e, to |-> to, call |-> Len(calls) + 1,
                                             step |-> "copy"]]
             /\ Written({<<to, e[2]>>})
  BY DEF GetMovePlan
<1>3. PICK to \in LayersTo(e[1]) :
        /\ NewCall(m, {<<to, e[2]>>}, {}, {Place(<<to, e[2]>>)})
        /\ plan' = [plan EXCEPT ![m] = [file |-> e, to |-> to, call |-> Len(calls) + 1,
                                        step |-> "copy"]]
        /\ Written({<<to, e[2]>>})
  BY <1>2
<1>4. e[1] \in LayerNames
  <2>1. Place(e) \in Places /\ Place(e)[1] = e[1]
    BY PlaceOfEntry
  <2>2. opened[Place(e)] # <<>>
    BY <1>2, <2>1 DEF Pointers
  <2> QED  BY <2>1, <2>2 DEF Layered
<1>5. <<to, e[2]>> \in Entries
  BY MoveTo, PlaceOfEntry, EntryInLayer
<1>6. Place(<<to, e[2]>>) \in Places
  BY <1>5, PlaceOfEntry
<1> DEFINE add == {<<to, e[2]>>}
           places == {Place(<<to, e[2]>>)}
<1>7. add \in SUBSET Entries /\ places \in SUBSET Places /\ \A a \in add : Place(a) \in places
  BY <1>5, <1>6
<1>8. NewCall(m, add, {}, places) /\ Written(add)
  BY <1>3
<1> HIDE DEF add, places
<1>9. Begins(m, add, {}, places)
  BY <1>1, <1>7, <1>8, CallBegins
<1>10. dirs \subseteq dirs' /\ dirs' \subseteq Places
  BY <1>1, <1>7, <1>8, PlaceOfEntry DEF Written
<1>11. UNCHANGED <<saved, opened, parts, lock, query, log, twice>>
  BY DEF GetMovePlan
<1>12. Called
  BY <1>1, <1>7, <1>9, <1>10, <1>11 DEF Called
<1> QED  BY <1>1, <1>4, <1>9, <1>12, <1>3 DEF add, places

\* RemoveOriginal asks for the removal of a file whose copy was answered without error.
LEMMA RemoveBegins ==
  ASSUME Shape, Plans, NEW m \in left.movers, RemoveOriginal(m)
  PROVE  /\ Called /\ m \in Movers
         /\ plan[m].step = "copy" /\ plan[m].file \in Entries
         /\ calls[plan[m].call].res = "ok"
         /\ Begins(m, {}, {plan[m].file}, {Place(plan[m].file)})
         /\ plan' = [plan EXCEPT ![m].call = Len(calls) + 1, ![m].step = "remove"]
<1>1. m \in Movers /\ dirs \subseteq Places
  BY DEF Shape, Scenario
<1>2. /\ plan[m].step = "copy" /\ calls[plan[m].call].res = "ok"
      /\ NewCall(m, {}, {plan[m].file}, {Place(plan[m].file)})
      /\ plan' = [plan EXCEPT ![m].call = Len(calls) + 1, ![m].step = "remove"]
      /\ UNCHANGED <<saved, opened, parts, lock, query, log, twice, dirs>>
  BY DEF RemoveOriginal
<1>3. plan[m].file \in Entries
  BY <1>1, <1>2 DEF Plans
<1>4. Place(plan[m].file) \in Places
  BY <1>3, PlaceOfEntry
<1>5. Begins(m, {}, {plan[m].file}, {Place(plan[m].file)})
  BY <1>1, <1>2, <1>3, <1>4, CallBegins
<1>6. Called
  BY <1>1, <1>2, <1>3, <1>4, <1>5 DEF Called
<1> QED  BY <1>1, <1>2, <1>3, <1>5, <1>6

LEMMA CallSteps ==
  ASSUME Shape, Pointers, Layered, Plans,
         \/ \E r \in left.requests : Batch(r)
         \/ \E e \in left.reads : Get(e)
         \/ \E m \in left.movers : GetMovePlan(m) \/ RemoveOriginal(m)
  PROVE  Called
BY BatchBegins, GetBegins, CopyBegins, RemoveBegins

\* What queries, the ends of moves and Stop leave alone.
LEMMA QuietSteps ==
  ASSUME Shape,
         \/ \E o \in Options : Query(o)
         \/ ListHours
         \/ \E p \in Places : QueryFails(p) \/ RangeBegin(p)
         \/ RangeEnd
         \/ \E m \in left.movers : EndMove(m)
         \/ Stop
         \/ \E p \in Places : \E k \in DOMAIN opened[p] : LoopExit(p, k)
         \/ UNCHANGED vars
  PROVE  Quiet
<1>1. CASE Stop \/ \E p \in Places : \E k \in DOMAIN opened[p] : LoopExit(p, k)
  BY <1>1, LoopSteps
<1>2. CASE ~(Stop \/ \E p \in Places : \E k \in DOMAIN opened[p] : LoopExit(p, k))
  <2>1. UNCHANGED <<saved, dirs, opened, lock, calls, log, twice>>
    BY <1>2 DEF Query, ListHours, QueryFails, RangeBegin, RangeEnd, EndMove, vars
  <2> QED  BY <2>1 DEF Quiet, SameParts, Shape
<1> QED  BY <1>1, <1>2

\* Every step is of one of these kinds.
LEMMA Kinds ==
  ASSUME Shape, Pointers, Layered, Plans, [Next]_vars
  PROVE  \/ Quiet
         \/ Called
         \/ \E i \in DOMAIN calls : \E p \in Places : Load(i, p) \/ LoadFails(i, p) \/ Apply(i, p)
         \/ \E i \in DOMAIN calls : Answer(i)
         \/ \E p \in Places : \E k \in DOMAIN opened[p] : Flush(p, k) \/ FlushFails(p, k)
         \/ \E p \in Places : QueryLoad(p)
         \/ Crash
BY QuietSteps, CallSteps DEF Next, CallStep

-----------------------------------------------------------------------------
(* What the steps do to the query.                                         *)

\* A set of at most one element.
LEMMA OneAtMost ==
  ASSUME NEW x, NEW S
  PROVE  /\ Cardinality({x} \cap S) = IF x \in S THEN 1 ELSE 0
         /\ Cardinality({x} \cap S) \in Nat
<1>1. CASE x \in S
  <2>1. {x} \cap S = {x}
    BY <1>1
  <2> QED  BY <1>1, <2>1, FS_Singleton
<1>2. CASE x \notin S
  <2>1. {x} \cap S = {}
    BY <1>2
  <2> QED  BY <1>2, <2>1, FS_EmptySet
<1> QED  BY <1>1, <1>2

LEMMA findHoursNat ==
  ASSUME NEW n, NEW o
  PROVE  findHours(n, o) \in [Places -> Nat]
BY OneAtMost DEF findHours

\* No query runs.
LEMMA NoQueryIs ==
  /\ NoQuery \in QueryRecord
  /\ NoQuery.after = 0 /\ NoQuery.before = 0 /\ NoQuery.layer = Len(Layers) + 1
  /\ NoQuery.todo = Zero /\ NoQuery.loaded = None /\ NoQuery.ranging = None
  /\ NoQuery.got = [e \in Entries |-> 0] /\ NoQuery.known = {}
<1>1. Len(Layers) + 1 \in Nat
  BY TableAssumption
<1>2. Zero \in [Places -> Nat]
  BY DEF Zero
<1> QED  BY <1>1, <1>2 DEF NoQuery, QueryRecord, Opened

\* What is known is a file.
LEMMA KnownIsData ==
  ASSUME Shape
  PROVE  Known \subseteq Data
<1>1. ASSUME NEW i \in DOMAIN calls, NEW e \in calls[i].add
      PROVE  e[2] \in Data
  BY Numbers, PlaceOfEntry DEF CallRecord
<1> QED  BY <1>1 DEF Known

\* A query begins.
LEMMA QueryBegins ==
  ASSUME Shape, NEW o \in Options, Query(o)
  PROVE  /\ query' \in QueryRecord /\ query'.layer = 0
         /\ query'.todo = Zero /\ query'.loaded = None /\ query'.ranging = None
         /\ query'.got = [e \in Entries |-> 0] /\ query'.known = Known
<1>1. query' = [NoQuery EXCEPT !.after = o.after, !.before = o.before, !.layer = 0,
                               !.known = Known]
  BY DEF Query
<1>2. o.after \in Nat /\ o.before \in Nat
  BY TableAssumption
<1> QED  BY <1>1, <1>2, NoQueryIs, KnownIsData DEF QueryRecord

\* The hours of the next layer are listed.
LEMMA HoursListed ==
  ASSUME Shape, ListHours
  PROVE  /\ query' \in QueryRecord
         /\ query.todo = Zero /\ query.layer < Len(Layers)
         /\ query'.layer = query.layer + 1
         /\ query'.todo = findHours(query.layer + 1, query)
         /\ query'.after = query.after /\ query'.before = query.before
         /\ query'.loaded = query.loaded /\ query'.ranging = query.ranging
         /\ query'.must = query.must /\ query'.may = query.may
         /\ query'.got = query.got /\ query'.known = query.known
<1> DEFINE h == findHours(query.layer + 1, query)
<1>1. h \in [Places -> Nat] /\ query \in QueryRecord
  BY findHoursNat DEF Shape
<1>2. query' = [query EXCEPT !.layer = query.layer + 1, !.todo = h]
      /\ query.todo = Zero /\ query.layer < Len(Layers)
  BY DEF ListHours
<1> HIDE DEF h
<1>3. query.layer + 1 \in Nat
  BY <1>1 DEF QueryRecord
<1>4. query'.todo = h
  BY <1>1, <1>2 DEF QueryRecord
<1> QED  BY <1>1, <1>2, <1>3, <1>4 DEF QueryRecord, h

\* A partition is opened for the query.
LEMMA QueryLoaded ==
  ASSUME Shape, NEW p \in Places, QueryLoad(p)
  PROVE  /\ query' \in QueryRecord
         /\ query'.loaded = <<p, Len(opened[p]) + 1>>
         /\ query'.layer = query.layer /\ query'.todo = query.todo
         /\ query'.after = query.after /\ query'.before = query.before
         /\ query.ranging = None /\ query'.ranging = query.ranging
         /\ query'.must = query.must /\ query'.may = query.may
         /\ query'.got = query.got /\ query'.known = query.known
<1>1. query \in QueryRecord /\ Len(opened[p]) + 1 \in Nat
  BY Numbers DEF Shape
<1>2. query' = [query EXCEPT !.loaded = <<p, Len(opened[p]) + 1>>] /\ query.ranging = None
  BY DEF QueryLoad, QueryAt
<1> QED  BY <1>1, <1>2 DEF QueryRecord, Opened

\* Range begins in a partition.
LEMMA RangeBegins ==
  ASSUME Shape, Pointers, NEW p \in Places, RangeBegin(p)
  PROVE  LET k == Found(query.loaded, p)
         IN /\ k \in DOMAIN opened[p]
            /\ parts' = [parts EXCEPT ![p] = k]
            /\ query' \in QueryRecord
            /\ query.todo[p] > 0 /\ query.ranging = None
            /\ query'.loaded = None /\ query'.ranging = <<p, k>>
            /\ query'.must = opened[p][k].files /\ query'.may = opened[p][k].files
            /\ query'.layer = query.layer /\ query'.todo = query.todo
            /\ query'.after = query.after /\ query'.before = query.before
            /\ query'.got = query.got /\ query'.known = query.known
<1> DEFINE k == Found(query.loaded, p)
<1>1. query \in QueryRecord
  BY DEF Shape
<1>2. k \in DOMAIN opened[p]
  <2>1. k # 0 /\ (query.loaded # None => query.loaded[1] = p)
    BY DEF RangeBegin
  <2> QED  BY <2>1 DEF Pointers, Held, Found
<1>3. /\ parts' = [parts EXCEPT ![p] = k]
      /\ query' = [query EXCEPT !.loaded = None, !.ranging = <<p, k>>,
                                !.must = opened[p][k].files, !.may = opened[p][k].files]
      /\ query.todo[p] > 0 /\ query.ranging = None
  BY DEF RangeBegin, QueryAt
<1> HIDE DEF k
<1>4. k \in Nat /\ opened[p][k].files \in SUBSET Entries
  BY <1>2, Numbers DEF PartShape
<1>5. query' \in QueryRecord
      /\ query'.loaded = None /\ query'.ranging = <<p, k>>
      /\ query'.must = opened[p][k].files /\ query'.may = opened[p][k].files
      /\ query'.layer = query.layer /\ query'.todo = query.todo
      /\ query'.after = query.after /\ query'.before = query.before
      /\ query'.got = query.got /\ query'.known = query.known
  BY <1>1, <1>3, <1>4 DEF QueryRecord, Opened
<1> QED  BY <1>2, <1>3, <1>5 DEF k

\* Range ends and has seen what was there all the time.
LEMMA RangeEnds ==
  ASSUME Shape, Ranged, RangeEnd
  PROVE  LET p == query.ranging[1]
         IN /\ query' \in QueryRecord
            /\ query.ranging # None /\ p \in Places /\ query.todo[p] > 0
            /\ query'.ranging = None /\ query'.loaded = query.loaded
            /\ query'.layer = query.layer /\ query'.todo = [query.todo EXCEPT ![p] = @ - 1]
            /\ query'.after = query.after /\ query'.before = query.before
            /\ query'.known = query.known
            /\ \A e \in Entries :
                 /\ query'.got[e] \in {query.got[e], query.got[e] + 1}
                 /\ e \notin query.may => query'.got[e] = query.got[e]
                 /\ e \in query.must /\ Matches(e, query) => query'.got[e] = query.got[e] + 1
<1> DEFINE p == query.ranging[1]
<1>1. query \in QueryRecord /\ query.ranging # None
  BY DEF Shape, RangeEnd
<1>2. p \in Places /\ query.todo[p] \in Nat /\ query.todo[p] > 0
      /\ query.todo \in [Places -> Nat] /\ query.got \in [Entries -> Nat]
  BY <1>1 DEF QueryRecord, Opened, Ranged
<1>3. PICK seen \in SUBSET query.may :
        /\ query.must \subseteq seen
        /\ query' = [query EXCEPT !.ranging = None, !.must = {}, !.may = {},
                       !.todo[p] = @ - 1,
                       !.got = [e \in Entries |->
                                  @[e] + IF e \in seen /\ Matches(e, query) THEN 1 ELSE 0]]
  BY DEF RangeEnd
<1> DEFINE got == [e \in Entries |->
                     query.got[e] + IF e \in seen /\ Matches(e, query) THEN 1 ELSE 0]
           todo == [query.todo EXCEPT ![p] = @ - 1]
<1>4. got \in [Entries -> Nat] /\ todo \in [Places -> Nat]
  BY <1>2
<1>5. query' = [query EXCEPT !.ranging = None, !.must = {}, !.may = {}, !.todo = todo, !.got = got]
  BY <1>1, <1>3 DEF QueryRecord
<1>6. \A e \in Entries :
        /\ got[e] \in {query.got[e], query.got[e] + 1}
        /\ e \notin query.may => got[e] = query.got[e]
        /\ e \in query.must /\ Matches(e, query) => got[e] = query.got[e] + 1
  BY <1>2, <1>3
<1> HIDE DEF got, todo, p
<1>7. query' \in QueryRecord /\ query'.ranging = None /\ query'.loaded = query.loaded
      /\ query'.layer = query.layer /\ query'.todo = todo /\ query'.got = got
      /\ query'.after = query.after /\ query'.before = query.before
      /\ query'.known = query.known
  BY <1>1, <1>4, <1>5 DEF QueryRecord, Opened
<1> QED  BY <1>1, <1>2, <1>6, <1>7 DEF todo, p

\* A change of a partition may reach a Range that visits it.
LEMMA DisturbedIs ==
  ASSUME Shape, NEW p, NEW k, NEW files \in SUBSET Entries
  PROVE  LET q == Disturbed(p, k, files)
         IN /\ q \in QueryRecord
            /\ q.layer = query.layer /\ q.todo = query.todo /\ q.after = query.after
            /\ q.before = query.before /\ q.got = query.got /\ q.known = query.known
            /\ q.loaded = query.loaded /\ q.ranging = query.ranging
            /\ \/ q = query
               \/ /\ query.ranging = <<p, k>>
                  /\ q.must = query.must \cap files /\ q.may = query.may \cup files
<1>1. query \in QueryRecord
  BY DEF Shape
<1>2. CASE query.ranging # <<p, k>>
  BY <1>1, <1>2 DEF Disturbed
<1>3. CASE query.ranging = <<p, k>>
  <2>1. Disturbed(p, k, files) =
          [query EXCEPT !.must = query.must \cap files, !.may = query.may \cup files]
    BY <1>1, <1>3 DEF Disturbed
  <2> QED  BY <1>1, <1>3, <2>1 DEF QueryRecord
<1> QED  BY <1>2, <1>3

-----------------------------------------------------------------------------
(* The shape of the state is kept.                                         *)

\* A call that has opened a partition still has to do it; one that has been answered
\* has nothing left to do.
Answered ==
  \A i \in DOMAIN calls :
    /\ calls[i].loaded # None => calls[i].loaded[1] \in calls[i].todo
    /\ calls[i].res # "pending" => calls[i].todo = {} /\ calls[i].waits = {}

TypeInv == Shape /\ Pointers /\ InPlace /\ Layered /\ Ranged /\ Plans /\ Answered

\* A call that may still be answered without an error, or was.
Good(i) == calls[i].res = "ok" \/ (calls[i].res = "pending" /\ ~calls[i].failed)

\* Calls keep their requests and an answer without an error, and do not get better;
\* partitions stay until the process dies.
LEMMA Growth ==
  ASSUME TypeInv, [Next]_vars
  PROVE  /\ DOMAIN calls \subseteq DOMAIN calls'
         /\ \A i \in DOMAIN calls : /\ SameRequest(calls'[i], calls[i])
                                    /\ Acked(i) => calls'[i].res = "ok"
                                    /\ Good(i)' => Good(i)
         /\ Crash \/ \A p \in Places : DOMAIN opened[p] \subseteq DOMAIN opened'[p]
<1>1. Shape /\ Pointers /\ Layered /\ Plans
  BY DEF TypeInv
<1>2. CASE Quiet
  BY <1>2 DEF Quiet, SameParts, SameRequest, Acked, Good
<1>3. CASE Called
  <2>1. PICK by, add, rm, places : Begins(by, add, rm, places)
    BY <1>3 DEF Called
  <2>2. DOMAIN calls \subseteq DOMAIN calls' /\ \A i \in DOMAIN calls : calls'[i] = calls[i]
    BY <2>1 DEF Begins
  <2>3. opened' = opened
    BY <1>3 DEF Called
  <2> QED  BY <2>2, <2>3 DEF SameRequest, Acked, Good
<1>4. ASSUME NEW i \in DOMAIN calls, NEW p \in Places, Load(i, p)
      PROVE  /\ DOMAIN calls' = DOMAIN calls
             /\ \A j \in DOMAIN calls : /\ SameRequest(calls'[j], calls[j])
                                        /\ Acked(j) => calls'[j].res = "ok"
                                        /\ Good(j)' => Good(j)
             /\ \A q \in Places : DOMAIN opened[q] \subseteq DOMAIN opened'[q]
  <2>1. /\ Changed(i, calls'[i])
        /\ calls'[i].failed = calls[i].failed /\ calls'[i].res = calls[i].res
    BY <1>1, <1>4, LoadCall DEF Changed
  <2>2. Open(p)
    BY <1>4 DEF Load
  <2>3. \A q \in Places : DOMAIN opened[q] \subseteq DOMAIN opened'[q]
    BY <1>1, <2>2, OpenFacts
  <2> QED  BY <2>1, <2>3 DEF Changed, SameRequest, Acked, Good
<1>5. ASSUME NEW i \in DOMAIN calls, NEW p \in Places, LoadFails(i, p)
      PROVE  /\ DOMAIN calls' = DOMAIN calls /\ opened' = opened
             /\ \A j \in DOMAIN calls : /\ SameRequest(calls'[j], calls[j])
                                        /\ Acked(j) => calls'[j].res = "ok"
                                        /\ Good(j)' => Good(j)
  <2>1. Changed(i, calls'[i]) /\ calls'[i].res = calls[i].res /\ calls'[i].failed
    BY <1>1, <1>5, LoadFailsCall
  <2>2. opened' = opened
    BY <1>5 DEF LoadFails
  <2> QED  BY <2>1, <2>2 DEF Changed, SameRequest, Acked, Good
<1>6. ASSUME NEW i \in DOMAIN calls, NEW p \in Places, Apply(i, p)
      PROVE  /\ DOMAIN calls' = DOMAIN calls
             /\ \A j \in DOMAIN calls : /\ SameRequest(calls'[j], calls[j])
                                        /\ Acked(j) => calls'[j].res = "ok"
                                        /\ Good(j)' => Good(j)
             /\ \A q \in Places : DOMAIN opened[q] \subseteq DOMAIN opened'[q]
  <2>1. Changed(i, calls'[i]) /\ calls'[i].res = calls[i].res /\ calls'[i].failed = calls[i].failed
    BY <1>1, <1>6, ApplyCall
  <2>2. \A q \in Places : DOMAIN opened[q] \subseteq DOMAIN opened'[q]
    BY <1>1, <1>6, ApplyPart DEF AppliedTo
  <2> QED  BY <2>1, <2>2 DEF Changed, SameRequest, Acked, Good
<1>7. ASSUME NEW i \in DOMAIN calls, Answer(i)
      PROVE  /\ DOMAIN calls' = DOMAIN calls /\ opened' = opened
             /\ \A j \in DOMAIN calls : /\ SameRequest(calls'[j], calls[j])
                                        /\ Acked(j) => calls'[j].res = "ok"
                                        /\ Good(j)' => Good(j)
  <2>1. /\ Changed(i, calls'[i]) /\ calls[i].res = "pending"
        /\ calls'[i].res = "ok" => ~calls[i].failed
        /\ calls'[i].res \in {"ok", "err"}
    BY <1>1, <1>7, AnswerCall
  <2>2. opened' = opened
    BY <1>7 DEF Answer
  <2> QED  BY <2>1, <2>2 DEF Changed, SameRequest, Acked, Good
<1>8. ASSUME NEW p \in Places, NEW k \in DOMAIN opened[p], Flush(p, k) \/ FlushFails(p, k)
      PROVE  /\ DOMAIN calls' = DOMAIN calls
             /\ \A j \in DOMAIN calls : /\ SameRequest(calls'[j], calls[j])
                                        /\ Acked(j) => calls'[j].res = "ok"
                                        /\ Good(j)' => Good(j)
             /\ \A q \in Places : DOMAIN opened[q] \subseteq DOMAIN opened'[q]
  <2>1. PICK bad \in BOOLEAN : Resolve(p, k, bad)
    BY <1>1, <1>8, FlushPart, FlushFailsPart
  <2>2. /\ DOMAIN calls' = DOMAIN calls
        /\ \A j \in DOMAIN calls :
             /\ SameRequest(calls'[j], calls[j]) /\ calls'[j].res = calls[j].res
             /\ calls'[j] = calls[j] \/ (calls[j].failed => calls'[j].failed)
    BY <1>1, <2>1, ResolveCalls
  <2>3. \A q \in Places : DOMAIN opened[q] \subseteq DOMAIN opened'[q]
    BY <1>1, <1>8, FlushPart, FlushFailsPart DEF Flushed
  <2> QED  BY <2>2, <2>3 DEF Acked, Good
<1>9. ASSUME NEW p \in Places, QueryLoad(p)
      PROVE  calls' = calls /\ \A q \in Places : DOMAIN opened[q] \subseteq DOMAIN opened'[q]
  <2>1. Open(p) /\ calls' = calls
    BY <1>9 DEF QueryLoad
  <2> QED  BY <1>1, <2>1, OpenFacts
<1>10. CASE Crash
  <2>1. /\ DOMAIN calls' = DOMAIN calls
        /\ \A i \in DOMAIN calls :
             /\ SameRequest(calls'[i], calls[i])
             /\ (calls'[i] = calls[i] \/ (calls'[i].res = "lost" /\ calls[i].res = "pending"))
    BY <1>1, <1>10, CrashCalls
  <2> QED  BY <1>10, <2>1 DEF Acked, Good
<1>11. \A i \in DOMAIN calls : SameRequest(calls[i], calls[i])
  BY DEF SameRequest
<1> QED
  <2>1. CASE \E p \in Places : QueryLoad(p)
    BY <1>9, <1>11, <2>1 DEF Acked, Good
  <2> QED  BY <1>1, <1>2, <1>3, <1>4, <1>5, <1>6, <1>7, <1>8, <1>10, <2>1, Kinds

\* What may still happen shrinks.
LEMMA Spent ==
  ASSUME Shape, NEW what \in {"queries", "failures", "crashes", "stops"}, Spend(what)
  PROVE  left' \in Scenario
<1>1. left \in Scenario /\ left[what] > 0 /\ left' = [left EXCEPT ![what] = left[what] - 1]
  BY DEF Shape, Spend
<1>2. CASE what = "queries"
  BY <1>1, <1>2 DEF Scenario
<1>3. CASE what = "failures"
  BY <1>1, <1>3 DEF Scenario
<1>4. CASE what = "crashes"
  BY <1>1, <1>4 DEF Scenario
<1>5. CASE what = "stops"
  BY <1>1, <1>5 DEF Scenario
<1> QED  BY <1>2, <1>3, <1>4, <1>5

LEMMA ScenarioStep ==
  ASSUME Shape, [Next]_vars
  PROVE  left' \in Scenario
<1>1. left \in Scenario
  BY DEF Shape
<1>2. ASSUME left.calls > 0,
             \/ left' = [left EXCEPT !.calls = @ - 1]
             \/ \E r : left' = [left EXCEPT !.calls = @ - 1, !.requests = @ \ {r}]
             \/ \E e : left' = [left EXCEPT !.calls = @ - 1, !.reads = @ \ {e}]
      PROVE  left' \in Scenario
  <2>1. left.calls - 1 \in Nat
    <3>1. left.calls \in Nat /\ left.calls > 0
      BY <1>1, <1>2 DEF Scenario
    <3> QED  BY <3>1
  <2>2. CASE left' = [left EXCEPT !.calls = @ - 1]
    BY <1>1, <2>1, <2>2 DEF Scenario
  <2>3. ASSUME NEW r, left' = [left EXCEPT !.calls = @ - 1, !.requests = @ \ {r}]
        PROVE  left' \in Scenario
    BY <1>1, <2>1, <2>3 DEF Scenario
  <2>4. ASSUME NEW e, left' = [left EXCEPT !.calls = @ - 1, !.reads = @ \ {e}]
        PROVE  left' \in Scenario
    BY <1>1, <2>1, <2>4 DEF Scenario
  <2> QED  BY <1>2, <2>2, <2>3, <2>4
<1>3. CASE \/ \E r \in left.requests : Batch(r)
           \/ \E e \in left.reads : Get(e)
           \/ \E m \in left.movers : GetMovePlan(m) \/ RemoveOriginal(m)
  BY <1>2, <1>3 DEF Batch, Get, GetMovePlan, RemoveOriginal, NewCall
<1>4. CASE \/ \E i \in DOMAIN calls : \E p \in Places : LoadFails(i, p)
           \/ \E p \in Places : \E k \in DOMAIN opened[p] : FlushFails(p, k)
           \/ \E p \in Places : QueryFails(p)
           \/ \E o \in Options : Query(o)
           \/ Stop \/ Crash
  <2>1. left' = left \/ Spend("failures") \/ Spend("queries") \/ Spend("stops") \/ Spend("crashes")
    BY <1>4 DEF LoadFails, FlushFails, QueryFails, Query, Stop, Crash
  <2> QED  BY <1>1, <2>1, Spent
<1>5. CASE \/ \E i \in DOMAIN calls : \/ Answer(i)
                                      \/ \E p \in Places : Load(i, p) \/ Apply(i, p)
           \/ \E p \in Places : \E k \in DOMAIN opened[p] : Flush(p, k) \/ LoopExit(p, k)
           \/ \E p \in Places : QueryLoad(p) \/ RangeBegin(p)
           \/ ListHours \/ RangeEnd
           \/ \E m \in left.movers : EndMove(m)
           \/ UNCHANGED vars
  <2>1. ASSUME NEW i \in DOMAIN calls, NEW p \in Places, Load(i, p) \/ Apply(i, p)
        PROVE  left' = left
    <3>1. CASE Load(i, p)
      BY <3>1 DEF Load
    <3>2. CASE Apply(i, p)
      BY <3>2 DEF Apply
    <3> QED  BY <2>1, <3>1, <3>2
  <2>2. CASE \E p \in Places : \E k \in DOMAIN opened[p] : Flush(p, k) \/ LoopExit(p, k)
    BY <1>1, <2>2 DEF Flush, LoopExit
  <2>3. CASE \E p \in Places : QueryLoad(p) \/ RangeBegin(p)
    BY <1>1, <2>3 DEF QueryLoad, RangeBegin
  <2>4. CASE \/ \E i \in DOMAIN calls : Answer(i)
             \/ ListHours \/ RangeEnd \/ (\E m \in left.movers : EndMove(m)) \/ UNCHANGED vars
    BY <1>1, <2>4 DEF Answer, ListHours, RangeEnd, EndMove, vars
  <2> QED  BY <1>1, <1>5, <2>1, <2>2, <2>3, <2>4
<1> QED  BY <1>3, <1>4, <1>5 DEF Next, CallStep

\* Only movers change the plans of movers.
LEMMA PlanUnchanged ==
  ASSUME [Next]_vars
  PROVE  \/ UNCHANGED plan
         \/ \E m \in left.movers : GetMovePlan(m) \/ RemoveOriginal(m) \/ EndMove(m)
         \/ Crash
<1>1. ASSUME NEW i \in DOMAIN calls, CallStep(i)
      PROVE  UNCHANGED plan
  BY <1>1 DEF CallStep, Load, LoadFails, Apply, Answer
<1>2. ASSUME NEW p \in Places, NEW k \in DOMAIN opened[p],
             Flush(p, k) \/ FlushFails(p, k) \/ LoopExit(p, k)
      PROVE  UNCHANGED plan
  BY <1>2 DEF Flush, FlushFails, LoopExit
<1>3. ASSUME NEW p \in Places, QueryLoad(p) \/ QueryFails(p) \/ RangeBegin(p)
      PROVE  UNCHANGED plan
  BY <1>3 DEF QueryLoad, QueryFails, RangeBegin
<1>4. CASE \/ \E r \in left.requests : Batch(r)
           \/ \E e \in left.reads : Get(e)
           \/ \E o \in Options : Query(o)
           \/ ListHours \/ RangeEnd \/ Stop \/ UNCHANGED vars
  BY <1>4 DEF Batch, Get, Query, ListHours, RangeEnd, Stop, vars
<1> QED  BY <1>1, <1>2, <1>3, <1>4 DEF Next

\* The plans of the movers.
LEMMA PlanShape ==
  ASSUME TypeInv, [Next]_vars
  PROVE  plan' \in [Movers -> PlanRecord]
<1>1. Shape /\ Pointers /\ Layered /\ Plans /\ plan \in [Movers -> PlanRecord]
  BY DEF TypeInv, Shape
<1>2. Idle \in PlanRecord
  BY DEF Idle, PlanRecord
<1>3. ASSUME NEW m \in left.movers, GetMovePlan(m)
      PROVE  plan' \in [Movers -> PlanRecord]
  <2>1. PICK e \in Entries : \E to \in LayersTo(e[1]) :
          plan' = [plan EXCEPT ![m] = [file |-> e, to |-> to, call |-> Len(calls) + 1,
                                       step |-> "copy"]]
    BY <1>1, <1>3, CopyBegins
  <2>2. PICK to \in LayerNames :
          plan' = [plan EXCEPT ![m] = [file |-> e, to |-> to, call |-> Len(calls) + 1,
                                       step |-> "copy"]]
    BY <2>1, MoveTo
  <2>3. [file |-> e, to |-> to, call |-> Len(calls) + 1, step |-> "copy"] \in PlanRecord
    BY <1>1, Numbers DEF PlanRecord
  <2> QED  BY <1>1, <2>2, <2>3
<1>4. ASSUME NEW m \in left.movers, RemoveOriginal(m)
      PROVE  plan' \in [Movers -> PlanRecord]
  <2>1. plan' = [plan EXCEPT ![m] = [plan[m] EXCEPT !.call = Len(calls) + 1, !.step = "remove"]]
        /\ m \in Movers
    BY <1>1, <1>4, RemoveBegins
  <2>2. plan[m] \in PlanRecord /\ Len(calls) + 1 \in Nat
    BY <1>1, <2>1, Numbers
  <2>3. [plan[m] EXCEPT !.call = Len(calls) + 1, !.step = "remove"] \in PlanRecord
    BY <2>2 DEF PlanRecord
  <2> QED  BY <1>1, <2>1, <2>3
<1>5. CASE (\E m \in left.movers : EndMove(m)) \/ Crash
  BY <1>1, <1>2, <1>5 DEF EndMove, Crash
<1> QED  BY <1>1, <1>3, <1>4, <1>5, PlanUnchanged

\* Which steps change the query and the map of the partitions.
LEMMA QueryUnchanged ==
  ASSUME [Next]_vars
  PROVE  \/ UNCHANGED <<query, parts>>
         \/ \E i \in DOMAIN calls : \E p \in Places : Apply(i, p)
         \/ \E o \in Options : Query(o)
         \/ ListHours
         \/ \E p \in Places : QueryLoad(p) \/ QueryFails(p) \/ RangeBegin(p)
         \/ RangeEnd
         \/ Crash
<1>1. ASSUME NEW i \in DOMAIN calls, CallStep(i)
      PROVE  UNCHANGED <<query, parts>> \/ \E p \in Places : Apply(i, p)
  BY <1>1 DEF CallStep, Load, LoadFails, Answer
<1>2. ASSUME NEW p \in Places, NEW k \in DOMAIN opened[p],
             Flush(p, k) \/ FlushFails(p, k) \/ LoopExit(p, k)
      PROVE  UNCHANGED <<query, parts>>
  BY <1>2 DEF Flush, FlushFails, LoopExit
<1>3. ASSUME NEW m \in left.movers, GetMovePlan(m) \/ RemoveOriginal(m) \/ EndMove(m)
      PROVE  UNCHANGED <<query, parts>>
  BY <1>3 DEF GetMovePlan, RemoveOriginal, EndMove
<1>4. CASE \/ \E r \in left.requests : Batch(r)
           \/ \E e \in left.reads : Get(e)
           \/ Stop \/ UNCHANGED vars
  BY <1>4 DEF Batch, Get, Stop, vars
<1> QED  BY <1>1, <1>2, <1>3, <1>4 DEF Next

\* A change of a partition changes at most what a Range that visits it sees.
LEMMA ApplyQuery ==
  ASSUME Shape, Pointers, NEW i \in DOMAIN calls, NEW p \in Places, Apply(i, p)
  PROVE  /\ query' \in QueryRecord
         /\ query'.layer = query.layer /\ query'.todo = query.todo /\ query'.after = query.after
         /\ query'.before = query.before /\ query'.got = query.got
         /\ query'.known = query.known /\ query'.loaded = query.loaded
         /\ query'.ranging = query.ranging
         /\ \/ query' = query
            \/ /\ query.ranging = <<p, FoundFor(i, p)>>
               /\ query'.must = query.must \cap opened'[p][FoundFor(i, p)].files
               /\ query'.may = query.may \cup opened'[p][FoundFor(i, p)].files
<1>1. FoundFor(i, p) \in DOMAIN opened[p] /\ query \in QueryRecord
      /\ (query' = query \/ AppliedTo(i, p, FoundFor(i, p)))
  BY ApplyPart DEF Shape
<1>2. CASE AppliedTo(i, p, FoundFor(i, p))
  <2>1. opened'[p] \in Seq(PartShape) /\ FoundFor(i, p) \in DOMAIN opened'[p]
    BY <1>1, <1>2 DEF AppliedTo
  <2>2. opened'[p][FoundFor(i, p)] \in PartShape
    BY <2>1
  <2>3. opened'[p][FoundFor(i, p)].files \in SUBSET Entries
    BY <2>2 DEF PartShape
  <2>4. query' = Disturbed(p, FoundFor(i, p), opened'[p][FoundFor(i, p)].files)
    BY <1>2 DEF AppliedTo
  <2> QED  BY <2>3, <2>4, DisturbedIs
<1> QED  BY <1>1, <1>2

\* The query and the map.
LEMMA QueryShape ==
  ASSUME TypeInv, [Next]_vars
  PROVE  query' \in QueryRecord /\ parts' \in [Places -> Nat]
<1>1. Shape /\ Pointers /\ Ranged /\ query \in QueryRecord /\ parts \in [Places -> Nat]
  BY DEF TypeInv, Shape
<1>2. ASSUME NEW i \in DOMAIN calls, NEW p \in Places, Apply(i, p)
      PROVE  query' \in QueryRecord /\ parts' \in [Places -> Nat]
  <2>1. FoundFor(i, p) \in DOMAIN opened[p] /\ parts' = [parts EXCEPT ![p] = FoundFor(i, p)]
    BY <1>1, <1>2, ApplyPart
  <2>2. FoundFor(i, p) \in Nat
    BY <1>1, <2>1, Numbers
  <2>3. query' \in QueryRecord
    BY <1>1, <1>2, ApplyQuery
  <2> QED  BY <1>1, <2>1, <2>2, <2>3
<1>3. CASE (\E o \in Options : Query(o)) \/ ListHours \/ RangeEnd
  <2>1. query' \in QueryRecord
    BY <1>1, <1>3, QueryBegins, HoursListed, RangeEnds
  <2> QED  BY <1>1, <1>3, <2>1 DEF Query, ListHours, RangeEnd
<1>4. ASSUME NEW p \in Places, QueryLoad(p) \/ QueryFails(p)
      PROVE  query' \in QueryRecord /\ parts' \in [Places -> Nat]
  <2>1. query' \in QueryRecord
    BY <1>1, <1>4, QueryLoaded, NoQueryIs DEF QueryFails
  <2> QED  BY <1>1, <1>4, <2>1 DEF QueryLoad, QueryFails
<1>5. ASSUME NEW p \in Places, RangeBegin(p)
      PROVE  query' \in QueryRecord /\ parts' \in [Places -> Nat]
  <2>1. PICK k \in DOMAIN opened[p] : parts' = [parts EXCEPT ![p] = k] /\ query' \in QueryRecord
    BY <1>1, <1>5, RangeBegins
  <2>2. k \in Nat
    BY <1>1, Numbers
  <2> QED  BY <1>1, <2>1, <2>2
<1>6. CASE Crash
  BY <1>1, <1>6, CrashParts, NoQueryIs DEF Crash
<1> QED  BY <1>1, <1>2, <1>3, <1>4, <1>5, <1>6, QueryUnchanged

\* What is stored, opened and called.
LEMMA StoreShape ==
  ASSUME TypeInv, [Next]_vars
  PROVE  /\ calls' \in Seq(CallRecord)
         /\ saved' \in [Places -> {None} \cup SUBSET Entries]
         /\ opened' \in [Places -> Seq(PartShape)]
         /\ log' \in [Places -> Seq(Nat)]
         /\ lock' \in [{"fs", "s3"} -> Nat]
         /\ dirs' \subseteq Places /\ twice' \subseteq Places
<1>1. Shape /\ Pointers /\ Layered /\ Plans
  BY DEF TypeInv
<1>2. /\ calls \in Seq(CallRecord) /\ saved \in [Places -> {None} \cup SUBSET Entries]
      /\ opened \in [Places -> Seq(PartShape)] /\ log \in [Places -> Seq(Nat)]
      /\ lock \in [{"fs", "s3"} -> Nat] /\ dirs \subseteq Places /\ twice \subseteq Places
  BY <1>1 DEF Shape
<1>3. CASE Quiet
  BY <1>2, <1>3 DEF Quiet, SameParts
<1>4. CASE Called
  BY <1>2, <1>4 DEF Called, Begins
<1>5. ASSUME NEW i \in DOMAIN calls, NEW p \in Places, Load(i, p) \/ LoadFails(i, p) \/ Apply(i, p)
      PROVE  lock' \in [{"fs", "s3"} -> Nat]
  <2>1. PICK todo : Hold(i, Backend(p), todo)
    BY <1>5 DEF Load, LoadFails, Apply
  <2> QED  BY <1>1, <1>2, <2>1, Numbers DEF Hold
<1>6. ASSUME NEW i \in DOMAIN calls, NEW p \in Places, Load(i, p)
      PROVE  /\ calls' \in Seq(CallRecord) /\ opened' \in [Places -> Seq(PartShape)]
             /\ UNCHANGED <<saved, log>> /\ dirs' \subseteq Places /\ twice' \subseteq Places
  <2>1. Open(p) /\ UNCHANGED <<saved, log>>
    BY <1>6 DEF Load
  <2>2. calls' \in Seq(CallRecord)
    BY <1>1, <1>6, LoadCall DEF Changed
  <2> QED  BY <1>1, <1>2, <2>1, <2>2, OpenFacts
<1>7. ASSUME NEW i \in DOMAIN calls, NEW p \in Places, LoadFails(i, p)
      PROVE  /\ calls' \in Seq(CallRecord) /\ UNCHANGED <<opened, saved, log, twice>>
             /\ dirs' \subseteq Places
  <2>1. UNCHANGED <<opened, saved, log, twice>> /\ dirs' \subseteq Places
    BY <1>2, <1>7 DEF LoadFails
  <2> QED  BY <1>1, <1>7, <2>1, LoadFailsCall DEF Changed
<1>8. ASSUME NEW i \in DOMAIN calls, NEW p \in Places, Apply(i, p)
      PROVE  /\ calls' \in Seq(CallRecord) /\ opened' \in [Places -> Seq(PartShape)]
             /\ log' \in [Places -> Seq(Nat)] /\ UNCHANGED <<saved, dirs, twice>>
  <2>1. calls' \in Seq(CallRecord)
    BY <1>1, <1>8, ApplyCall DEF Changed
  <2>2. opened' \in [Places -> Seq(PartShape)] /\ log' \in [Places -> Seq(Nat)]
    BY <1>1, <1>2, <1>8, ApplyPart DEF AppliedTo
  <2> QED  BY <1>8, <2>1, <2>2 DEF Apply
<1>9. ASSUME NEW i \in DOMAIN calls, Answer(i)
      PROVE  calls' \in Seq(CallRecord) /\ UNCHANGED <<opened, saved, log, twice, dirs, lock>>
  BY <1>1, <1>9, AnswerCall DEF Answer, Changed
<1>10. ASSUME NEW p \in Places, NEW k \in DOMAIN opened[p], Flush(p, k) \/ FlushFails(p, k)
       PROVE  /\ calls' \in Seq(CallRecord) /\ UNCHANGED <<log, twice, dirs, lock>>
              /\ saved' \in [Places -> {None} \cup SUBSET Entries]
              /\ opened' \in [Places -> Seq(PartShape)]
  <2>1. PICK bad \in BOOLEAN : Resolve(p, k, bad)
    BY <1>1, <1>10, FlushPart, FlushFailsPart
  <2>2. calls' \in Seq(CallRecord)
    BY <1>1, <2>1, ResolveCalls
  <2>3. saved' \in [Places -> {None} \cup SUBSET Entries] /\ opened' \in [Places -> Seq(PartShape)]
    <3>1. CASE Flush(p, k)
      BY <1>1, <3>1, FlushPart DEF Flushed
    <3>2. CASE FlushFails(p, k)
      BY <1>1, <1>2, <3>2, FlushFailsPart DEF FlushFails
    <3> QED  BY <1>10, <3>1, <3>2
  <2> QED  BY <1>10, <2>2, <2>3 DEF Flush, FlushFails
<1>11. ASSUME NEW p \in Places, QueryLoad(p)
       PROVE  /\ opened' \in [Places -> Seq(PartShape)] /\ UNCHANGED <<saved, log, calls, lock>>
              /\ dirs' \subseteq Places /\ twice' \subseteq Places
  <2>1. Open(p) /\ UNCHANGED <<saved, log, calls, lock>>
    BY <1>11 DEF QueryLoad
  <2> QED  BY <1>1, <1>2, <2>1, OpenFacts
<1>12. CASE Crash
  <2>1. lock' \in [{"fs", "s3"} -> Nat] /\ UNCHANGED <<saved, dirs, log, twice>>
    BY <1>2, <1>12 DEF Crash
  <2> QED  BY <1>1, <1>2, <1>12, <2>1, CrashCalls, CrashParts
<1> QED  BY <1>1, <1>2, <1>3, <1>4, <1>5, <1>6, <1>7, <1>8, <1>9, <1>10, <1>11, <1>12, Kinds

LEMMA ShapeStep ==
  ASSUME TypeInv, [Next]_vars
  PROVE  Shape'
<1>1. Shape
  BY DEF TypeInv
<1> QED  BY <1>1, ScenarioStep, PlanShape, QueryShape, StoreShape DEF Shape

\* The map points to a partition that was open before the step.
LEMMA MapStep ==
  ASSUME TypeInv, [Next]_vars, ~Crash, NEW p \in Places
  PROVE  parts'[p] = parts[p] \/ parts'[p] \in DOMAIN opened[p]
<1>1. Shape /\ Pointers /\ parts \in [Places -> Nat]
  BY DEF TypeInv, Shape
<1>2. ASSUME NEW i \in DOMAIN calls, NEW q \in Places, Apply(i, q)
      PROVE  parts'[p] = parts[p] \/ parts'[p] \in DOMAIN opened[p]
  <2>1. FoundFor(i, q) \in DOMAIN opened[q] /\ parts' = [parts EXCEPT ![q] = FoundFor(i, q)]
    BY <1>1, <1>2, ApplyPart
  <2> QED  BY <1>1, <2>1
<1>3. ASSUME NEW q \in Places, RangeBegin(q)
      PROVE  parts'[p] = parts[p] \/ parts'[p] \in DOMAIN opened[p]
  <2>1. PICK k \in DOMAIN opened[q] : parts' = [parts EXCEPT ![q] = k]
    BY <1>1, <1>3, RangeBegins
  <2> QED  BY <1>1, <2>1
<1>4. CASE \/ UNCHANGED <<query, parts>>
           \/ \E o \in Options : Query(o)
           \/ ListHours \/ RangeEnd
           \/ \E q \in Places : QueryLoad(q) \/ QueryFails(q)
  BY <1>4 DEF Query, ListHours, RangeEnd, QueryLoad, QueryFails
<1> QED  BY <1>2, <1>3, <1>4, QueryUnchanged

\* Only a call that changes a partition is logged.
LEMMA LogStep ==
  ASSUME TypeInv, [Next]_vars
  PROVE  \/ log' = log
         \/ \E i \in DOMAIN calls : \E p \in Places :
              Apply(i, p) /\ AppliedTo(i, p, FoundFor(i, p))
<1>1. Shape /\ Pointers /\ Layered /\ Plans
  BY DEF TypeInv
<1>2. CASE Quiet \/ Called \/ Crash
  BY <1>2 DEF Quiet, Called, Crash
<1>3. ASSUME NEW i \in DOMAIN calls, NEW p \in Places, Load(i, p) \/ LoadFails(i, p)
      PROVE  log' = log
  BY <1>3 DEF Load, LoadFails
<1>4. CASE \E i \in DOMAIN calls : Answer(i)
  BY <1>4 DEF Answer
<1>5. ASSUME NEW p \in Places, NEW k \in DOMAIN opened[p], Flush(p, k) \/ FlushFails(p, k)
      PROVE  log' = log
  BY <1>5 DEF Flush, FlushFails
<1>6. CASE \E p \in Places : QueryLoad(p)
  BY <1>6 DEF QueryLoad
<1>7. ASSUME NEW i \in DOMAIN calls, NEW p \in Places, Apply(i, p)
      PROVE  log' = log \/ AppliedTo(i, p, FoundFor(i, p))
  BY <1>1, <1>7, ApplyPart
<1> QED  BY <1>1, <1>2, <1>3, <1>4, <1>5, <1>6, <1>7, Kinds

\* A lock is held by a call.
LEMMA LockStep ==
  ASSUME TypeInv, [Next]_vars, NEW b \in {"fs", "s3"}
  PROVE  lock'[b] # 0 => lock'[b] \in DOMAIN calls'
<1>1. Shape /\ Pointers /\ Layered /\ Plans /\ lock \in [{"fs", "s3"} -> Nat]
  BY DEF TypeInv, Shape
<1>2. (lock[b] # 0 => lock[b] \in DOMAIN calls) /\ DOMAIN calls \subseteq DOMAIN calls'
  BY <1>1, Growth DEF Pointers
<1>3. ASSUME NEW i \in DOMAIN calls, NEW p \in Places, Load(i, p) \/ LoadFails(i, p) \/ Apply(i, p)
      PROVE  lock'[b] # 0 => lock'[b] \in DOMAIN calls'
  <2>1. PICK todo : Hold(i, Backend(p), todo)
    BY <1>3 DEF Load, LoadFails, Apply
  <2> QED  BY <1>1, <1>2, <2>1 DEF Hold
<1>4. CASE Quiet \/ Called \/ \E p \in Places : QueryLoad(p)
  BY <1>2, <1>4 DEF Quiet, Called, QueryLoad
<1>5. CASE \E i \in DOMAIN calls : Answer(i)
  BY <1>2, <1>5 DEF Answer
<1>6. ASSUME NEW p \in Places, NEW k \in DOMAIN opened[p], Flush(p, k) \/ FlushFails(p, k)
      PROVE  lock' = lock
  BY <1>6 DEF Flush, FlushFails
<1>7. CASE Crash
  BY <1>1, <1>7 DEF Crash
<1> QED  BY <1>1, <1>2, <1>3, <1>4, <1>5, <1>6, <1>7, Kinds

\* The calls a partition will answer are calls.
LEMMA WaitingStep ==
  ASSUME TypeInv, [Next]_vars, NEW p \in Places, NEW k \in DOMAIN opened'[p]
  PROVE  opened'[p][k].waiting \subseteq DOMAIN calls'
<1>1. Shape /\ Pointers /\ Layered /\ Plans
  BY DEF TypeInv
<1>2. DOMAIN calls \subseteq DOMAIN calls'
  BY Growth
<1>3. \A q \in Places : \A j \in DOMAIN opened[q] : opened[q][j].waiting \subseteq DOMAIN calls'
  BY <1>1, <1>2 DEF Pointers
<1>4. CASE Quiet
  BY <1>3, <1>4 DEF Quiet, SameParts
<1>5. CASE Called \/ \E i \in DOMAIN calls : Answer(i)
  BY <1>3, <1>5 DEF Called, Answer
<1>6. ASSUME NEW i \in DOMAIN calls, NEW q \in Places, LoadFails(i, q)
      PROVE  opened'[p][k].waiting \subseteq DOMAIN calls'
  BY <1>3, <1>6 DEF LoadFails
<1>7. ASSUME NEW q \in Places, Open(q)
      PROVE  opened'[p][k].waiting \subseteq DOMAIN calls'
  BY <1>1, <1>3, <1>7, OpenFacts
<1>8. ASSUME NEW i \in DOMAIN calls, NEW q \in Places, Apply(i, q)
      PROVE  opened'[p][k].waiting \subseteq DOMAIN calls'
  <2>1. CASE opened' = opened
    BY <1>3, <2>1
  <2>2. CASE AppliedTo(i, q, FoundFor(i, q))
    <3>1. CASE p = q /\ k = FoundFor(i, q)
      BY <1>2, <1>3, <2>2, <3>1 DEF AppliedTo
    <3>2. CASE ~(p = q /\ k = FoundFor(i, q))
      BY <1>3, <2>2, <3>2 DEF AppliedTo
    <3> QED  BY <3>1, <3>2
  <2>3. opened' = opened \/ AppliedTo(i, q, FoundFor(i, q))
    BY <1>1, <1>8, ApplyPart
  <2> QED  BY <2>1, <2>2, <2>3
<1>9. ASSUME NEW q \in Places, NEW j \in DOMAIN opened[q], Flush(q, j) \/ FlushFails(q, j)
      PROVE  opened'[p][k].waiting \subseteq DOMAIN calls'
  <2>1. CASE Flush(q, j)
    <3>1. PICK files : Flushed(q, j, files)
      BY <1>1, <2>1, FlushPart
    <3> QED  BY <1>3, <3>1 DEF Flushed
  <2>2. CASE FlushFails(q, j)
    BY <1>1, <1>3, <2>2, FlushFailsPart
  <2> QED  BY <1>9, <2>1, <2>2
<1>10. CASE Crash
  BY <1>1, <1>10, CrashParts
<1> QED  BY <1>1, <1>4, <1>5, <1>6, <1>7, <1>8, <1>9, <1>10, Kinds DEF Load, QueryLoad

\* The partition a call has opened is there.
LEMMA LoadedStep ==
  ASSUME TypeInv, [Next]_vars, NEW i \in DOMAIN calls'
  PROVE  Held(calls[i].loaded)'
<1>1. Shape /\ Pointers /\ Layered /\ Plans /\ Answered
  BY DEF TypeInv
<1>2. \A j \in DOMAIN calls : Held(calls[j].loaded)
  BY <1>1 DEF Pointers
<1>3. \A j \in DOMAIN calls : calls[j].loaded # None => calls[j].loaded[1] \in Places
  BY <1>1, Numbers DEF CallRecord
<1>4. Crash \/ \A p \in Places : DOMAIN opened[p] \subseteq DOMAIN opened'[p]
  BY Growth
<1>5. ASSUME ~Crash, NEW j \in DOMAIN calls, calls'[i].loaded = calls[j].loaded
      PROVE  Held(calls[i].loaded)'
  BY <1>2, <1>3, <1>4, <1>5 DEF Held
<1>6. ASSUME calls'[i].loaded = None
      PROVE  Held(calls[i].loaded)'
  BY <1>6 DEF Held
<1>7. CASE Crash
  BY <1>1, <1>6, <1>7, CrashCalls DEF Answered
<1>8. CASE ~Crash /\ (Quiet \/ \E p \in Places : QueryLoad(p))
  BY <1>5, <1>7, <1>8 DEF Quiet, QueryLoad
<1>9. CASE ~Crash /\ Called
  BY <1>5, <1>6, <1>9 DEF Called, Begins
<1>10. ASSUME ~Crash, NEW j \in DOMAIN calls, NEW p \in Places, Load(j, p)
       PROVE  Held(calls[i].loaded)'
  <2>1. DOMAIN calls' = DOMAIN calls /\ (\A n \in DOMAIN calls : n # j => calls'[n] = calls[n])
        /\ calls'[j].loaded = <<p, Len(opened[p]) + 1>>
    BY <1>1, <1>10, LoadCall DEF Changed
  <2>2. Len(opened[p]) + 1 \in DOMAIN opened'[p]
    BY <1>1, <1>10, OpenFacts DEF Load
  <2>3. CASE i = j
    BY <2>1, <2>2, <2>3 DEF Held
  <2>4. CASE i # j
    BY <1>5, <1>10, <2>1, <2>4
  <2> QED  BY <2>3, <2>4
<1>11. ASSUME ~Crash, NEW j \in DOMAIN calls, NEW p \in Places,
              LoadFails(j, p) \/ Apply(j, p)
       PROVE  Held(calls[i].loaded)'
  <2>1. DOMAIN calls' = DOMAIN calls /\ (\A n \in DOMAIN calls : n # j => calls'[n] = calls[n])
        /\ calls'[j].loaded \in {None, calls[j].loaded}
    BY <1>1, <1>11, LoadFailsCall, ApplyCall DEF Changed
  <2> QED  BY <1>5, <1>6, <1>11, <2>1
<1>12. ASSUME ~Crash, NEW p \in Places, NEW k \in DOMAIN opened[p], Flush(p, k) \/ FlushFails(p, k)
       PROVE  Held(calls[i].loaded)'
  <2>1. PICK bad \in BOOLEAN : Resolve(p, k, bad)
    BY <1>1, <1>12, FlushPart, FlushFailsPart
  <2> QED  BY <1>1, <1>5, <1>12, <2>1, ResolveCalls
<1>13. ASSUME ~Crash, NEW j \in DOMAIN calls, Answer(j)
       PROVE  Held(calls[i].loaded)'
  BY <1>1, <1>5, <1>13, AnswerCall DEF Changed
<1> QED  BY <1>1, <1>7, <1>8, <1>9, <1>10, <1>11, <1>12, <1>13, Kinds

\* The partitions the query has opened and visits are there.
LEMMA VisitedStep ==
  ASSUME TypeInv, [Next]_vars
  PROVE  Held(query.loaded)' /\ Held(query.ranging)'
<1>1. Shape /\ Pointers /\ Ranged /\ Held(query.loaded) /\ Held(query.ranging)
  BY DEF TypeInv, Pointers
<1>2. query.loaded \in Opened /\ query.ranging \in Opened
  BY <1>1 DEF Shape, QueryRecord
<1>3. Crash \/ \A p \in Places : DOMAIN opened[p] \subseteq DOMAIN opened'[p]
  BY Growth
<1>4. ASSUME NEW x \in Opened, Held(x), ~Crash
      PROVE  x # None => x[2] \in DOMAIN opened'[x[1]]
  BY <1>3, <1>4 DEF Held, Opened
<1>5. ASSUME query'.loaded = None, query'.ranging = None
      PROVE  Held(query.loaded)' /\ Held(query.ranging)'
  BY <1>5 DEF Held
<1>6. CASE Crash \/ (\E o \in Options : Query(o)) \/ \E p \in Places : QueryFails(p)
  BY <1>1, <1>5, <1>6, QueryBegins, NoQueryIs DEF Crash, QueryFails
<1>7. ASSUME ~Crash, query'.loaded \in {None, query.loaded}, query'.ranging \in {None, query.ranging}
      PROVE  Held(query.loaded)' /\ Held(query.ranging)'
  BY <1>1, <1>2, <1>4, <1>7 DEF Held
<1>8. CASE ListHours
  BY <1>1, <1>6, <1>7, <1>8, HoursListed
<1>9. CASE RangeEnd
  BY <1>1, <1>6, <1>7, <1>9, RangeEnds
<1>10. ASSUME NEW p \in Places, QueryLoad(p), ~Crash
       PROVE  Held(query.loaded)' /\ Held(query.ranging)'
  <2>1. query'.loaded = <<p, Len(opened[p]) + 1>> /\ query'.ranging = query.ranging
    BY <1>1, <1>10, QueryLoaded
  <2>2. Len(opened[p]) + 1 \in DOMAIN opened'[p]
    BY <1>1, <1>10, OpenFacts DEF QueryLoad
  <2>3. Held(query.loaded)'
    BY <2>1, <2>2 DEF Held
  <2>4. Held(query.ranging)'
    BY <1>1, <1>2, <1>4, <1>10, <2>1 DEF Held
  <2> QED  BY <2>3, <2>4
<1>11. ASSUME NEW p \in Places, RangeBegin(p), ~Crash
       PROVE  Held(query.loaded)' /\ Held(query.ranging)'
  <2>1. PICK k \in DOMAIN opened[p] : query'.loaded = None /\ query'.ranging = <<p, k>>
    BY <1>1, <1>11, RangeBegins
  <2>2. k \in DOMAIN opened'[p]
    BY <1>3, <1>11
  <2> QED  BY <2>1, <2>2 DEF Held
<1>12. ASSUME NEW i \in DOMAIN calls, NEW p \in Places, Apply(i, p), ~Crash
       PROVE  Held(query.loaded)' /\ Held(query.ranging)'
  <2>1. query'.loaded = query.loaded /\ query'.ranging = query.ranging
    BY <1>1, <1>12, ApplyQuery
  <2> QED  BY <1>7, <1>12, <2>1
<1> QED  BY <1>6, <1>7, <1>8, <1>9, <1>10, <1>11, <1>12, QueryUnchanged

LEMMA PointersStep ==
  ASSUME TypeInv, [Next]_vars
  PROVE  Pointers'
<1>1. Shape /\ Pointers
  BY DEF TypeInv
<1>2. ASSUME NEW p \in Places
      PROVE  parts'[p] # 0 => parts'[p] \in DOMAIN opened'[p]
  <2>1. CASE Crash
    BY <1>1, <2>1, CrashParts
  <2>2. CASE ~Crash
    <3>1. parts'[p] # 0 => parts'[p] \in DOMAIN opened[p]
      BY <1>1, <2>2, MapStep DEF Pointers
    <3>2. DOMAIN opened[p] \subseteq DOMAIN opened'[p]
      BY <2>2, Growth
    <3> QED  BY <3>1, <3>2
  <2> QED  BY <2>1, <2>2
<1>3. ASSUME NEW p \in Places, NEW n \in DOMAIN log'[p]
      PROVE  log'[p][n] \in DOMAIN calls'
  <2>1. DOMAIN calls \subseteq DOMAIN calls'
    BY Growth
  <2>2. CASE log' = log
    BY <1>1, <2>1, <2>2 DEF Pointers
  <2>3. ASSUME NEW i \in DOMAIN calls, NEW q \in Places, AppliedTo(i, q, FoundFor(i, q))
        PROVE  log'[p][n] \in DOMAIN calls
    BY <1>1, <2>3 DEF AppliedTo, Pointers
  <2> QED  BY <2>1, <2>2, <2>3, LogStep
<1>4. \A b \in {"fs", "s3"} : lock'[b] # 0 => lock'[b] \in DOMAIN calls'
  BY LockStep
<1>5. \A p \in Places : \A k \in DOMAIN opened'[p] : opened'[p][k].waiting \subseteq DOMAIN calls'
  BY WaitingStep
<1>6. \A i \in DOMAIN calls' : Held(calls[i].loaded)'
  BY LoadedStep
<1> QED  BY <1>2, <1>3, <1>4, <1>5, <1>6, VisitedStep DEF Pointers

\* What a partition saves and holds stays in its place.
LEMMA InPlaceStep ==
  ASSUME TypeInv, [Next]_vars
  PROVE  InPlace'
<1>1. Shape /\ Pointers /\ Layered /\ Plans /\ InPlace
  BY DEF TypeInv
<1>2. ASSUME NEW p \in Places
      PROVE  /\ \A e \in SavedAt(p) : Place(e) = p
             /\ \A k \in DOMAIN opened[p] : \A e \in opened[p][k].files \cup opened[p][k].add :
                  Place(e) = p
  BY <1>1 DEF InPlace
<1>3. CASE Quiet
  BY <1>2, <1>3 DEF Quiet, SameParts, InPlace, SavedAt
<1>4. ASSUME saved' = saved, opened' = opened
      PROVE  InPlace'
  BY <1>2, <1>4 DEF InPlace, SavedAt
<1>5. CASE Called \/ \E i \in DOMAIN calls : Answer(i)
  BY <1>4, <1>5 DEF Called, Answer
<1>6. ASSUME NEW p \in Places, Open(p), saved' = saved
      PROVE  InPlace'
  <2>1. \A q \in Places : \A e \in SavedAt(q)' : Place(e) = q
    BY <1>2, <1>6 DEF SavedAt
  <2>2. ASSUME NEW q \in Places, NEW k \in DOMAIN opened'[q],
               NEW e \in opened'[q][k].files \cup opened'[q][k].add
        PROVE  Place(e) = q
    <3>1. CASE q = p /\ k = Len(opened[p]) + 1
      BY <1>1, <1>2, <1>6, <2>2, <3>1, OpenFacts
    <3>2. CASE ~(q = p /\ k = Len(opened[p]) + 1)
      <4>1. k \in DOMAIN opened[q] /\ opened'[q][k] = opened[q][k]
        BY <1>1, <1>6, <3>2, OpenFacts
      <4> QED  BY <1>2, <2>2, <4>1
    <3> QED  BY <3>1, <3>2
  <2> QED  BY <2>1, <2>2 DEF InPlace
<1>7. ASSUME NEW i \in DOMAIN calls, NEW p \in Places, Load(i, p)
      PROVE  InPlace'
  BY <1>6, <1>7 DEF Load
<1>8. ASSUME NEW p \in Places, QueryLoad(p)
      PROVE  InPlace'
  BY <1>6, <1>8 DEF QueryLoad
<1>9. ASSUME NEW i \in DOMAIN calls, NEW p \in Places, LoadFails(i, p)
      PROVE  InPlace'
  BY <1>4, <1>9 DEF LoadFails
<1>10. ASSUME NEW i \in DOMAIN calls, NEW p \in Places, Apply(i, p)
       PROVE  InPlace'
  <2>1. saved' = saved
    BY <1>10 DEF Apply
  <2>2. CASE opened' = opened
    BY <1>4, <2>1, <2>2
  <2>3. CASE AppliedTo(i, p, FoundFor(i, p))
    <3>1. FoundFor(i, p) \in DOMAIN opened[p]
      BY <1>1, <1>10, ApplyPart
    <3>2. \A e \in Of(calls[i].add, p) : Place(e) = p
      BY DEF Of
    <3>3. ASSUME NEW q \in Places, NEW k \in DOMAIN opened'[q],
                 NEW e \in opened'[q][k].files \cup opened'[q][k].add
          PROVE  Place(e) = q
      <4>1. CASE q = p /\ k = FoundFor(i, p)
        <5>1. e \in opened[p][k].files \cup opened[p][k].add \/ e \in Of(calls[i].add, p)
          BY <2>3, <3>3, <4>1 DEF AppliedTo
        <5> QED  BY <1>2, <3>1, <3>2, <4>1, <5>1
      <4>2. CASE ~(q = p /\ k = FoundFor(i, p))
        <5>1. k \in DOMAIN opened[q] /\ opened'[q][k] = opened[q][k]
          BY <2>3, <4>2 DEF AppliedTo
        <5> QED  BY <1>2, <3>3, <5>1
      <4> QED  BY <4>1, <4>2
    <3>4. \A q \in Places : \A e \in SavedAt(q)' : Place(e) = q
      BY <1>2, <2>1 DEF SavedAt
    <3> QED  BY <3>3, <3>4 DEF InPlace
  <2> QED  BY <1>1, <1>10, <2>2, <2>3, ApplyPart
<1>11. ASSUME NEW p \in Places, NEW k \in DOMAIN opened[p], Flush(p, k)
       PROVE  InPlace'
  <2>1. PICK files : /\ Flushed(p, k, files)
                     /\ \/ files = opened[p][k].files
                        \/ files \subseteq SavedAt(p) \cup opened[p][k].add
    BY <1>1, <1>11, FlushPart
  <2>2. \A e \in files : Place(e) = p
    BY <1>2, <2>1
  <2>3. \A q \in Places : \A e \in SavedAt(q)' : Place(e) = q
    BY <1>2, <2>1, <2>2 DEF SavedAt, Flushed
  <2>4. ASSUME NEW q \in Places, NEW j \in DOMAIN opened'[q],
               NEW e \in opened'[q][j].files \cup opened'[q][j].add
        PROVE  Place(e) = q
    <3>1. CASE q = p /\ j = k
      BY <2>1, <2>2, <2>4, <3>1 DEF Flushed
    <3>2. CASE ~(q = p /\ j = k)
      <4>1. j \in DOMAIN opened[q] /\ opened'[q][j].files = opened[q][j].files
            /\ opened'[q][j].add = opened[q][j].add
        BY <2>1, <3>2 DEF Flushed
      <4> QED  BY <1>2, <2>4, <4>1
    <3> QED  BY <3>1, <3>2
  <2> QED  BY <2>3, <2>4 DEF InPlace
<1>12. ASSUME NEW p \in Places, NEW k \in DOMAIN opened[p], FlushFails(p, k)
       PROVE  InPlace'
  <2>1. saved' = saved
    BY <1>12 DEF FlushFails
  <2>2. \A q \in Places : \A j \in DOMAIN opened'[q] :
          /\ j \in DOMAIN opened[q] /\ opened'[q][j].files = opened[q][j].files
          /\ opened'[q][j].add \subseteq opened[q][j].add
    BY <1>1, <1>12, FlushFailsPart
  <2> QED  BY <1>2, <2>1, <2>2 DEF InPlace, SavedAt
<1>13. CASE Crash
  <2>1. saved' = saved
    BY <1>13 DEF Crash
  <2>2. \A q \in Places : \A j \in DOMAIN opened'[q] :
          opened'[q][j].files = SavedAt(q) /\ opened'[q][j].add = {}
    BY <1>1, <1>13, CrashParts
  <2> QED  BY <1>2, <2>1, <2>2 DEF InPlace, SavedAt
<1> QED  BY <1>1, <1>3, <1>5, <1>7, <1>8, <1>9, <1>10, <1>11, <1>12, <1>13, Kinds

\* An hour that is listed is one of the layer.
LEMMA Listed ==
  ASSUME NEW n, NEW o, NEW p \in Places
  PROVE  findHours(n, o)[p] > 0 => p \in Hours(n)
<1> DEFINE earlier == {q \in Hours(n) : o.before = 0 \/ 2 * q[2] < o.before}
           between == {q \in earlier : o.after = 0 \/ q[2] >= RoundedHour(o.after)}
           kept    == {q \in earlier : o.before # 0 /\ o.after # 0 /\ KeepsEarlier(q[1])}
<1>1. findHours(n, o)[p] = Cardinality({p} \cap between) + Cardinality({p} \cap kept)
  BY DEF findHours
<1>2. between \subseteq Hours(n) /\ kept \subseteq Hours(n)
  OBVIOUS
<1> HIDE DEF between, kept, earlier
<1> QED  BY <1>1, <1>2, OneAtMost

\* What a query still has to do in a place.
LEMMA TodoStep ==
  ASSUME TypeInv, [Next]_vars, NEW p \in Places
  PROVE  \/ query'.todo[p] = query.todo[p]
         \/ query'.todo[p] = 0
         \/ ListHours
         \/ RangeEnd /\ p = query.ranging[1] /\ query'.todo[p] = query.todo[p] - 1
<1>1. Shape /\ Pointers /\ Ranged /\ query.todo \in [Places -> Nat]
  BY DEF TypeInv, Shape, QueryRecord
<1>2. Zero[p] = 0
  BY DEF Zero
<1>3. ASSUME NEW q \in Places, QueryLoad(q) \/ RangeBegin(q)
      PROVE  query'.todo = query.todo
  BY <1>1, <1>3, QueryLoaded, RangeBegins
<1>4. ASSUME NEW i \in DOMAIN calls, NEW q \in Places, Apply(i, q)
      PROVE  query'.todo = query.todo
  BY <1>1, <1>4, ApplyQuery
<1>5. CASE Crash \/ (\E o \in Options : Query(o)) \/ \E q \in Places : QueryFails(q)
  BY <1>1, <1>2, <1>5, QueryBegins, NoQueryIs DEF Crash, QueryFails
<1>6. CASE RangeEnd
  <2>1. query.ranging[1] \in Places
        /\ query'.todo = [query.todo EXCEPT ![query.ranging[1]] = @ - 1]
    BY <1>1, <1>6, RangeEnds
  <2> QED  BY <1>1, <1>6, <2>1
<1> QED  BY <1>3, <1>4, <1>5, <1>6, QueryUnchanged

LEMMA LayeredStep ==
  ASSUME TypeInv, [Next]_vars
  PROVE  Layered'
<1>1. Shape /\ Pointers /\ Layered /\ Plans
  BY DEF TypeInv
<1>2. ASSUME NEW p \in Places
      PROVE  /\ \/ saved[p] # None \/ opened[p] # <<>> \/ log[p] # <<>> \/ query.todo[p] > 0
                => p[1] \in LayerNames
             /\ saved[p] # None \/ opened[p] # <<>> => isS3Layer(p[1]) \/ p \in dirs
  BY <1>1 DEF Layered
<1>3. ASSUME NEW p \in Places
      PROVE  query'.todo[p] > 0 => p[1] \in LayerNames
  <2>1. query.todo[p] \in Nat
    BY <1>1 DEF Shape, QueryRecord
  <2>2. CASE ListHours
    <3>1. query'.todo = findHours(query.layer + 1, query)
      BY <1>1, <2>2, HoursListed
    <3>2. query'.todo[p] > 0 => p \in Hours(query.layer + 1)
      BY <3>1, Listed
    <3> QED  BY <3>2 DEF Hours
  <2>3. CASE ~ListHours
    <3>1. query'.todo[p] = query.todo[p] \/ query'.todo[p] = 0 \/ query'.todo[p] = query.todo[p] - 1
      BY <2>3, TodoStep
    <3>2. query'.todo[p] > 0 => query.todo[p] > 0
      BY <2>1, <3>1
    <3> QED  BY <1>2, <3>2
  <2> QED  BY <2>2, <2>3
<1> DEFINE Kept(p) == /\ saved'[p] # None \/ opened'[p] # <<>> \/ log'[p] # <<>> => p[1] \in LayerNames
                      /\ saved'[p] # None \/ opened'[p] # <<>> => isS3Layer(p[1]) \/ p \in dirs'
<1>4. ASSUME NEW p \in Places, opened'[p] = <<>> <=> opened[p] = <<>>, saved'[p] = saved[p],
             log'[p] = log[p], dirs \subseteq dirs'
      PROVE  Kept(p)
  BY <1>2, <1>4
<1>5. ASSUME Quiet \/ Called, NEW p \in Places
      PROVE  Kept(p)
  BY <1>4, <1>5 DEF Quiet, SameParts, Called
<1>6. ASSUME NEW i \in DOMAIN calls, Answer(i), NEW p \in Places
      PROVE  Kept(p)
  BY <1>4, <1>6 DEF Answer
<1>7. ASSUME NEW q \in Places, Open(q), UNCHANGED <<saved, log>>, q[1] \in LayerNames,
             NEW p \in Places
      PROVE  Kept(p)
  <2>1. dirs \subseteq dirs' /\ (isS3Layer(q[1]) \/ q \in dirs')
        /\ (p # q => opened'[p] = opened[p])
    BY <1>1, <1>7, OpenFacts
  <2> QED  BY <1>2, <1>7, <2>1
<1>8. ASSUME NEW i \in DOMAIN calls, NEW q \in Places, Load(i, q), NEW p \in Places
      PROVE  Kept(p)
  BY <1>7, <1>8 DEF Load
<1>9. ASSUME NEW q \in Places, QueryLoad(q), NEW p \in Places
      PROVE  Kept(p)
  BY <1>2, <1>7, <1>9 DEF QueryLoad, QueryAt
<1>10. ASSUME NEW i \in DOMAIN calls, NEW q \in Places, LoadFails(i, q), NEW p \in Places
       PROVE  Kept(p)
  <2>1. dirs \subseteq dirs' /\ UNCHANGED <<saved, opened, log>>
    BY <1>10 DEF LoadFails
  <2> QED  BY <1>4, <2>1
<1>11. ASSUME NEW i \in DOMAIN calls, NEW q \in Places, Apply(i, q), NEW p \in Places
       PROVE  Kept(p)
  <2>1. UNCHANGED <<saved, dirs>>
    BY <1>11 DEF Apply
  <2>2. CASE UNCHANGED <<opened, log>>
    BY <1>4, <2>1, <2>2
  <2>3. CASE AppliedTo(i, q, FoundFor(i, q))
    <3>1. FoundFor(i, q) \in DOMAIN opened[q]
      BY <1>1, <1>11, ApplyPart
    <3>2. opened[q] # <<>>
      BY <3>1
    <3> QED  BY <1>2, <2>1, <2>3, <3>2 DEF AppliedTo
  <2> QED  BY <1>1, <1>11, <2>2, <2>3, ApplyPart
<1>12. ASSUME NEW q \in Places, NEW k \in DOMAIN opened[q], Flush(q, k) \/ FlushFails(q, k),
              NEW p \in Places
       PROVE  Kept(p)
  <2>1. UNCHANGED <<dirs, log>>
    BY <1>12 DEF Flush, FlushFails
  <2>2. p # q => saved'[p] = saved[p] /\ opened'[p] = opened[p]
    <3>1. CASE Flush(q, k)
      <4>1. PICK files : Flushed(q, k, files)
        BY <1>1, <3>1, FlushPart
      <4> QED  BY <4>1 DEF Flushed
    <3>2. CASE FlushFails(q, k)
      <4>1. saved' = saved
        BY <3>2 DEF FlushFails
      <4> QED  BY <1>1, <3>2, <4>1, FlushFailsPart
    <3> QED  BY <1>12, <3>1, <3>2
  <2>3. opened[q] # <<>>
    OBVIOUS
  <2> QED  BY <1>2, <2>1, <2>2, <2>3
<1>13. ASSUME Crash, NEW p \in Places
       PROVE  Kept(p)
  <2>1. UNCHANGED <<saved, dirs, log>>
    BY <1>13 DEF Crash
  <2>2. saved[p] = None => opened'[p] = <<>>
    BY <1>1, <1>13, CrashParts
  <2> QED  BY <1>2, <2>1, <2>2
<1>14. ASSUME NEW p \in Places
       PROVE  Kept(p)
  <2> HIDE DEF Kept
  <2> QED  BY <1>1, <1>5, <1>6, <1>8, <1>9, <1>10, <1>11, <1>12, <1>13, Kinds
<1> QED  BY <1>3, <1>14 DEF Layered

LEMMA RangedStep ==
  ASSUME TypeInv, [Next]_vars
  PROVE  Ranged'
<1>1. Shape /\ Pointers /\ Ranged /\ query \in QueryRecord
  BY DEF TypeInv, Shape
<1>2. query'.ranging = None => Ranged'
  BY DEF Ranged
<1>3. CASE Crash \/ (\E o \in Options : Query(o)) \/ (\E p \in Places : QueryFails(p))
  BY <1>1, <1>2, <1>3, QueryBegins, NoQueryIs DEF Crash, QueryFails
<1>4. CASE UNCHANGED <<query, parts>>
  BY <1>1, <1>4 DEF Ranged
<1>5. CASE ListHours
  <2>1. query.todo = Zero /\ query'.ranging = query.ranging
    BY <1>1, <1>5, HoursListed
  <2>2. query.ranging # None => query.ranging[1] \in Places
    BY <1>1 DEF QueryRecord, Opened
  <2>3. query.ranging = None
    BY <1>1, <2>1, <2>2 DEF Ranged, Zero
  <2> QED  BY <1>2, <2>1, <2>3
<1>6. CASE RangeEnd
  BY <1>1, <1>2, <1>6, RangeEnds
<1>7. CASE \E p \in Places : QueryLoad(p)
  BY <1>1, <1>2, <1>7, QueryLoaded
<1>8. ASSUME NEW p \in Places, RangeBegin(p)
      PROVE  Ranged'
  <2>1. PICK k \in DOMAIN opened[p] :
          /\ query'.ranging = <<p, k>> /\ query'.may = opened[p][k].files
          /\ query'.todo = query.todo /\ query.todo[p] > 0
    BY <1>1, <1>8, RangeBegins
  <2>2. \A e \in opened[p][k].files : Place(e) = p
    BY DEF TypeInv, InPlace
  <2> QED  BY <2>1, <2>2 DEF Ranged
<1>9. ASSUME NEW i \in DOMAIN calls, NEW p \in Places, Apply(i, p)
      PROVE  Ranged'
  <2> DEFINE k == FoundFor(i, p)
  <2>1. /\ query'.todo = query.todo /\ query'.ranging = query.ranging
        /\ \/ query' = query
           \/ query.ranging = <<p, k>> /\ query'.may = query.may \cup opened'[p][k].files
    BY <1>1, <1>9, ApplyQuery
  <2>2. k \in DOMAIN opened'[p]
    <3>1. k \in DOMAIN opened[p] /\ (opened' = opened \/ AppliedTo(i, p, k))
      BY <1>1, <1>9, ApplyPart
    <3> QED  BY <3>1 DEF AppliedTo
  <2>3. \A e \in opened'[p][k].files : Place(e) = p
    BY <2>2, InPlaceStep DEF InPlace
  <2> HIDE DEF k
  <2> QED  BY <1>1, <2>1, <2>3 DEF Ranged
<1> QED  BY <1>3, <1>4, <1>5, <1>6, <1>7, <1>8, <1>9, QueryUnchanged

LEMMA PlansStep ==
  ASSUME TypeInv, [Next]_vars
  PROVE  Plans'
<1>1. Shape /\ Pointers /\ Layered /\ Plans /\ plan \in [Movers -> PlanRecord]
  BY DEF TypeInv, Shape
<1>2. /\ DOMAIN calls \subseteq DOMAIN calls'
      /\ \A i \in DOMAIN calls : calls'[i].add = calls[i].add
  BY Growth DEF SameRequest
<1> DEFINE Planned(m) ==
             /\ plan'[m].step = "idle" => plan'[m] = Idle
             /\ plan'[m].step # "idle" => plan'[m].call \in DOMAIN calls'
             /\ plan'[m].step = "copy" =>
                  /\ plan'[m].file \in Entries /\ plan'[m].file[1] \in LayerNames
                  /\ plan'[m].to \in LayersTo(plan'[m].file[1])
                  /\ <<plan'[m].to, plan'[m].file[2]>> \in calls'[plan'[m].call].add
<1>3. ASSUME NEW m \in Movers, plan'[m] = plan[m]
      PROVE  Planned(m)
  BY <1>1, <1>2, <1>3 DEF Plans
<1>4. ASSUME NEW m \in Movers, plan'[m] = Idle
      PROVE  Planned(m)
  BY <1>4 DEF Idle
<1>5. ASSUME NEW m \in left.movers, GetMovePlan(m), NEW n \in Movers
      PROVE  Planned(n)
  <2>1. PICK e \in Entries : \E to \in LayersTo(e[1]) :
          /\ e[1] \in LayerNames
          /\ Begins(m, {<<to, e[2]>>}, {}, {Place(<<to, e[2]>>)})
          /\ plan' = [plan EXCEPT ![m] = [file |-> e, to |-> to, call |-> Len(calls) + 1,
                                          step |-> "copy"]]
    BY <1>1, <1>5, CopyBegins
  <2>2. PICK to \in LayersTo(e[1]) :
          /\ Begins(m, {<<to, e[2]>>}, {}, {Place(<<to, e[2]>>)})
          /\ plan' = [plan EXCEPT ![m] = [file |-> e, to |-> to, call |-> Len(calls) + 1,
                                          step |-> "copy"]]
    BY <2>1
  <2>3. CASE n # m
    BY <1>1, <1>3, <2>2, <2>3
  <2>4. CASE n = m
    <3>1. plan'[n] = [file |-> e, to |-> to, call |-> Len(calls) + 1, step |-> "copy"]
      BY <1>1, <2>2, <2>4
    <3>2. Len(calls) + 1 \in DOMAIN calls' /\ calls'[Len(calls) + 1].add = {<<to, e[2]>>}
      BY <2>2 DEF Begins
    <3> QED  BY <2>1, <3>1, <3>2
  <2> QED  BY <2>3, <2>4
<1>6. ASSUME NEW m \in left.movers, RemoveOriginal(m), NEW n \in Movers
      PROVE  Planned(n)
  <2>1. /\ plan' = [plan EXCEPT ![m] = [plan[m] EXCEPT !.call = Len(calls) + 1, !.step = "remove"]]
        /\ m \in Movers /\ Begins(m, {}, {plan[m].file}, {Place(plan[m].file)})
    BY <1>1, <1>6, RemoveBegins
  <2>2. CASE n # m
    BY <1>1, <1>3, <2>1, <2>2
  <2>3. CASE n = m
    <3>1. plan'[n] = [plan[m] EXCEPT !.call = Len(calls) + 1, !.step = "remove"]
          /\ plan[m] \in PlanRecord
      BY <1>1, <2>1, <2>3
    <3>2. plan'[n].step = "remove" /\ plan'[n].call = Len(calls) + 1
      BY <3>1 DEF PlanRecord
    <3>3. Len(calls) + 1 \in DOMAIN calls'
      BY <2>1 DEF Begins
    <3> QED  BY <3>2, <3>3
  <2> QED  BY <2>2, <2>3
<1>7. ASSUME NEW m \in left.movers, EndMove(m), NEW n \in Movers
      PROVE  Planned(n)
  <2>1. plan'[n] = plan[n] \/ plan'[n] = Idle
    BY <1>1, <1>7 DEF EndMove
  <2> QED  BY <1>3, <1>4, <2>1
<1>8. ASSUME Crash, NEW n \in Movers
      PROVE  Planned(n)
  <2>1. plan'[n] = Idle
    BY <1>8 DEF Crash
  <2> QED  BY <1>4, <2>1
<1>9. ASSUME NEW n \in Movers
      PROVE  Planned(n)
  <2> HIDE DEF Planned
  <2> QED  BY <1>3, <1>5, <1>6, <1>7, <1>8, PlanUnchanged
<1> QED  BY <1>9 DEF Plans

LEMMA AnsweredStep ==
  ASSUME TypeInv, [Next]_vars
  PROVE  Answered'
<1>1. Shape /\ Pointers /\ Layered /\ Plans /\ Answered
  BY DEF TypeInv
<1> DEFINE Fine(c) == /\ c.loaded # None => c.loaded[1] \in c.todo
                      /\ c.res # "pending" => c.todo = {} /\ c.waits = {}
<1>2. \A i \in DOMAIN calls : Fine(calls[i])
  BY <1>1 DEF Answered
<1>3. ASSUME NEW i \in DOMAIN calls, DOMAIN calls' = DOMAIN calls, Fine(calls'[i]),
             \A j \in DOMAIN calls : j # i => calls'[j] = calls[j]
      PROVE  Answered'
  <2>1. \A j \in DOMAIN calls' : Fine(calls'[j])
    BY <1>2, <1>3
  <2> QED  BY <2>1 DEF Answered
<1>4. CASE Quiet \/ \E p \in Places : QueryLoad(p)
  BY <1>1, <1>4 DEF Quiet, QueryLoad, Answered
<1>5. CASE Called
  <2>1. PICK by, add, rm, places : Begins(by, add, rm, places)
    BY <1>5 DEF Called
  <2>2. \A i \in DOMAIN calls' : Fine(calls'[i])
    BY <1>2, <2>1 DEF Begins
  <2> QED  BY <2>2 DEF Answered
<1>6. ASSUME NEW i \in DOMAIN calls, NEW p \in Places, AtHand(i, p)
      PROVE  calls[i].res = "pending" /\ p \in calls[i].todo
  BY <1>2, <1>6 DEF AtHand
<1>7. ASSUME NEW i \in DOMAIN calls, NEW p \in Places, Load(i, p)
      PROVE  Answered'
  <2>1. calls[i].res = "pending" /\ p \in calls[i].todo
    BY <1>6, <1>7 DEF Load
  <2>2. /\ DOMAIN calls' = DOMAIN calls /\ \A j \in DOMAIN calls : j # i => calls'[j] = calls[j]
        /\ calls'[i].loaded = <<p, Len(opened[p]) + 1>> /\ calls'[i].todo = calls[i].todo
        /\ calls'[i].res = calls[i].res
    BY <1>1, <1>7, LoadCall DEF Changed
  <2> QED  BY <1>3, <2>1, <2>2
<1>8. ASSUME NEW i \in DOMAIN calls, NEW p \in Places, LoadFails(i, p)
      PROVE  Answered'
  <2>1. calls[i].res = "pending" /\ calls[i].loaded = None
    BY <1>6, <1>8 DEF LoadFails
  <2>2. /\ DOMAIN calls' = DOMAIN calls /\ \A j \in DOMAIN calls : j # i => calls'[j] = calls[j]
        /\ calls'[i].loaded = calls[i].loaded /\ calls'[i].res = calls[i].res
    BY <1>1, <1>8, LoadFailsCall DEF Changed
  <2> QED  BY <1>3, <2>1, <2>2
<1>9. ASSUME NEW i \in DOMAIN calls, NEW p \in Places, Apply(i, p)
      PROVE  Answered'
  <2>1. calls[i].res = "pending"
    BY <1>6, <1>9 DEF Apply
  <2>2. /\ DOMAIN calls' = DOMAIN calls /\ \A j \in DOMAIN calls : j # i => calls'[j] = calls[j]
        /\ calls'[i].loaded = None /\ calls'[i].res = calls[i].res
    BY <1>1, <1>9, ApplyCall DEF Changed
  <2> QED  BY <1>3, <2>1, <2>2
<1>10. ASSUME NEW i \in DOMAIN calls, Answer(i)
       PROVE  Answered'
  <2>1. /\ DOMAIN calls' = DOMAIN calls /\ \A j \in DOMAIN calls : j # i => calls'[j] = calls[j]
        /\ calls'[i].loaded = calls[i].loaded /\ calls'[i].todo = calls[i].todo
        /\ calls[i].todo = {} /\ calls'[i].waits = {}
    BY <1>1, <1>10, AnswerCall DEF Changed
  <2>2. Fine(calls'[i])
    BY <1>2, <2>1
  <2> QED  BY <1>3, <2>1, <2>2
<1>11. ASSUME NEW p \in Places, NEW k \in DOMAIN opened[p], Flush(p, k) \/ FlushFails(p, k)
       PROVE  Answered'
  <2>1. PICK bad \in BOOLEAN : Resolve(p, k, bad)
    BY <1>1, <1>11, FlushPart, FlushFailsPart
  <2>2. /\ DOMAIN calls' = DOMAIN calls
        /\ \A i \in DOMAIN calls :
             /\ calls'[i].loaded = calls[i].loaded /\ calls'[i].res = calls[i].res
             /\ calls'[i].todo = calls[i].todo /\ calls'[i].waits \subseteq calls[i].waits
    BY <1>1, <2>1, ResolveCalls
  <2>3. \A i \in DOMAIN calls' : Fine(calls'[i])
    BY <1>2, <2>2
  <2> QED  BY <2>3 DEF Answered
<1>12. CASE Crash
  <2>1. \A i \in DOMAIN calls' : Fine(calls'[i])
    BY <1>1, <1>2, <1>12, CrashCalls
  <2> QED  BY <2>1 DEF Answered
<1> QED  BY <1>1, <1>4, <1>5, <1>7, <1>8, <1>9, <1>10, <1>11, <1>12, Kinds

\* The beginning.
LEMMA TypeInit ==
  ASSUME Init
  PROVE  TypeInv
<1>1. /\ saved = [p \in Places |-> None] /\ dirs = {} /\ opened = [p \in Places |-> <<>>]
      /\ parts = [p \in Places |-> 0] /\ lock = [fs |-> 0, s3 |-> 0] /\ calls = <<>>
      /\ query = NoQuery /\ plan = [m \in Movers |-> Idle]
      /\ log = [p \in Places |-> <<>>] /\ twice = {} /\ left \in Scenarios
  BY DEF Init
<1>2. DOMAIN calls = {} /\ calls \in Seq(CallRecord)
  BY <1>1
<1>3. \A p \in Places : opened[p] = <<>> /\ DOMAIN opened[p] = {} /\ log[p] = <<>>
                        /\ DOMAIN log[p] = {} /\ saved[p] = None /\ parts[p] = 0
                        /\ SavedAt(p) = {}
  BY <1>1 DEF SavedAt
<1>4. Shape
  <2>1. left \in Scenario
    BY <1>1, ScenarioAssumption DEF Scenario
  <2>2. plan \in [Movers -> PlanRecord]
    BY <1>1 DEF Idle, PlanRecord
  <2>3. query \in QueryRecord
    BY <1>1, NoQueryIs
  <2>4. /\ saved \in [Places -> {None} \cup SUBSET Entries]
        /\ opened \in [Places -> Seq(PartShape)]
        /\ parts \in [Places -> Nat]
        /\ log \in [Places -> Seq(Nat)]
        /\ lock \in [{"fs", "s3"} -> Nat]
        /\ dirs \subseteq Places /\ twice \subseteq Places
    BY <1>1
  <2> QED  BY <1>2, <2>1, <2>2, <2>3, <2>4 DEF Shape
<1>5. query.todo = Zero /\ query.loaded = None /\ query.ranging = None
  BY <1>1, NoQueryIs
<1>6. Pointers
  BY <1>1, <1>2, <1>3, <1>5 DEF Pointers, Held
<1>7. InPlace /\ Layered
  BY <1>3, <1>5 DEF InPlace, Layered, Zero
<1>8. Ranged /\ Answered
  BY <1>2, <1>5 DEF Ranged, Answered
<1>9. Plans
  BY <1>1 DEF Plans, Idle
<1> QED  BY <1>4, <1>6, <1>7, <1>8, <1>9 DEF TypeInv

LEMMA TypeStep ==
  ASSUME TypeInv, [Next]_vars
  PROVE  TypeInv'
BY ShapeStep, PointersStep, InPlaceStep, LayeredStep, RangedStep, PlansStep, AnsweredStep DEF TypeInv

LEMMA TypeIsOK ==
  ASSUME TypeInv
  PROVE  TypeOK
<1>1. Shape /\ Pointers /\ InPlace /\ Plans
  BY DEF TypeInv
<1>2. Len(calls) \in Nat /\ DOMAIN calls = 1 .. Len(calls)
  BY <1>1, Numbers
<1>3. ASSUME NEW p \in Places
      PROVE  /\ saved[p] = None \/ \A e \in saved[p] : Place(e) = p
             /\ opened[p] \in Seq(PartRecord)
             /\ \A k \in DOMAIN opened[p] : \A e \in opened[p][k].files : Place(e) = p
             /\ parts[p] \in 0 .. Len(opened[p])
             /\ log[p] \in Seq(DOMAIN calls)
  <2>1. saved[p] = None \/ \A e \in saved[p] : Place(e) = p
    BY <1>1 DEF InPlace, SavedAt
  <2>2. \A k \in DOMAIN opened[p] : \A e \in opened[p][k].files : Place(e) = p
    BY <1>1 DEF InPlace
  <2>3. opened[p] \in Seq(PartShape) /\ Len(opened[p]) \in Nat
        /\ DOMAIN opened[p] = 1 .. Len(opened[p])
    BY <1>1, Numbers
  <2>4. \A k \in DOMAIN opened[p] : opened[p][k] \in PartRecord
    <3>1. \A k \in DOMAIN opened[p] : opened[p][k] \in PartShape
                                      /\ opened[p][k].waiting \subseteq DOMAIN calls
      BY <1>1, Numbers DEF Pointers
    <3> QED  BY <3>1 DEF PartShape, PartRecord
  <2>5. opened[p] \in Seq(PartRecord)
    BY <2>3, <2>4
  <2>6. parts[p] \in 0 .. Len(opened[p])
    BY <1>1, <2>3 DEF Pointers, Shape
  <2>7. log[p] \in Seq(DOMAIN calls)
    BY <1>1 DEF Pointers, Shape
  <2> QED  BY <2>1, <2>2, <2>5, <2>6, <2>7
<1>4. lock \in [{"fs", "s3"} -> 0 .. Len(calls)]
  BY <1>1, <1>2 DEF Shape, Pointers
<1>5. query.got \in [Entries -> Nat] /\ dirs \subseteq Places /\ twice \subseteq Places
      /\ calls \in Seq(CallRecord)
  BY <1>1 DEF Shape, QueryRecord
<1>6. \A m \in Movers : plan[m] = Idle \/ plan[m].call \in DOMAIN calls
  BY <1>1 DEF Plans
<1> QED  BY <1>3, <1>4, <1>5, <1>6 DEF TypeOK

\* The state always has its shape: partitions hold entries of their place, and the
\* map, the locks, the movers and the log point to what there is.
THEOREM TypeCorrect == Spec => []TypeOK
<1>1. Spec => []TypeInv
  BY TypeInit, TypeStep, PTL DEF Spec
<1> QED  BY <1>1, TypeIsOK, PTL

-----------------------------------------------------------------------------
(* Nobody is forgotten.                                                    *)

Promised ==
  \A i \in DOMAIN calls : \A p \in calls[i].waits :
    \E k \in DOMAIN opened[p] : i \in opened[p][k].waiting
Locked ==
  \A b \in {"fs", "s3"} : lock[b] # 0 => \E p \in calls[lock[b]].todo : Backend(p) = b

LEMMA PromisedStep ==
  ASSUME TypeInv, Promised, [Next]_vars
  PROVE  Promised'
<1>1. Shape /\ Pointers /\ Layered /\ Plans /\ Answered
  BY DEF TypeInv
<1>2. \A i \in DOMAIN calls : calls[i].waits \subseteq Places
  BY <1>1, Numbers DEF CallRecord
<1>3. ASSUME NEW i \in DOMAIN calls, NEW p \in calls[i].waits
      PROVE  p \in Places /\ \E k \in DOMAIN opened[p] : i \in opened[p][k].waiting
  BY <1>2 DEF Promised
<1>4. CASE Quiet
  BY <1>3, <1>4 DEF Quiet, SameParts, Promised
<1>5. CASE Called
  <2>1. PICK by, add, rm, places : Begins(by, add, rm, places)
    BY <1>5 DEF Called
  <2>2. opened' = opened
    BY <1>5 DEF Called
  <2> QED  BY <1>3, <2>1, <2>2 DEF Begins, Promised
<1>6. ASSUME NEW q \in Places, Open(q), NEW i \in DOMAIN calls, NEW p \in calls[i].waits
      PROVE  \E k \in DOMAIN opened'[p] : i \in opened'[p][k].waiting
  <2>1. PICK k \in DOMAIN opened[p] : i \in opened[p][k].waiting
    BY <1>3
  <2>2. k \in DOMAIN opened'[p] /\ opened'[p][k] = opened[p][k]
    BY <1>1, <1>3, <1>6, OpenFacts
  <2> QED  BY <2>1, <2>2
<1>7. ASSUME NEW j \in DOMAIN calls, NEW q \in Places, Load(j, q)
      PROVE  Promised'
  <2>1. DOMAIN calls' = DOMAIN calls /\ \A i \in DOMAIN calls : calls'[i].waits = calls[i].waits
    BY <1>1, <1>7, LoadCall DEF Changed
  <2>2. Open(q)
    BY <1>7 DEF Load
  <2> QED  BY <1>6, <2>1, <2>2 DEF Promised
<1>8. ASSUME NEW q \in Places, QueryLoad(q)
      PROVE  Promised'
  BY <1>6, <1>8 DEF QueryLoad, Promised
<1>9. ASSUME NEW j \in DOMAIN calls, NEW q \in Places, LoadFails(j, q)
      PROVE  Promised'
  <2>1. /\ DOMAIN calls' = DOMAIN calls
        /\ \A i \in DOMAIN calls : calls'[i].waits \subseteq calls[i].waits
    BY <1>1, <1>9, LoadFailsCall DEF Changed, Without
  <2>2. opened' = opened
    BY <1>9 DEF LoadFails
  <2> QED  BY <1>3, <2>1, <2>2 DEF Promised
<1>10. ASSUME NEW j \in DOMAIN calls, Answer(j)
       PROVE  Promised'
  <2>1. /\ DOMAIN calls' = DOMAIN calls
        /\ \A i \in DOMAIN calls : calls'[i].waits \subseteq calls[i].waits
    BY <1>1, <1>10, AnswerCall DEF Changed
  <2>2. opened' = opened
    BY <1>10 DEF Answer
  <2> QED  BY <1>3, <2>1, <2>2 DEF Promised
<1>11. ASSUME NEW j \in DOMAIN calls, NEW q \in Places, Apply(j, q)
       PROVE  Promised'
  <2> DEFINE n == FoundFor(j, q)
  <2>1. n \in DOMAIN opened[q]
    BY <1>1, <1>11, ApplyPart
  <2>2. DOMAIN calls' = DOMAIN calls /\ \A i \in DOMAIN calls : i # j => calls'[i] = calls[i]
    BY <1>1, <1>11, ApplyCall DEF Changed
  <2>3. CASE opened' = opened /\ calls'[j].waits = calls[j].waits
    BY <1>3, <2>2, <2>3 DEF Promised
  <2>4. CASE AppliedTo(j, q, n) /\ calls'[j].waits = calls[j].waits \cup {q}
    <3>1. ASSUME NEW p \in Places, NEW k \in DOMAIN opened[p]
          PROVE  k \in DOMAIN opened'[p] /\ opened[p][k].waiting \subseteq opened'[p][k].waiting
      BY <2>4 DEF AppliedTo
    <3>2. n \in DOMAIN opened'[q] /\ j \in opened'[q][n].waiting
      BY <2>1, <2>4 DEF AppliedTo
    <3>3. ASSUME NEW i \in DOMAIN calls', NEW p \in calls'[i].waits
          PROVE  \E k \in DOMAIN opened'[p] : i \in opened'[p][k].waiting
      <4>1. CASE p \in calls[i].waits
        BY <1>3, <2>2, <3>1, <4>1
      <4>2. CASE p \notin calls[i].waits
        BY <2>2, <2>4, <3>2, <3>3, <4>2
      <4> QED  BY <4>1, <4>2
    <3> QED  BY <3>3 DEF Promised
  <2> QED  BY <1>1, <1>11, <2>3, <2>4, ApplyPart
<1>12. ASSUME NEW q \in Places, NEW n \in DOMAIN opened[q], Flush(q, n) \/ FlushFails(q, n)
       PROVE  Promised'
  <2>1. PICK bad \in BOOLEAN : Resolve(q, n, bad)
    BY <1>1, <1>12, FlushPart, FlushFailsPart
  <2>2. DOMAIN calls' = DOMAIN calls
    BY <1>1, <2>1, ResolveCalls
  <2>3. \A p \in Places : \A k \in DOMAIN opened[p] :
          /\ k \in DOMAIN opened'[p]
          /\ ~(p = q /\ k = n) => opened'[p][k].waiting = opened[p][k].waiting
    <3>1. CASE Flush(q, n)
      <4>1. PICK files : Flushed(q, n, files)
        BY <1>1, <3>1, FlushPart
      <4> QED  BY <4>1 DEF Flushed
    <3>2. CASE FlushFails(q, n)
      <4>1. /\ \A p \in Places : p # q => opened'[p] = opened[p]
            /\ DOMAIN opened'[q] = DOMAIN opened[q]
            /\ \A k \in DOMAIN opened[q] : k # n => opened'[q][k] = opened[q][k]
        BY <1>1, <3>2, FlushFailsPart
      <4> QED  BY <4>1
    <3> QED  BY <1>12, <3>1, <3>2
  <2>4. ASSUME NEW i \in DOMAIN calls, NEW p \in calls'[i].waits
        PROVE  \E k \in DOMAIN opened'[p] : i \in opened'[p][k].waiting
    <3>1. /\ p \in calls[i].waits
          /\ p = q => i \notin opened[q][n].waiting
      BY <1>1, <2>1, <2>4, ResolveCalls
    <3>2. PICK k \in DOMAIN opened[p] : i \in opened[p][k].waiting
      BY <1>3, <3>1
    <3>3. ~(p = q /\ k = n) /\ p \in Places
      BY <1>3, <3>1, <3>2
    <3> QED  BY <2>3, <3>2, <3>3
  <2> QED  BY <2>2, <2>4 DEF Promised
<1>13. CASE Crash
  <2>1. DOMAIN calls' = DOMAIN calls /\ \A i \in DOMAIN calls : calls'[i].waits = {}
    BY <1>1, <1>13, CrashCalls DEF Answered
  <2> QED  BY <2>1 DEF Promised
<1> QED  BY <1>1, <1>4, <1>5, <1>7, <1>8, <1>9, <1>10, <1>11, <1>12, <1>13, Kinds

\* A call that goes on under its lock gives it back when it has no more to do there.
LEMMA HoldStep ==
  ASSUME Shape, Pointers, Locked, NEW i \in DOMAIN calls, NEW p \in Places,
         Hold(i, Backend(p), calls'[i].todo),
         \A j \in DOMAIN calls : j # i => calls'[j] = calls[j],
         \A q \in calls[i].todo : Backend(q) # Backend(p) => q \in calls'[i].todo
  PROVE  Locked'
<1>1. lock \in [{"fs", "s3"} -> Nat] /\ Backend(p) \in {"fs", "s3"}
  BY BackendOfLayer DEF Shape
<1> DEFINE holder == IF \E q \in calls'[i].todo : Backend(q) = Backend(p) THEN i ELSE 0
<1>2. lock' = [lock EXCEPT ![Backend(p)] = holder]
  BY DEF Hold
<1>3. ASSUME NEW b \in {"fs", "s3"}, lock'[b] # 0
      PROVE  \E q \in calls'[lock'[b]].todo : Backend(q) = b
  <2>1. CASE b = Backend(p)
    <3>1. lock'[b] = holder
      BY <1>1, <1>2, <2>1
    <3>2. holder = i /\ \E q \in calls'[i].todo : Backend(q) = Backend(p)
      BY <1>3, <3>1
    <3> QED  BY <2>1, <3>1, <3>2
  <2>2. CASE b # Backend(p)
    <3>1. lock'[b] = lock[b]
      BY <1>1, <1>2, <2>2
    <3>2. PICK q \in calls[lock[b]].todo : Backend(q) = b
      BY <1>3, <3>1 DEF Locked
    <3>3. lock[b] \in DOMAIN calls
      BY <1>3, <3>1 DEF Pointers
    <3>4. q \in calls'[lock[b]].todo
      BY <2>2, <3>2, <3>3
    <3> QED  BY <3>1, <3>2, <3>4
  <2> QED  BY <2>1, <2>2
<1>4. \A q : Backend(q)' = Backend(q)
  BY DEF Backend
<1> QED  BY <1>3 DEF Locked

LEMMA LockedStep ==
  ASSUME TypeInv, Locked, [Next]_vars
  PROVE  Locked'
<1>1. Shape /\ Pointers /\ Layered /\ Plans /\ Answered
  BY DEF TypeInv
<1>2. \A i \in DOMAIN calls : calls[i].todo \subseteq Places
  BY <1>1, Numbers DEF CallRecord
<1>3. ASSUME lock' = lock, \A i \in DOMAIN calls : calls'[i].todo = calls[i].todo
      PROVE  Locked'
  BY <1>1, <1>3 DEF Locked, Pointers
<1>4. CASE Quiet \/ \E p \in Places : QueryLoad(p)
  BY <1>3, <1>4 DEF Quiet, QueryLoad
<1>5. CASE Called
  <2>1. PICK by, add, rm, places : Begins(by, add, rm, places)
    BY <1>5 DEF Called
  <2>2. lock' = lock
    BY <1>5 DEF Called
  <2> QED  BY <1>3, <2>1, <2>2 DEF Begins
<1>6. ASSUME NEW i \in DOMAIN calls, NEW p \in Places, Load(i, p)
      PROVE  Locked'
  <2>1. calls'[i].todo = calls[i].todo /\ \A j \in DOMAIN calls : j # i => calls'[j] = calls[j]
    BY <1>1, <1>6, LoadCall DEF Changed
  <2>2. Hold(i, Backend(p), calls'[i].todo)
    BY <1>6, <2>1 DEF Load
  <2> QED  BY <1>1, <2>1, <2>2, HoldStep
<1>7. ASSUME NEW i \in DOMAIN calls, NEW p \in Places, LoadFails(i, p)
      PROVE  Locked'
  <2>1. /\ calls'[i].todo = Without(calls[i].todo, p[1])
        /\ \A j \in DOMAIN calls : j # i => calls'[j] = calls[j]
    BY <1>1, <1>7, LoadFailsCall DEF Changed
  <2>2. Hold(i, Backend(p), calls'[i].todo)
    BY <1>7, <2>1 DEF LoadFails
  <2>3. \A q \in calls[i].todo : Backend(q) # Backend(p) => q \in calls'[i].todo
    BY <1>2, <2>1, BackendOfLayer DEF Without
  <2> QED  BY <1>1, <2>1, <2>2, <2>3, HoldStep
<1>8. ASSUME NEW i \in DOMAIN calls, NEW p \in Places, Apply(i, p)
      PROVE  Locked'
  <2>1. /\ calls'[i].todo = calls[i].todo \ {p}
        /\ \A j \in DOMAIN calls : j # i => calls'[j] = calls[j]
    BY <1>1, <1>8, ApplyCall DEF Changed
  <2>2. Hold(i, Backend(p), calls'[i].todo)
    BY <1>8, <2>1 DEF Apply
  <2> QED  BY <1>1, <2>1, <2>2, HoldStep
<1>9. ASSUME NEW i \in DOMAIN calls, Answer(i)
      PROVE  Locked'
  <2>1. \A j \in DOMAIN calls : calls'[j].todo = calls[j].todo
    BY <1>1, <1>9, AnswerCall DEF Changed
  <2>2. lock' = lock
    BY <1>9 DEF Answer
  <2> QED  BY <1>3, <2>1, <2>2
<1>10. ASSUME NEW p \in Places, NEW k \in DOMAIN opened[p], Flush(p, k) \/ FlushFails(p, k)
       PROVE  Locked'
  <2>1. PICK bad \in BOOLEAN : Resolve(p, k, bad)
    BY <1>1, <1>10, FlushPart, FlushFailsPart
  <2>2. \A j \in DOMAIN calls : calls'[j].todo = calls[j].todo
    BY <1>1, <2>1, ResolveCalls
  <2>3. lock' = lock
    BY <1>10 DEF Flush, FlushFails
  <2> QED  BY <1>3, <2>2, <2>3
<1>11. CASE Crash
  <2>1. \A b \in {"fs", "s3"} : lock'[b] = 0
    BY <1>1, <1>11 DEF Crash, Shape
  <2> QED  BY <2>1 DEF Locked
<1> QED  BY <1>1, <1>4, <1>5, <1>6, <1>7, <1>8, <1>9, <1>10, <1>11, Kinds

\* No call waits for a partition that does not know it, and no lock is held by a call
\* that has nothing left to do under it: what Batch and Get are promised is resolved
\* by whoever flushes.
THEOREM NoneForgotten == Spec => []NobodyForgotten
<1>1. Init => Promised /\ Locked
  BY DEF Init, Promised, Locked
<1>2. TypeInv /\ Promised /\ Locked /\ [Next]_vars => (Promised /\ Locked)'
  BY PromisedStep, LockedStep
<1>3. TypeInv /\ Promised /\ Locked => NobodyForgotten
  BY DEF TypeInv, Shape, Promised, Locked, NobodyForgotten
<1> QED  BY <1>1, <1>2, <1>3, TypeInit, TypeStep, PTL DEF Spec

-----------------------------------------------------------------------------
(* What is acknowledged is saved.                                          *)

\* The places that were never opened twice have one partition, which is up to date.
Single ==
  \A p \in Places \ twice : \A k \in DOMAIN opened[p] : k = 1 /\ opened[p][k].alone

LEMMA SingleStep ==
  ASSUME TypeInv, Single, [Next]_vars
  PROVE  Single' /\ twice \subseteq twice'
<1>1. Shape /\ Pointers /\ Layered /\ Plans
  BY DEF TypeInv
<1>2. ASSUME NEW p \in Places, p \notin twice, NEW k \in DOMAIN opened[p]
      PROVE  k = 1 /\ opened[p][k].alone
  BY <1>2 DEF Single
<1>3. CASE Quiet
  BY <1>2, <1>3 DEF Quiet, SameParts, Single
<1>4. ASSUME opened' = opened, twice' = twice
      PROVE  Single' /\ twice \subseteq twice'
  BY <1>2, <1>4 DEF Single
<1>5. CASE Called \/ \E i \in DOMAIN calls : Answer(i)
  BY <1>4, <1>5 DEF Called, Answer
<1>6. ASSUME NEW i \in DOMAIN calls, NEW p \in Places, LoadFails(i, p)
      PROVE  Single' /\ twice \subseteq twice'
  BY <1>4, <1>6 DEF LoadFails
<1>7. ASSUME NEW q \in Places, Open(q)
      PROVE  Single' /\ twice \subseteq twice'
  <2>1. twice \subseteq twice'
    BY <1>1, <1>7, OpenFacts
  <2>2. ASSUME NEW p \in Places, p \notin twice', NEW k \in DOMAIN opened'[p]
        PROVE  k = 1 /\ opened'[p][k].alone
    <3>1. CASE p # q
      BY <1>1, <1>2, <1>7, <2>1, <2>2, <3>1, OpenFacts
    <3>2. CASE p = q
      <4>1. opened[q] = <<>>
        BY <1>1, <1>7, <2>2, <3>2, OpenFacts
      <4>2. Len(opened[q]) = 0 /\ DOMAIN opened[q] = {}
        BY <4>1
      <4>3. DOMAIN opened'[q] = {1} /\ opened'[q][1].alone
        BY <1>1, <1>7, <4>2, OpenFacts
      <4> QED  BY <2>2, <3>2, <4>3
    <3> QED  BY <3>1, <3>2
  <2> QED  BY <2>1, <2>2 DEF Single
<1>8. ASSUME NEW i \in DOMAIN calls, NEW q \in Places, Apply(i, q)
      PROVE  Single' /\ twice \subseteq twice'
  <2>1. twice' = twice
    BY <1>8 DEF Apply
  <2>2. CASE opened' = opened
    BY <1>4, <2>1, <2>2
  <2>3. CASE AppliedTo(i, q, FoundFor(i, q))
    <3>1. \A p \in Places : \A k \in DOMAIN opened'[p] :
            k \in DOMAIN opened[p] /\ opened'[p][k].alone = opened[p][k].alone
      BY <2>3 DEF AppliedTo
    <3> QED  BY <1>2, <2>1, <3>1 DEF Single
  <2> QED  BY <1>1, <1>8, <2>2, <2>3, ApplyPart
<1>9. ASSUME NEW q \in Places, NEW n \in DOMAIN opened[q], Flush(q, n)
      PROVE  Single' /\ twice \subseteq twice'
  <2>1. PICK files : Flushed(q, n, files)
    BY <1>1, <1>9, FlushPart
  <2>2. twice' = twice
    BY <1>9 DEF Flush
  <2>3. ASSUME NEW p \in Places, p \notin twice, NEW k \in DOMAIN opened'[p]
        PROVE  k = 1 /\ opened'[p][k].alone
    <3>1. CASE p # q
      BY <1>2, <2>1, <2>3, <3>1 DEF Flushed
    <3>2. CASE p = q
      <4>1. k \in DOMAIN opened[q]
        BY <2>1, <2>3, <3>2 DEF Flushed
      <4>2. k = 1 /\ n = 1
        BY <1>2, <2>3, <3>2, <4>1
      <4> QED  BY <2>1, <3>2, <4>2 DEF Flushed
    <3> QED  BY <3>1, <3>2
  <2> QED  BY <2>2, <2>3 DEF Single
<1>10. ASSUME NEW q \in Places, NEW n \in DOMAIN opened[q], FlushFails(q, n)
       PROVE  Single' /\ twice \subseteq twice'
  <2>1. /\ \A p \in Places : p # q => opened'[p] = opened[p]
        /\ DOMAIN opened'[q] = DOMAIN opened[q]
        /\ \A k \in DOMAIN opened[q] : k # n => opened'[q][k] = opened[q][k]
        /\ opened'[q][n].alone = opened[q][n].alone
    BY <1>1, <1>10, FlushFailsPart
  <2>2. twice' = twice
    BY <1>10 DEF FlushFails
  <2>3. \A p \in Places : \A k \in DOMAIN opened'[p] :
          k \in DOMAIN opened[p] /\ opened'[p][k].alone = opened[p][k].alone
    BY <2>1
  <2> QED  BY <1>2, <2>2, <2>3 DEF Single
<1>11. CASE Crash
  <2>1. twice' = twice
    BY <1>11 DEF Crash
  <2>2. \A p \in Places : \A k \in DOMAIN opened'[p] : k = 1 /\ opened'[p][k].alone
    BY <1>1, <1>11, CrashParts
  <2> QED  BY <2>1, <2>2 DEF Single
<1> QED  BY <1>1, <1>3, <1>5, <1>6, <1>7, <1>8, <1>9, <1>10, <1>11, Kinds DEF Load, QueryLoad

\* Like Reflected, of a set of entries that need not be the saved one.
Undone(e, cs, lg, n) == \E m \in DOMAIN lg : m > n /\ e \in cs[lg[m]].rm
Redone(e, cs, lg, n) == \E m \in DOMAIN lg : m > n /\ e \in cs[lg[m]].add
ReflectedIn(S, p, cs, lg, n) ==
  /\ \A e \in Of(cs[lg[n]].add \ cs[lg[n]].rm, p) : e \in S \/ Undone(e, cs, lg, n)
  /\ \A e \in Of(cs[lg[n]].rm, p) : e \notin S \/ Redone(e, cs, lg, n)

LEMMA ReflectedIs ==
  ASSUME NEW p, NEW n, ReflectedIn(SavedAt(p), p, calls, log[p], n)
  PROVE  Reflected(p, n)
<1>1. \A m \in DOMAIN log[p] : m > n => calls[log[p][m]] \in Later(p, n)
  BY DEF Later
<1> QED  BY <1>1 DEF ReflectedIn, Reflected, Undone, Redone

\* The calls keep their requests.
LEMMA ReflectedStays ==
  ASSUME NEW S, NEW p, NEW cs, NEW cs2, NEW lg, NEW n \in DOMAIN lg,
         \A m \in DOMAIN lg : SameRequest(cs2[lg[m]], cs[lg[m]]),
         ReflectedIn(S, p, cs, lg, n)
  PROVE  ReflectedIn(S, p, cs2, lg, n)
BY DEF ReflectedIn, Undone, Redone, SameRequest

\* More calls in the log do not undo what it reflects.
LEMMA ReflectedLonger ==
  ASSUME NEW S, NEW p, NEW cs, NEW lg, NEW lg2, NEW n \in DOMAIN lg, DOMAIN lg \subseteq DOMAIN lg2,
         \A m \in DOMAIN lg : lg2[m] = lg[m],
         ReflectedIn(S, p, cs, lg, n)
  PROVE  ReflectedIn(S, p, cs, lg2, n)
<1>1. \A e : /\ Undone(e, cs, lg, n) => Undone(e, cs, lg2, n)
             /\ Redone(e, cs, lg, n) => Redone(e, cs, lg2, n)
  BY DEF Undone, Redone
<1> QED  BY <1>1 DEF ReflectedIn

\* A call is put on a set of entries, and logged.
LEMMA ReflectedApplied ==
  ASSUME NEW S, NEW p, NEW cs, NEW lg, NEW lg2, NEW last \in Nat, NEW i,
         DOMAIN lg = 1 .. last, DOMAIN lg2 = DOMAIN lg \cup {last + 1},
         \A m \in DOMAIN lg : lg2[m] = lg[m], lg2[last + 1] = i,
         NEW n \in DOMAIN lg2, n \in DOMAIN lg => ReflectedIn(S, p, cs, lg, n)
  PROVE  ReflectedIn((S \cup Of(cs[i].add, p)) \ Of(cs[i].rm, p), p, cs, lg2, n)
<1> DEFINE T == (S \cup Of(cs[i].add, p)) \ Of(cs[i].rm, p)
<1>1. CASE n = last + 1
  BY <1>1 DEF ReflectedIn, Of
<1>2. CASE n \in DOMAIN lg
  <2>1. n < last + 1 /\ lg2[n] = lg[n]
    BY <1>2
  <2>2. \A e : /\ Undone(e, cs, lg, n) => Undone(e, cs, lg2, n)
               /\ Redone(e, cs, lg, n) => Redone(e, cs, lg2, n)
    BY DEF Undone, Redone
  <2>3. \A e : /\ e \in Of(cs[i].rm, p) => Undone(e, cs, lg2, n)
               /\ e \in Of(cs[i].add, p) => Redone(e, cs, lg2, n)
    BY <2>1 DEF Undone, Redone, Of
  <2>4. \A e \in Of(cs[lg[n]].add \ cs[lg[n]].rm, p) : e \in T \/ Undone(e, cs, lg2, n)
    BY <1>2, <2>2, <2>3 DEF ReflectedIn
  <2>5. \A e \in Of(cs[lg[n]].rm, p) : e \notin T \/ Redone(e, cs, lg2, n)
    BY <1>2, <2>2, <2>3 DEF ReflectedIn
  <2> QED  BY <2>1, <2>4, <2>5 DEF ReflectedIn
<1> QED  BY <1>1, <1>2

\* Every call that may be answered without an error is reflected in the partition of
\* the place, and, once the partition has resolved its promise, in what is saved.
Durable ==
  \A p \in Places \ twice : \A n \in DOMAIN log[p] : \A i \in DOMAIN calls :
    i = log[p][n] /\ Good(i) =>
      /\ p \notin calls[i].waits => ReflectedIn(SavedAt(p), p, calls, log[p], n)
      /\ \A k \in DOMAIN opened[p] : ReflectedIn(opened[p][k].files, p, calls, log[p], n)

\* Where what is saved and what a partition holds come from, in a place with one
\* partition, for a call that may still be answered without an error.
LEMMA StoredStep ==
  ASSUME TypeInv, Promised, Single, [Next]_vars, NEW p \in Places, p \notin twice,
         p \notin twice', NEW i \in DOMAIN calls, Good(i)'
  PROVE  /\ p \notin calls'[i].waits =>
              \/ SavedAt(p)' = SavedAt(p) /\ p \notin calls[i].waits
              \/ \E k \in DOMAIN opened[p] : SavedAt(p)' = opened[p][k].files
         /\ \A k \in DOMAIN opened'[p] :
              \/ k \in DOMAIN opened[p] /\ opened'[p][k].files = opened[p][k].files
              \/ opened'[p][k].files = SavedAt(p) /\ p \notin calls[i].waits
              \/ \E j \in DOMAIN calls : Apply(j, p) /\ AppliedTo(j, p, k) /\ k = FoundFor(j, p)
<1>1. Shape /\ Pointers /\ Layered /\ Plans /\ Answered
  BY DEF TypeInv
<1>2. ASSUME NEW k \in DOMAIN opened[p]
      PROVE  k = 1 /\ opened[p][k].alone
  BY DEF Single
<1>3. calls[i].res # "pending" => calls[i].waits = {} /\ calls[i].todo = {}
  BY <1>1 DEF Answered
<1> DEFINE Goal ==
      /\ p \notin calls'[i].waits =>
           \/ SavedAt(p)' = SavedAt(p) /\ p \notin calls[i].waits
           \/ \E k \in DOMAIN opened[p] : SavedAt(p)' = opened[p][k].files
      /\ \A k \in DOMAIN opened'[p] :
           \/ k \in DOMAIN opened[p] /\ opened'[p][k].files = opened[p][k].files
           \/ opened'[p][k].files = SavedAt(p) /\ p \notin calls[i].waits
           \/ \E j \in DOMAIN calls : Apply(j, p) /\ AppliedTo(j, p, k) /\ k = FoundFor(j, p)
<1>4. ASSUME saved'[p] = saved[p], p \in calls[i].waits => p \in calls'[i].waits,
             \A k \in DOMAIN opened'[p] :
               k \in DOMAIN opened[p] /\ opened'[p][k].files = opened[p][k].files
      PROVE  Goal
  BY <1>4 DEF SavedAt
<1>5. ASSUME Quiet
      PROVE  Goal
  BY <1>4, <1>5 DEF Quiet, SameParts
<1>6. ASSUME Called
      PROVE  Goal
  <2>1. PICK by, add, rm, places : Begins(by, add, rm, places)
    BY <1>6 DEF Called
  <2>2. calls'[i] = calls[i] /\ saved' = saved /\ opened' = opened
    BY <1>6, <2>1 DEF Called, Begins
  <2> QED  BY <1>4, <2>2
<1>7. ASSUME NEW j \in DOMAIN calls, NEW q \in Places, LoadFails(j, q)
      PROVE  Goal
  <2>1. q \in calls[j].todo /\ saved' = saved /\ opened' = opened
    BY <1>7 DEF LoadFails, AtHand
  <2>2. /\ calls'[j].failed /\ calls'[j].res = calls[j].res
        /\ \A n \in DOMAIN calls : n # j => calls'[n] = calls[n]
    BY <1>1, <1>7, LoadFailsCall DEF Changed
  <2>3. i # j
    BY <1>3, <2>1, <2>2 DEF Good
  <2> QED  BY <1>4, <2>1, <2>2, <2>3
<1>8. ASSUME NEW j \in DOMAIN calls, Answer(j)
      PROVE  Goal
  <2>1. saved' = saved /\ opened' = opened
    BY <1>8 DEF Answer
  <2>2. /\ calls'[j].res = "ok" => calls[j].waits = {}
        /\ calls'[j].res \in {"ok", "err"}
        /\ \A n \in DOMAIN calls : n # j => calls'[n] = calls[n]
    BY <1>1, <1>8, AnswerCall DEF Changed
  <2>3. p \in calls[i].waits => p \in calls'[i].waits
    BY <2>2 DEF Good
  <2> QED  BY <1>4, <2>1, <2>3
<1>9. ASSUME NEW q \in Places, Open(q), saved' = saved, calls'[i].waits = calls[i].waits
      PROVE  Goal
  <2>1. CASE p # q
    BY <1>1, <1>4, <1>9, <2>1, OpenFacts
  <2>2. CASE p = q
    <3>1. opened[p] = <<>>
      BY <1>1, <1>9, <2>2, OpenFacts
    <3>2. Len(opened[p]) = 0 /\ DOMAIN opened[p] = {}
      BY <3>1
    <3>3. p \notin calls[i].waits
      BY <3>2 DEF Promised
    <3>4. DOMAIN opened'[p] = {1} /\ opened'[p][1].files = SavedAt(p)
      BY <1>1, <1>9, <2>2, <3>2, OpenFacts
    <3> QED  BY <1>9, <3>3, <3>4 DEF SavedAt
  <2> QED  BY <2>1, <2>2
<1>10. ASSUME NEW j \in DOMAIN calls, NEW q \in Places, Load(j, q)
       PROVE  Goal
  <2>1. calls'[i].waits = calls[i].waits
    BY <1>1, <1>10, LoadCall DEF Changed
  <2> QED  BY <1>9, <1>10, <2>1 DEF Load
<1>11. ASSUME NEW q \in Places, QueryLoad(q)
       PROVE  Goal
  BY <1>9, <1>11 DEF QueryLoad
<1>12. ASSUME NEW j \in DOMAIN calls, NEW q \in Places, Apply(j, q)
       PROVE  Goal
  <2>1. saved' = saved
    BY <1>12 DEF Apply
  <2>2. calls[i].waits \subseteq calls'[i].waits
    BY <1>1, <1>12, ApplyCall DEF Changed
  <2>3. CASE opened' = opened
    BY <1>4, <2>1, <2>2, <2>3
  <2>4. CASE AppliedTo(j, q, FoundFor(j, q))
    <3>1. \A k \in DOMAIN opened'[p] :
            \/ k \in DOMAIN opened[p] /\ opened'[p][k].files = opened[p][k].files
            \/ p = q /\ k = FoundFor(j, q)
      BY <2>4 DEF AppliedTo
    <3> QED  BY <1>12, <2>1, <2>2, <2>4, <3>1 DEF SavedAt
  <2> QED  BY <1>1, <1>12, <2>3, <2>4, ApplyPart
<1>13. ASSUME NEW q \in Places, NEW n \in DOMAIN opened[q], Flush(q, n) \/ FlushFails(q, n)
       PROVE  Goal
  <2>1. PICK bad \in BOOLEAN : Resolve(q, n, bad)
    BY <1>1, <1>13, FlushPart, FlushFailsPart
  <2>2. p # q => (p \in calls[i].waits => p \in calls'[i].waits)
    BY <1>1, <2>1, ResolveCalls
  <2>3. CASE Flush(q, n)
    <3>1. PICK files : Flushed(q, n, files) /\ (files = opened[q][n].files \/ ~opened[q][n].alone)
      BY <1>1, <2>3, FlushPart
    <3>2. CASE p # q
      BY <1>4, <2>2, <3>1, <3>2 DEF Flushed
    <3>3. CASE p = q
      <4>1. n = 1 /\ files = opened[p][n].files /\ DOMAIN opened'[p] = DOMAIN opened[p]
        BY <1>2, <3>1, <3>3 DEF Flushed
      <4>2. saved'[p] = files /\ opened'[p][n].files = files
        BY <3>1, <3>3 DEF Flushed
      <4>3. files # None
        BY <3>1, TableAssumption DEF Flushed
      <4>4. SavedAt(p)' = opened[p][n].files
        BY <4>1, <4>2, <4>3 DEF SavedAt
      <4>5. \A k \in DOMAIN opened'[p] :
              k \in DOMAIN opened[p] /\ opened'[p][k].files = opened[p][k].files
        BY <1>2, <4>1, <4>2
      <4> QED  BY <3>3, <4>4, <4>5
    <3> QED  BY <3>2, <3>3
  <2>4. CASE FlushFails(q, n)
    <3>1. saved' = saved
      BY <2>4 DEF FlushFails
    <3>2. \A k \in DOMAIN opened'[p] :
            k \in DOMAIN opened[p] /\ opened'[p][k].files = opened[p][k].files
      <4>1. /\ \A r \in Places : r # q => opened'[r] = opened[r]
            /\ DOMAIN opened'[q] = DOMAIN opened[q]
            /\ \A k \in DOMAIN opened[q] : k # n => opened'[q][k] = opened[q][k]
            /\ opened'[q][n].files = opened[q][n].files
        BY <1>1, <2>4, FlushFailsPart
      <4> QED  BY <4>1
    <3>3. calls'[i].res = calls[i].res /\ (calls'[i] = calls[i] \/ calls'[i].failed)
      <4>1. Resolve(q, n, TRUE)
        BY <1>1, <2>4, FlushFailsPart
      <4> QED  BY <1>1, <4>1, ResolveCalls
    <3>4. p \in calls[i].waits => p \in calls'[i].waits
      BY <1>3, <3>3 DEF Good
    <3> QED  BY <1>4, <3>1, <3>2, <3>4
  <2> QED  BY <1>13, <2>3, <2>4
<1>14. ASSUME Crash
       PROVE  Goal
  <2>1. calls'[i] = calls[i] /\ calls[i].waits = {}
    BY <1>1, <1>3, <1>14, CrashCalls DEF Good
  <2>2. saved' = saved
    BY <1>14 DEF Crash
  <2>3. \A k \in DOMAIN opened'[p] : opened'[p][k].files = SavedAt(p)
    BY <1>1, <1>14, CrashParts
  <2> QED  BY <2>1, <2>2, <2>3 DEF SavedAt
<1>15. Goal
  <2> HIDE DEF Goal
  <2> QED  BY <1>1, <1>5, <1>6, <1>7, <1>8, <1>10, <1>11, <1>12, <1>13, <1>14, Kinds
<1> QED  BY <1>15

LEMMA DurableStep ==
  ASSUME TypeInv, Promised, Single, Durable, [Next]_vars
  PROVE  Durable'
<1>1. Shape /\ Pointers /\ DOMAIN calls \subseteq DOMAIN calls'
  BY Growth DEF TypeInv
<1> SUFFICES ASSUME NEW p \in Places, p \notin twice', NEW n \in DOMAIN log'[p],
                    NEW i \in DOMAIN calls', i = log'[p][n], Good(i)'
             PROVE  /\ p \notin calls'[i].waits =>
                         ReflectedIn(SavedAt(p)', p, calls', log'[p], n)
                    /\ \A k \in DOMAIN opened'[p] :
                         ReflectedIn(opened'[p][k].files, p, calls', log'[p], n)
  BY DEF Durable
<1>2. p \notin twice
  BY SingleStep
<1>3. \A m \in DOMAIN log[p] : log[p][m] \in DOMAIN calls
  BY <1>1 DEF Pointers
<1>4. \A j \in DOMAIN calls : SameRequest(calls'[j], calls[j])
  BY Growth
<1>5. ASSUME n \in DOMAIN log[p], i = log[p][n]
      PROVE  /\ i \in DOMAIN calls
             /\ p \notin calls[i].waits => ReflectedIn(SavedAt(p), p, calls, log[p], n)
             /\ \A k \in DOMAIN opened[p] :
                  ReflectedIn(opened[p][k].files, p, calls, log[p], n)
  <2>1. i \in DOMAIN calls
    BY <1>3, <1>5
  <2>2. Good(i)
    BY <2>1, Growth
  <2> QED  BY <1>2, <1>5, <2>1, <2>2 DEF Durable
<1>6. CASE log'[p] = log[p]
  <2>1. n \in DOMAIN log[p] /\ i = log[p][n] /\ i \in DOMAIN calls
    BY <1>3, <1>6
  <2>2. ASSUME NEW S, ReflectedIn(S, p, calls, log[p], n)
        PROVE  ReflectedIn(S, p, calls', log'[p], n)
    BY <1>3, <1>4, <1>6, <2>1, <2>2, ReflectedStays
  <2>3. /\ p \notin calls'[i].waits => ReflectedIn(SavedAt(p)', p, calls, log[p], n)
        /\ \A k \in DOMAIN opened'[p] :
             \/ ReflectedIn(opened'[p][k].files, p, calls, log[p], n)
             \/ \E j \in DOMAIN calls : AppliedTo(j, p, k)
    <3>1. /\ p \notin calls[i].waits => ReflectedIn(SavedAt(p), p, calls, log[p], n)
          /\ \A k \in DOMAIN opened[p] :
               ReflectedIn(opened[p][k].files, p, calls, log[p], n)
      BY <1>5, <2>1
    <3>2. /\ p \notin calls'[i].waits =>
               \/ SavedAt(p)' = SavedAt(p) /\ p \notin calls[i].waits
               \/ \E k \in DOMAIN opened[p] : SavedAt(p)' = opened[p][k].files
          /\ \A k \in DOMAIN opened'[p] :
               \/ k \in DOMAIN opened[p] /\ opened'[p][k].files = opened[p][k].files
               \/ opened'[p][k].files = SavedAt(p) /\ p \notin calls[i].waits
               \/ \E j \in DOMAIN calls : AppliedTo(j, p, k)
      BY <1>2, <2>1, StoredStep
    <3> QED  BY <3>1, <3>2
  <2>4. \A j, k : ~AppliedTo(j, p, k)
    <3>1. ASSUME NEW j, NEW k, AppliedTo(j, p, k)
          PROVE  FALSE
      <4>1. /\ Len(log[p]) \in Nat /\ DOMAIN log[p] = 1 .. Len(log[p])
            /\ Len(log[p]) + 1 \in DOMAIN log'[p]
        BY <3>1 DEF AppliedTo
      <4> QED  BY <1>6, <4>1
    <3> QED  BY <3>1
  <2> QED  BY <2>2, <2>3, <2>4
<1>7. ASSUME NEW j \in DOMAIN calls, Apply(j, p), AppliedTo(j, p, FoundFor(j, p))
      PROVE  /\ p \notin calls'[i].waits =>
                  ReflectedIn(SavedAt(p)', p, calls', log'[p], n)
             /\ \A k \in DOMAIN opened'[p] :
                  ReflectedIn(opened'[p][k].files, p, calls', log'[p], n)
  <2> DEFINE last == Len(log[p])
  <2>1. /\ last \in Nat /\ DOMAIN log[p] = 1 .. last
        /\ DOMAIN log'[p] = DOMAIN log[p] \cup {last + 1}
        /\ \A m \in DOMAIN log[p] : log'[p][m] = log[p][m]
        /\ log'[p][last + 1] = j
    BY <1>7 DEF AppliedTo
  <2>2. saved' = saved
    BY <1>7 DEF Apply
  <2>3. DOMAIN calls' = DOMAIN calls
    BY <1>1, <1>7, ApplyCall DEF Changed
  <2>4. calls'[j].waits = calls[j].waits \cup {p} \/ UNCHANGED <<opened, log, query>>
    BY <1>1, <1>7, ApplyPart
  <2>5. p \in calls'[j].waits
    <3>1. log'[p] # log[p]
      BY <2>1
    <3> QED  BY <2>4, <3>1
  <2>6. ASSUME NEW S, ReflectedIn(S, p, calls, log'[p], n)
        PROVE  ReflectedIn(S, p, calls', log'[p], n)
    <3>1. \A m \in DOMAIN log'[p] : log'[p][m] \in DOMAIN calls
      BY <1>3, <2>1
    <3> QED  BY <1>4, <2>6, <3>1, ReflectedStays
  <2>7. calls[i].waits \subseteq calls'[i].waits
    BY <1>1, <1>7, <2>3, ApplyCall DEF Changed
  <2>8. ASSUME p \notin calls'[i].waits
        PROVE  ReflectedIn(SavedAt(p)', p, calls', log'[p], n)
    <3>1. n \in DOMAIN log[p] /\ i = log[p][n]
      BY <2>1, <2>5, <2>8
    <3>2. ReflectedIn(SavedAt(p), p, calls, log[p], n)
      BY <1>5, <2>7, <2>8, <3>1
    <3>3. ReflectedIn(SavedAt(p), p, calls, log'[p], n)
      BY <2>1, <3>1, <3>2, ReflectedLonger
    <3>4. SavedAt(p)' = SavedAt(p)
      BY <2>2 DEF SavedAt
    <3> QED  BY <2>6, <3>3, <3>4
  <2>9. ASSUME NEW k \in DOMAIN opened'[p]
        PROVE  ReflectedIn(opened'[p][k].files, p, calls', log'[p], n)
    <3>1. k \in DOMAIN opened[p] /\ k = 1 /\ FoundFor(j, p) = 1
      <4>1. FoundFor(j, p) \in DOMAIN opened[p]
        BY <1>1, <1>7, ApplyPart
      <4>2. DOMAIN opened'[p] = DOMAIN opened[p]
        BY <1>7 DEF AppliedTo
      <4> QED  BY <1>2, <2>9, <4>1, <4>2 DEF Single
    <3>2. opened'[p][k].files = (opened[p][k].files \cup Of(calls[j].add, p)) \ Of(calls[j].rm, p)
      BY <1>7, <3>1 DEF AppliedTo
    <3>3. n \in DOMAIN log[p] => ReflectedIn(opened[p][k].files, p, calls, log[p], n)
      BY <1>5, <2>1, <3>1
    <3> DEFINE files == opened[p][k].files
               request == calls[j]
               before == log[p]
               after == log'[p]
    <3> HIDE DEF files, request, before, after, last
    <3>4. ReflectedIn((files \cup Of(request.add, p)) \ Of(request.rm, p), p, calls, after, n)
      <4>1. /\ last \in Nat /\ DOMAIN before = 1 .. last
            /\ DOMAIN after = DOMAIN before \cup {last + 1}
            /\ \A m \in DOMAIN before : after[m] = before[m]
            /\ after[last + 1] = j /\ n \in DOMAIN after
            /\ n \in DOMAIN before => ReflectedIn(files, p, calls, before, n)
        BY <2>1, <3>3 DEF files, before, after
      <4> QED  BY <4>1, ReflectedApplied DEF request
    <3> QED  BY <2>6, <3>2, <3>4 DEF files, request, after
  <2> QED  BY <2>8, <2>9
<1>8. ASSUME NEW j \in DOMAIN calls, NEW q \in Places, q # p, AppliedTo(j, q, FoundFor(j, q))
      PROVE  log'[p] = log[p]
  BY <1>8 DEF AppliedTo
<1> QED  BY <1>6, <1>7, <1>8, LogStep

\* What an acknowledged call changed is saved in the places of one partition.
LEMMA DurableIsAcked ==
  ASSUME TypeInv, Durable
  PROVE  AckedEverywhere
<1> SUFFICES ASSUME NEW p \in Places \ twice, NEW n \in 1 .. Len(calls),
                    n \in DOMAIN log[p], Acked(log[p][n])
             PROVE  Reflected(p, n)
  BY DEF AckedEverywhere, SavedIn
<1>1. log[p][n] \in DOMAIN calls /\ Good(log[p][n]) /\ p \notin calls[log[p][n]].waits
  BY DEF TypeInv, Pointers, Answered, Acked, Good
<1>2. ReflectedIn(SavedAt(p), p, calls, log[p], n)
  BY <1>1 DEF Durable
<1> QED  BY <1>2, ReflectedIs

Kept == TypeInv /\ Promised /\ Single /\ Durable

LEMMA KeptInit ==
  ASSUME Init
  PROVE  Kept
<1>1. \A p \in Places : opened[p] = <<>> /\ log[p] = <<>>
  BY DEF Init
<1> QED  BY <1>1, TypeInit DEF Kept, Promised, Single, Durable, Init

LEMMA KeptStep ==
  ASSUME Kept, [Next]_vars
  PROVE  Kept'
BY TypeStep, PromisedStep, SingleStep, DurableStep DEF Kept

\* A Batch that was answered without an error is saved in every partition of both
\* backends it touched, whatever calls, flushes, failures and crashes come between,
\* as long as no other partition of the place was opened at the same time.
THEOREM AcknowledgedEverywhere == Spec => []AckedEverywhere
<1>1. Kept => AckedEverywhere
  BY DurableIsAcked DEF Kept
<1> QED  BY <1>1, KeptInit, KeptStep, PTL DEF Spec

-----------------------------------------------------------------------------
(* The order in which a query takes the layers.                            *)

\* The order of the configuration.
LEMMA BehindOrder ==
  /\ \A l : l \notin Behind(l) /\ Behind(l) \subseteq LayerNames
  /\ \A l, m : l \in Behind(m) => m \in LayerNames
  /\ \A l, m, n : l \in Behind(m) /\ m \in Behind(n) => l \in Behind(n)
  /\ \A l, m \in LayerNames : l = m \/ l \in Behind(m) \/ m \in Behind(l)
<1>1. Layers \in Seq(LayerNames) /\ IsInjective(Layers)
  BY TableAssumption
<1>2. Len(Layers) \in Nat /\ DOMAIN Layers = 1 .. Len(Layers)
  BY <1>1
<1>3. \A i, j \in DOMAIN Layers : Layers[i] = Layers[j] => i = j
  BY <1>1 DEF IsInjective
<1>4. \A l, m : l \in Behind(m) <=>
         \E i, j \in DOMAIN Layers : i < j /\ Layers[i] = m /\ Layers[j] = l
  BY <1>2 DEF Behind
<1>5. \A l : l \in LayerNames <=> \E i \in DOMAIN Layers : Layers[i] = l
  BY DEF LayerNames
<1>6. \A l : l \notin Behind(l)
  BY <1>2, <1>3, <1>4
<1>7. \A l, m : l \in Behind(m) => l \in LayerNames /\ m \in LayerNames
  BY <1>4, <1>5
<1>8. ASSUME NEW l, NEW m, NEW n, l \in Behind(m), m \in Behind(n)
      PROVE  l \in Behind(n)
  BY <1>2, <1>3, <1>4, <1>8
<1>9. ASSUME NEW l \in LayerNames, NEW m \in LayerNames, l # m
      PROVE  l \in Behind(m) \/ m \in Behind(l)
  <2>1. PICK i \in DOMAIN Layers, j \in DOMAIN Layers : Layers[i] = l /\ Layers[j] = m
    BY <1>5
  <2>2. i < j \/ j < i
    BY <1>2, <1>9, <2>1
  <2> QED  BY <1>4, <2>1, <2>2
<1> QED  BY <1>6, <1>7, <1>8, <1>9

\* The order of the query.
LEMMA EarlierOrder ==
  /\ \A l : l \notin Earlier(l) /\ Earlier(l) \subseteq LayerNames
  /\ \A l, m, n \in LayerNames : l \in Earlier(m) /\ m \in Earlier(n) => l \in Earlier(n)
  /\ \A l, m \in LayerNames : l = m \/ l \in Earlier(m) \/ m \in Earlier(l)
<1>1. \A l \in LayerNames : LayerType[l] \in {"fs", "s3"}
  BY TableAssumption
<1> QED  BY <1>1, BehindOrder DEF Earlier

\* There are finitely many layers.
LEMMA LayersFinite ==
  /\ IsFiniteSet(LayerNames) /\ Cardinality(LayerNames) <= Len(Layers)
  /\ Len(Layers) \in Nat /\ Cardinality(LayerNames) \in Nat
<1>1. Layers \in Seq(LayerNames)
  BY TableAssumption
<1>2. Len(Layers) \in Nat /\ DOMAIN Layers = 1 .. Len(Layers)
  BY <1>1
<1>3. Layers \in [1 .. Len(Layers) -> LayerNames]
  BY <1>1, <1>2
<1>4. Layers \in Surjection(1 .. Len(Layers), LayerNames)
  BY <1>2, <1>3 DEF LayerNames, Surjection
<1>5. IsFiniteSet(1 .. Len(Layers)) /\ Cardinality(1 .. Len(Layers)) = Len(Layers)
  <2>1. ASSUME NEW n \in Nat
        PROVE  IsFiniteSet(1 .. n) /\ Cardinality(1 .. n) = n
    <3>1. 1 \in Int /\ n \in Int
      OBVIOUS
    <3>2. /\ IsFiniteSet(1 .. n)
          /\ Cardinality(1 .. n) = IF 1 > n THEN 0 ELSE n - 1 + 1
      BY <3>1, FS_Interval, Zenon
    <3> QED  BY <3>2
  <2> QED  BY <1>2, <2>1
<1>6. IsFiniteSet(LayerNames) /\ Cardinality(LayerNames) <= Len(Layers)
  BY <1>4, <1>5, FS_Surjection
<1> QED  BY <1>2, <1>6, FS_CardinalityType

\* The numbers of the layers.
LEMMA PositionOrder ==
  ASSUME NEW l \in LayerNames
  PROVE  /\ Position(l) \in 1 .. Len(Layers)
         /\ \A m \in LayerNames : m \in Earlier(l) => Position(m) < Position(l)
         /\ \A m \in LayerNames : Position(m) = Position(l) => m = l
<1>1. ASSUME NEW m \in LayerNames
      PROVE  /\ IsFiniteSet(Earlier(m)) /\ Cardinality(Earlier(m)) \in Nat
             /\ Cardinality(Earlier(m)) < Cardinality(LayerNames)
  <2>1. Earlier(m) \in SUBSET LayerNames /\ Earlier(m) # LayerNames
    BY EarlierOrder
  <2>2. IsFiniteSet(Earlier(m)) /\ Cardinality(Earlier(m)) <= Cardinality(LayerNames)
        /\ Cardinality(LayerNames) # Cardinality(Earlier(m))
    BY <2>1, LayersFinite, FS_Subset
  <2>3. Cardinality(Earlier(m)) \in Nat
    BY <2>2, FS_CardinalityType
  <2> QED  BY <2>2, <2>3, LayersFinite
<1>2. ASSUME NEW m \in LayerNames, NEW n \in LayerNames, m \in Earlier(n)
      PROVE  Position(m) < Position(n)
  <2>1. Earlier(m) \in SUBSET Earlier(n) /\ Earlier(m) # Earlier(n)
    BY <1>2, EarlierOrder
  <2>2. Cardinality(Earlier(m)) <= Cardinality(Earlier(n))
        /\ Cardinality(Earlier(m)) # Cardinality(Earlier(n))
    BY <1>1, <2>1, FS_Subset
  <2> QED  BY <1>1, <2>2 DEF Position
<1>3. Position(l) \in 1 .. Len(Layers)
  BY <1>1, LayersFinite DEF Position
<1>4. \A m \in LayerNames : Position(m) \in Nat
  BY <1>1 DEF Position
<1>5. \A m \in LayerNames : Position(m) = Position(l) => m = l
  <2> SUFFICES ASSUME NEW m \in LayerNames, m # l
               PROVE  Position(m) # Position(l)
    OBVIOUS
  <2>1. Position(m) < Position(l) \/ Position(l) < Position(m)
    BY <1>2, EarlierOrder
  <2> QED  BY <1>4, <2>1
<1> QED  BY <1>2, <1>3, <1>5

\* A mover takes a file to a layer that the query takes later.
LEMMA MoveLater ==
  ASSUME NEW l \in LayerNames, NEW to \in LayersTo(l)
  PROVE  to \in LayerNames /\ Position(l) < Position(to)
<1>1. to \in LayerNames
  BY MoveTo
<1>2. LayerType[l] \in {"fs", "s3"} /\ LayerType[to] \in {"fs", "s3"}
  BY <1>1, TableAssumption
<1>3. to \in Behind(l) /\ (LayerType[to] = LayerType[l] \/ LayerType[l] = "fs")
  BY DEF LayersTo, After, SameType
<1>4. l \in Earlier(to)
  BY <1>2, <1>3 DEF Earlier
<1> QED  BY <1>1, <1>4, PositionOrder

-----------------------------------------------------------------------------
(* Movers lose no file.                                                    *)

\* An entry whose addition was acknowledged.
AckedEntry(e) == \E i \in DOMAIN calls : Acked(i) /\ e \in calls[i].add

\* A call that may be answered without an error has changed the places it is done with.
Logged ==
  \A i \in DOMAIN calls : Good(i) =>
    \A e \in calls[i].add : \/ Place(e) \in calls[i].todo
                            \/ \E n \in DOMAIN log[Place(e)] : log[Place(e)][n] = i

\* Who is no writer removes the entries whose copies were acknowledged.
Copied(e) == e[1] \in LayerNames /\ \E to \in LayersTo(e[1]) : AckedEntry(<<to, e[2]>>)
Moved == \A i \in DOMAIN calls : calls[i].by # "writer" => \A e \in calls[i].rm : Copied(e)

\* What is acknowledged stays so, and so does what a writer removed.
LEMMA AckedStays ==
  ASSUME TypeInv, [Next]_vars
  PROVE  /\ \A e : AckedEntry(e) => AckedEntry(e)'
         /\ \A e : Copied(e) => Copied(e)'
         /\ \A d : RemovedByWriter(d) => RemovedByWriter(d)'
<1>1. ASSUME NEW e, AckedEntry(e)
      PROVE  AckedEntry(e)'
  BY <1>1, Growth DEF AckedEntry, Acked, SameRequest
<1>2. ASSUME NEW e, Copied(e)
      PROVE  Copied(e)'
  BY <1>1, <1>2 DEF Copied
<1>3. ASSUME NEW d, RemovedByWriter(d)
      PROVE  RemovedByWriter(d)'
  BY <1>3, Growth DEF RemovedByWriter, SameRequest
<1> QED  BY <1>1, <1>2, <1>3

\* The log keeps what it has.
LEMMA LogStays ==
  ASSUME TypeInv, [Next]_vars, NEW p \in Places, NEW n \in DOMAIN log[p]
  PROVE  n \in DOMAIN log'[p] /\ log'[p][n] = log[p][n]
<1>1. CASE log' = log
  BY <1>1
<1>2. ASSUME NEW i \in DOMAIN calls, NEW q \in Places, AppliedTo(i, q, FoundFor(i, q))
      PROVE  n \in DOMAIN log'[p] /\ log'[p][n] = log[p][n]
  BY <1>2 DEF AppliedTo
<1> QED  BY <1>1, <1>2, LogStep

LEMMA LoggedStep ==
  ASSUME TypeInv, Logged, [Next]_vars
  PROVE  Logged'
<1>1. Shape /\ Pointers /\ Layered /\ Plans /\ Answered
  BY DEF TypeInv
<1> SUFFICES ASSUME NEW i \in DOMAIN calls', Good(i)', NEW e \in calls'[i].add,
                    Place(e) \notin calls'[i].todo
             PROVE  \E n \in DOMAIN log'[Place(e)] : log'[Place(e)][n] = i
  BY DEF Logged
<1> DEFINE Goal == \E n \in DOMAIN log'[Place(e)] : log'[Place(e)][n] = i
<1>2. ASSUME i \in DOMAIN calls, Place(e) \notin calls[i].todo
      PROVE  Goal
  <2>1. e \in calls[i].add /\ Good(i)
    BY <1>2, Growth DEF SameRequest
  <2>2. PICK n \in DOMAIN log[Place(e)] : log[Place(e)][n] = i
    BY <1>2, <2>1 DEF Logged
  <2>3. Place(e) \in Places
    BY <1>1, <1>2, <2>1, Numbers, PlaceOfEntry DEF CallRecord
  <2> QED  BY <2>2, <2>3, LogStays
<1>3. ASSUME Quiet
      PROVE  Goal
  BY <1>2, <1>3 DEF Quiet
<1>4. ASSUME Called
      PROVE  Goal
  <2>1. PICK by \in Movers \cup {"writer", "reader"}, add \in SUBSET Entries,
             rm \in SUBSET Entries, places \in SUBSET Places :
          Begins(by, add, rm, places) /\ \A a \in add \cup rm : Place(a) \in places
    BY <1>4 DEF Called
  <2>2. CASE i \in DOMAIN calls
    BY <1>2, <2>1, <2>2 DEF Begins
  <2>3. CASE i = Len(calls) + 1
    BY <2>1, <2>3 DEF Begins
  <2> QED  BY <2>1, <2>2, <2>3 DEF Begins
<1>5. ASSUME NEW j \in DOMAIN calls, NEW p \in Places, Load(j, p)
      PROVE  Goal
  BY <1>1, <1>2, <1>5, LoadCall DEF Changed
<1>6. ASSUME NEW j \in DOMAIN calls, NEW p \in Places, LoadFails(j, p)
      PROVE  Goal
  <2>1. /\ calls'[j].failed /\ calls'[j].res = calls[j].res
        /\ DOMAIN calls' = DOMAIN calls
        /\ \A n \in DOMAIN calls : n # j => calls'[n] = calls[n]
    BY <1>1, <1>6, LoadFailsCall DEF Changed
  <2>2. p \in calls[j].todo
    BY <1>6 DEF LoadFails, AtHand
  <2>3. calls[j].res # "ok"
    BY <1>1, <2>2 DEF Answered
  <2>4. i # j
    BY <2>1, <2>3 DEF Good
  <2> QED  BY <1>2, <2>1, <2>4
<1>7. ASSUME NEW j \in DOMAIN calls, NEW p \in Places, Apply(j, p)
      PROVE  Goal
  <2>1. /\ calls'[j].todo = calls[j].todo \ {p} /\ DOMAIN calls' = DOMAIN calls
        /\ SameRequest(calls'[j], calls[j])
        /\ \A n \in DOMAIN calls : n # j => calls'[n] = calls[n]
    BY <1>1, <1>7, ApplyCall, Growth DEF Changed
  <2>2. CASE i # j \/ Place(e) # p
    BY <1>2, <2>1, <2>2
  <2>3. ASSUME i = j, Place(e) = p
        PROVE  Goal
    <3>1. e \in Of(calls[i].add, p)
      BY <2>1, <2>3 DEF SameRequest, Of
    <3>2. AppliedTo(j, p, FoundFor(j, p))
      BY <1>1, <1>7, <2>3, <3>1, ApplyPart
    <3> QED  BY <2>3, <3>2 DEF AppliedTo
  <2> QED  BY <2>2, <2>3
<1>8. ASSUME NEW j \in DOMAIN calls, Answer(j)
      PROVE  Goal
  BY <1>1, <1>2, <1>8, AnswerCall DEF Changed
<1>9. ASSUME NEW p \in Places, NEW k \in DOMAIN opened[p], Flush(p, k) \/ FlushFails(p, k)
      PROVE  Goal
  <2>1. PICK bad \in BOOLEAN : Resolve(p, k, bad)
    BY <1>1, <1>9, FlushPart, FlushFailsPart
  <2> QED  BY <1>1, <1>2, <2>1, ResolveCalls
<1>10. ASSUME NEW p \in Places, QueryLoad(p)
      PROVE  Goal
  BY <1>2, <1>10 DEF QueryLoad
<1>11. ASSUME Crash
      PROVE  Goal
  <2>1. DOMAIN calls' = DOMAIN calls /\ (calls'[i] = calls[i] \/ calls'[i].res = "lost")
    BY <1>1, <1>11, CrashCalls
  <2> QED  BY <1>2, <2>1 DEF Good
<1> QED  BY <1>1, <1>3, <1>4, <1>5, <1>6, <1>7, <1>8, <1>9, <1>10, <1>11, Kinds

\* Only RemoveOriginal asks, for a mover, for the removal of an entry.
LEMMA MovedStep ==
  ASSUME TypeInv, Moved, [Next]_vars
  PROVE  Moved'
<1>1. Shape /\ Pointers /\ Layered /\ Plans
  BY DEF TypeInv
<1> SUFFICES ASSUME NEW i \in DOMAIN calls', calls'[i].by # "writer", NEW e \in calls'[i].rm
             PROVE  Copied(e)'
  BY DEF Moved
<1>2. CASE i \in DOMAIN calls
  <2>1. calls[i].by # "writer" /\ e \in calls[i].rm
    BY <1>2, Growth DEF SameRequest
  <2> QED  BY <1>2, <2>1, AckedStays DEF Moved
<1>3. ASSUME i \notin DOMAIN calls
      PROVE  Copied(e)'
  <2>1. ASSUME NEW r \in left.requests, Batch(r)
        PROVE  FALSE
    BY <1>1, <1>3, <2>1, BatchBegins DEF Begins
  <2>2. ASSUME NEW a \in left.reads, Get(a)
        PROVE  FALSE
    BY <1>1, <1>3, <2>2, GetBegins DEF Begins
  <2>3. ASSUME NEW m \in left.movers, GetMovePlan(m)
        PROVE  FALSE
    <3>1. PICK a \in Entries : \E to : Begins(m, {<<to, a[2]>>}, {}, {Place(<<to, a[2]>>)})
      BY <1>1, <2>3, CopyBegins
    <3> QED  BY <1>3, <3>1 DEF Begins
  <2>4. ASSUME NEW m \in left.movers, RemoveOriginal(m)
        PROVE  Copied(e)'
    <3>1. /\ m \in Movers /\ plan[m].step = "copy" /\ calls[plan[m].call].res = "ok"
          /\ Begins(m, {}, {plan[m].file}, {Place(plan[m].file)})
      BY <1>1, <2>4, RemoveBegins
    <3>2. e = plan[m].file
      BY <1>3, <3>1 DEF Begins
    <3>3. Copied(e)
      BY <1>1, <3>1, <3>2 DEF Plans, Copied, AckedEntry, Acked
    <3> QED  BY <3>3, AckedStays
  <2>5. DOMAIN calls' # DOMAIN calls
    BY <1>3
  <2>6. ASSUME NEW j \in DOMAIN calls, CallStep(j)
        PROVE  DOMAIN calls' = DOMAIN calls
    BY <1>1, <2>6, LoadCall, LoadFailsCall, ApplyCall, AnswerCall DEF CallStep, Changed
  <2>7. ASSUME NEW p \in Places, NEW k \in DOMAIN opened[p], Flush(p, k) \/ FlushFails(p, k)
        PROVE  DOMAIN calls' = DOMAIN calls
    <3>1. PICK bad \in BOOLEAN : Resolve(p, k, bad)
      BY <1>1, <2>7, FlushPart, FlushFailsPart
    <3> QED  BY <1>1, <3>1, ResolveCalls
  <2>8. ASSUME Crash
        PROVE  DOMAIN calls' = DOMAIN calls
    BY <1>1, <2>8, CrashCalls
  <2>9. ASSUME Quiet \/ \E p \in Places : QueryLoad(p)
        PROVE  DOMAIN calls' = DOMAIN calls
    BY <2>9 DEF Quiet, QueryLoad
  <2>10. \/ \E r \in left.requests : Batch(r)
         \/ \E a \in left.reads : Get(a)
         \/ \E m \in left.movers : GetMovePlan(m) \/ RemoveOriginal(m)
    BY <1>1, <2>5, <2>6, <2>7, <2>8, <2>9, QuietSteps DEF Next
  <2> QED  BY <2>1, <2>2, <2>3, <2>4, <2>10
<1> QED  BY <1>2, <1>3

\* The last layer of the table in which a file was acknowledged.
LEMMA LastLayer ==
  ASSUME NEW d, NEW m \in LayerNames, AckedEntry(<<m, d>>)
  PROVE  \E l \in LayerNames :
           /\ AckedEntry(<<l, d>>) /\ Position(m) <= Position(l)
           /\ \A n \in LayerNames : AckedEntry(<<n, d>>) => Position(n) <= Position(l)
<1> DEFINE L == {l \in LayerNames : AckedEntry(<<l, d>>)}
           S == {Len(Layers) - Position(l) : l \in L}
<1>1. \A l \in LayerNames : Position(l) \in Nat /\ Len(Layers) - Position(l) \in Nat
  BY PositionOrder, LayersFinite
<1>2. m \in L /\ L \subseteq LayerNames
  OBVIOUS
<1>3. S \in SUBSET Nat /\ S # {}
  BY <1>1, <1>2
<1>4. Min(S) \in S /\ \A y \in S : Min(S) <= y
  BY <1>3, MinIn
<1>5. PICK l \in L : \A n \in L : Len(Layers) - Position(l) <= Len(Layers) - Position(n)
  BY <1>4
<1>6. \A n \in L : Position(n) <= Position(l)
  BY <1>1, <1>2, <1>5, LayersFinite
<1> QED  BY <1>2, <1>5, <1>6

\* In the last layer in which a file was acknowledged nobody has removed it, unless a
\* writer did: it is saved there, and in every partition of the place.
LEMMA LatestKept ==
  ASSUME TypeInv, Durable, Logged, Moved, NEW d, NEW l \in LayerNames,
         AckedEntry(<<l, d>>), ~RemovedByWriter(d), PlacesOf(d) \cap twice = {},
         \A m \in LayerNames : AckedEntry(<<m, d>>) => Position(m) <= Position(l)
  PROVE  LET p == Place(<<l, d>>)
         IN /\ <<l, d>> \in Entries /\ p \in Places
            /\ <<l, d>> \in SavedAt(p)
            /\ \A k \in DOMAIN opened[p] : <<l, d>> \in opened[p][k].files
<1> DEFINE p == Place(<<l, d>>)
<1>1. PICK i \in DOMAIN calls : calls[i].res = "ok" /\ <<l, d>> \in calls[i].add
  BY DEF AckedEntry, Acked
<1>2. <<l, d>> \in Entries /\ p \in Places
  BY <1>1, Numbers, PlaceOfEntry DEF TypeInv, CallRecord
<1>3. Good(i) /\ calls[i].todo = {} /\ calls[i].waits = {}
  BY <1>1 DEF TypeInv, Answered, Good
<1>4. PICK n \in DOMAIN log[p] : log[p][n] = i
  BY <1>1, <1>3 DEF Logged
<1>5. p \notin twice
  BY <1>2 DEF PlacesOf
<1>6. ASSUME NEW j \in DOMAIN calls
      PROVE  <<l, d>> \notin calls[j].rm
  <2> SUFFICES ASSUME <<l, d>> \in calls[j].rm
               PROVE  FALSE
    OBVIOUS
  <2>1. calls[j].by # "writer"
    BY DEF RemovedByWriter
  <2>2. PICK to \in LayersTo(l) : AckedEntry(<<to, d>>)
    BY <2>1 DEF Moved, Copied
  <2>3. to \in LayerNames /\ Position(l) < Position(to) /\ Position(to) <= Position(l)
    BY <2>2, MoveLater
  <2> QED  BY <2>3, PositionOrder
<1>7. \A m \in DOMAIN log[p] : log[p][m] \in DOMAIN calls
  BY <1>2 DEF TypeInv, Pointers
<1>8. ASSUME NEW S, ReflectedIn(S, p, calls, log[p], n)
      PROVE  <<l, d>> \in S
  <2>1. <<l, d>> \in Of(calls[log[p][n]].add \ calls[log[p][n]].rm, p)
    BY <1>1, <1>2, <1>4, <1>6 DEF Of
  <2> QED  BY <1>6, <1>7, <1>8, <2>1 DEF ReflectedIn, Undone
<1>9. /\ ReflectedIn(SavedAt(p), p, calls, log[p], n)
      /\ \A k \in DOMAIN opened[p] : ReflectedIn(opened[p][k].files, p, calls, log[p], n)
  BY <1>2, <1>3, <1>4, <1>5 DEF Durable
<1> QED  BY <1>2, <1>8, <1>9

\* A file that is known was acknowledged in a layer of the table.
LEMMA KnownInLayer ==
  ASSUME TypeInv, Logged, NEW d \in Known
  PROVE  \E l \in LayerNames : AckedEntry(<<l, d>>)
<1>1. PICK i \in DOMAIN calls : Acked(i) /\ \E e \in calls[i].add : e[2] = d
  BY DEF Known
<1>2. PICK e \in calls[i].add : e[2] = d
  BY <1>1
<1>3. e \in Entries
  BY Numbers DEF TypeInv, CallRecord
<1>4. e = <<e[1], d>> /\ Place(e) \in Places /\ Place(e)[1] = e[1]
  BY <1>3, <1>2, PlaceOfEntry
<1>5. PICK n \in DOMAIN log[Place(e)] : log[Place(e)][n] = i
  BY <1>1 DEF TypeInv, Answered, Acked, Good, Logged
<1>6. log[Place(e)] # <<>>
  BY <1>5
<1>7. e[1] \in LayerNames
  BY <1>4, <1>6 DEF TypeInv, Layered
<1> QED  BY <1>1, <1>4, <1>7 DEF AckedEntry

Followed == Kept /\ Logged /\ Moved

LEMMA FollowedInit ==
  ASSUME Init
  PROVE  Followed
<1>1. calls = <<>>
  BY DEF Init
<1> QED  BY <1>1, KeptInit DEF Followed, Logged, Moved

LEMMA FollowedStep ==
  ASSUME Followed, [Next]_vars
  PROVE  Followed'
BY KeptStep, LoggedStep, MovedStep DEF Followed, Kept

\* A file whose addition was acknowledged is listed in a metadata.json at every moment,
\* whatever the movers do and wherever a crash stops them, as long as no writer removed
\* it and no partition of it was opened twice.
THEOREM FilesKept == Spec => []RowsKept
<1>1. ASSUME Followed
      PROVE  RowsKept
  <2> SUFFICES ASSUME NEW d \in Known, ~RemovedByWriter(d), PlacesOf(d) \cap twice = {}
               PROVE  \E l \in LayerNames : <<l, d>> \in SavedAt(Place(<<l, d>>))
    BY DEF RowsKept
  <2>1. TypeInv /\ Durable /\ Logged /\ Moved
    BY <1>1 DEF Followed, Kept
  <2>2. PICK m \in LayerNames : AckedEntry(<<m, d>>)
    BY <2>1, KnownInLayer
  <2>3. PICK l \in LayerNames :
          /\ AckedEntry(<<l, d>>)
          /\ \A n \in LayerNames : AckedEntry(<<n, d>>) => Position(n) <= Position(l)
    BY <2>2, LastLayer
  <2> QED  BY <2>1, <2>3, LatestKept
<1> QED  BY <1>1, FollowedInit, FollowedStep, PTL DEF Spec

-----------------------------------------------------------------------------
(* Queries miss no file and double none.                                   *)

\* What a query has counted and has to do.
Count == <<query.after, query.before, query.layer, query.todo, query.got, query.known>>

LEMMA CountUnchanged ==
  ASSUME TypeInv, [Next]_vars
  PROVE  \/ UNCHANGED Count
         \/ \E o \in Options : Query(o)
         \/ ListHours
         \/ RangeEnd
         \/ query' = NoQuery
<1>1. Shape /\ Pointers
  BY DEF TypeInv
<1>2. ASSUME NEW i \in DOMAIN calls, NEW p \in Places, Apply(i, p)
      PROVE  UNCHANGED Count
  BY <1>1, <1>2, ApplyQuery DEF Count
<1>3. ASSUME NEW p \in Places, QueryLoad(p) \/ RangeBegin(p)
      PROVE  UNCHANGED Count
  BY <1>1, <1>3, QueryLoaded, RangeBegins DEF Count
<1>4. ASSUME Crash \/ \E p \in Places : QueryFails(p)
      PROVE  query' = NoQuery
  BY <1>4 DEF Crash, QueryFails
<1>5. query' = query => UNCHANGED Count
  BY DEF Count
<1> QED  BY <1>2, <1>3, <1>4, <1>5, QueryUnchanged

\* An hour is listed once, unless both limits are given to the JSON index.
LEMMA ListedOnce ==
  ASSUME NEW n, NEW o, NEW p \in Places, isS3Layer(p[1]) \/ o.before = 0 \/ o.after = 0
  PROVE  findHours(n, o)[p] <= 1
<1> DEFINE earlier == {q \in Hours(n) : o.before = 0 \/ 2 * q[2] < o.before}
           between == {q \in earlier : o.after = 0 \/ q[2] >= RoundedHour(o.after)}
           kept    == {q \in earlier : o.before # 0 /\ o.after # 0 /\ KeepsEarlier(q[1])}
<1>1. findHours(n, o)[p] = Cardinality({p} \cap between) + Cardinality({p} \cap kept)
  BY DEF findHours
<1>2. p \notin kept
  BY DEF KeepsEarlier
<1> HIDE DEF between, kept, earlier
<1>3. Cardinality({p} \cap kept) = 0
  BY <1>2, OneAtMost
<1>4. Cardinality({p} \cap between) \in {0, 1}
  BY OneAtMost
<1> QED  BY <1>1, <1>3, <1>4

\* An hour of the layer that lies between the limits is listed.
LEMMA BetweenListed ==
  ASSUME NEW n, NEW o, NEW p \in Hours(n), p \in Places,
         o.before = 0 \/ 2 * p[2] < o.before,
         o.after = 0 \/ p[2] >= RoundedHour(o.after)
  PROVE  findHours(n, o)[p] > 0
<1> DEFINE earlier == {q \in Hours(n) : o.before = 0 \/ 2 * q[2] < o.before}
           between == {q \in earlier : o.after = 0 \/ q[2] >= RoundedHour(o.after)}
           kept    == {q \in earlier : o.before # 0 /\ o.after # 0 /\ KeepsEarlier(q[1])}
<1>1. findHours(n, o)[p] = Cardinality({p} \cap between) + Cardinality({p} \cap kept)
  BY DEF findHours
<1>2. p \in between
  OBVIOUS
<1> HIDE DEF between, kept, earlier
<1>3. Cardinality({p} \cap between) = 1 /\ Cardinality({p} \cap kept) \in Nat
  BY <1>2, OneAtMost
<1>4. Cardinality({p} \cap kept) \in {0, 1}
  BY OneAtMost
<1> QED  BY <1>1, <1>3, <1>4

\* A query has counted nothing of the layers to come, has to do hours of its layer only,
\* and counts an entry at most once, unless the JSON index lists its hour twice.
Counted ==
  /\ \A e \in Entries : e[1] \notin LayerNames \/ Position(e[1]) > query.layer => query.got[e] = 0
  /\ \A p \in Places : query.todo[p] > 0 => p[1] \in LayerNames /\ Position(p[1]) = query.layer
  /\ \A e \in Entries : isS3Layer(e[1]) \/ query.before = 0 \/ query.after = 0 =>
       query.got[e] + query.todo[Place(e)] <= 1

\* A query that has counted nothing and has nothing to do.
LEMMA NothingCounted ==
  ASSUME query.got = [e \in Entries |-> 0], query.todo = Zero
  PROVE  Counted
<1>1. \A e \in Entries : query.got[e] = 0 /\ Place(e) \in Places
  BY PlaceOfEntry
<1>2. \A p \in Places : query.todo[p] = 0
  BY DEF Zero
<1> QED  BY <1>1, <1>2 DEF Counted

LEMMA CountedStep ==
  ASSUME TypeInv, Counted, [Next]_vars
  PROVE  Counted'
<1>1. Shape /\ Ranged /\ query \in QueryRecord /\ query' \in QueryRecord
  BY QueryShape DEF TypeInv, Shape
<1>2. /\ query.layer \in Nat /\ query.todo \in [Places -> Nat] /\ query.got \in [Entries -> Nat]
      /\ query'.layer \in Nat /\ query'.todo \in [Places -> Nat]
      /\ query'.got \in [Entries -> Nat]
  BY <1>1 DEF QueryRecord
<1>3. \A l \in LayerNames : Position(l) \in Nat
  BY PositionOrder, LayersFinite
<1>4. \A e \in Entries : Place(e) \in Places /\ Place(e)[1] = e[1]
  BY PlaceOfEntry
<1>5. CASE UNCHANGED Count
  BY <1>5 DEF Counted, Count
<1>6. ASSUME query'.got = [e \in Entries |-> 0], query'.todo = Zero
      PROVE  Counted'
  <2>1. \A e \in Entries : query'.got[e] = 0
    BY <1>6
  <2>2. \A p \in Places : query'.todo[p] = 0
    BY <1>6 DEF Zero
  <2> QED  BY <1>4, <2>1, <2>2 DEF Counted
<1>7. CASE query' = NoQuery
  BY <1>6, <1>7, NoQueryIs
<1>8. ASSUME NEW o \in Options, Query(o)
      PROVE  Counted'
  BY <1>1, <1>6, <1>8, QueryBegins
<1>9. CASE ListHours
  <2>1. /\ query.todo = Zero /\ query'.layer = query.layer + 1
        /\ query'.todo = findHours(query.layer + 1, query)
        /\ query'.after = query.after /\ query'.before = query.before /\ query'.got = query.got
    BY <1>1, <1>9, HoursListed
  <2>2. \A p \in Places : query.todo[p] = 0
    BY <2>1 DEF Zero
  <2>3. ASSUME NEW p \in Places, query'.todo[p] > 0
        PROVE  p[1] \in LayerNames /\ Position(p[1]) = query.layer + 1
    BY <2>1, <2>3, Listed DEF Hours
  <2>4. ASSUME NEW e \in Entries, e[1] \notin LayerNames \/ Position(e[1]) > query.layer + 1
        PROVE  query'.got[e] = 0
    BY <1>2, <1>3, <2>1, <2>4 DEF Counted
  <2>5. ASSUME NEW e \in Entries, isS3Layer(e[1]) \/ query.before = 0 \/ query.after = 0
        PROVE  query'.got[e] + query'.todo[Place(e)] <= 1
    <3>1. query.got[e] <= 1
      BY <1>2, <1>4, <2>2, <2>5 DEF Counted
    <3>2. CASE query'.todo[Place(e)] = 0
      BY <1>2, <2>1, <3>1, <3>2
    <3>3. CASE query'.todo[Place(e)] > 0
      <4>1. e[1] \in LayerNames /\ Position(e[1]) > query.layer
        BY <1>2, <1>4, <2>3, <3>3
      <4>2. query.got[e] = 0
        BY <4>1 DEF Counted
      <4>3. query'.todo[Place(e)] <= 1
        BY <1>4, <2>1, <2>5, ListedOnce
      <4> QED  BY <1>2, <1>4, <2>1, <4>2, <4>3
    <3> QED  BY <1>2, <1>4, <3>2, <3>3
  <2> QED  BY <2>1, <2>3, <2>4, <2>5 DEF Counted
<1>10. CASE RangeEnd
  <2> DEFINE p == query.ranging[1]
  <2>1. /\ query.ranging # None /\ p \in Places /\ query.todo[p] > 0
        /\ query'.layer = query.layer /\ query'.todo = [query.todo EXCEPT ![p] = @ - 1]
        /\ query'.after = query.after /\ query'.before = query.before
        /\ \A e \in Entries : /\ query'.got[e] \in {query.got[e], query.got[e] + 1}
                              /\ e \notin query.may => query'.got[e] = query.got[e]
    BY <1>1, <1>10, RangeEnds
  <2>2. \A e \in query.may : Place(e) = p
    BY <1>1, <2>1 DEF Ranged
  <2>3. p[1] \in LayerNames /\ Position(p[1]) = query.layer
    BY <2>1 DEF Counted
  <2> HIDE DEF p
  <2>4. ASSUME NEW e \in Entries, e[1] \notin LayerNames \/ Position(e[1]) > query.layer
        PROVE  query'.got[e] = 0
    <3>1. Place(e) # p
      BY <1>2, <1>4, <2>3, <2>4
    <3> QED  BY <2>1, <2>2, <2>4, <3>1 DEF Counted
  <2>5. \A q \in Places : query'.todo[q] = IF q = p THEN query.todo[q] - 1 ELSE query.todo[q]
    BY <1>2, <2>1
  <2>6. ASSUME NEW e \in Entries, isS3Layer(e[1]) \/ query.before = 0 \/ query.after = 0
        PROVE  query'.got[e] + query'.todo[Place(e)] <= 1
    <3>1. query.got[e] + query.todo[Place(e)] <= 1
      BY <2>6 DEF Counted
    <3>2. CASE Place(e) = p
      BY <1>2, <1>4, <2>1, <2>5, <3>1, <3>2
    <3>3. CASE Place(e) # p
      BY <1>4, <2>1, <2>2, <2>5, <3>1, <3>3
    <3> QED  BY <3>2, <3>3
  <2>7. ASSUME NEW q \in Places, query'.todo[q] > 0
        PROVE  q[1] \in LayerNames /\ Position(q[1]) = query.layer
    BY <1>2, <2>1, <2>3, <2>5, <2>7 DEF Counted
  <2> QED  BY <2>1, <2>4, <2>6, <2>7 DEF Counted
<1> QED  BY <1>5, <1>7, <1>8, <1>9, <1>10, CountUnchanged

\* A file whose turn is still to come in a query: in a layer behind the one it does now,
\* or in an hour of that layer which it has to do, and which a Range that runs will see.
Ahead(l, d) ==
  LET p == Place(<<l, d>>)
  IN \/ Position(l) > query.layer
     \/ /\ Position(l) = query.layer /\ query.todo[p] > 0
        /\ query.ranging # None /\ query.ranging[1] = p => <<l, d>> \in query.must
Coming(l, d) == AckedEntry(<<l, d>>) /\ Ahead(l, d)
Wanted(d) == Covered(d) /\ ~RemovedByWriter(d) /\ PlacesOf(d) \cap twice = {}
Sought ==
  \A d \in query.known : Wanted(d) =>
    \E l \in LayerNames : query.got[<<l, d>>] > 0 \/ Coming(l, d)

\* The last layer of a file is at least as far as the one in which it was to come.
LEMMA LastAhead ==
  ASSUME Followed, NEW d, NEW m \in LayerNames, AckedEntry(<<m, d>>), Wanted(d)
  PROVE  \E l \in LayerNames :
           /\ Position(m) <= Position(l) /\ AckedEntry(<<l, d>>)
           /\ Place(<<l, d>>) \in Places /\ <<l, d>> \in Entries
           /\ <<l, d>> \in SavedAt(Place(<<l, d>>))
           /\ \A k \in DOMAIN opened[Place(<<l, d>>)] :
                <<l, d>> \in opened[Place(<<l, d>>)][k].files
<1>1. PICK l \in LayerNames :
        /\ AckedEntry(<<l, d>>) /\ Position(m) <= Position(l)
        /\ \A n \in LayerNames : AckedEntry(<<n, d>>) => Position(n) <= Position(l)
  BY LastLayer
<1>2. TypeInv /\ Durable /\ Logged /\ Moved
  BY DEF Followed, Kept
<1> QED  BY <1>1, <1>2, LatestKept DEF Wanted

\* The same of the next state.
Stands(l, d) ==
  /\ AckedEntry(<<l, d>>) /\ Place(<<l, d>>) \in Places
  /\ \A k \in DOMAIN opened[Place(<<l, d>>)] : <<l, d>> \in opened[Place(<<l, d>>)][k].files
Standing ==
  \A d : \A m \in LayerNames : AckedEntry(<<m, d>>) /\ Wanted(d) =>
    \E l \in LayerNames : Position(m) <= Position(l) /\ Stands(l, d)

LEMMA LastStands == Followed => Standing
BY LastAhead DEF Standing, Stands

LEMMA LastStandsNext == Followed' => Standing'
BY LastStands, PTL

\* The hour of a file in the range of the query lies between the limits of findHours.
LEMMA CoveredHour ==
  ASSUME query.after \in Nat, query.before \in Nat, NEW d \in Data, Covered(d), NEW l
  PROVE  LET p == Place(<<l, d>>)
         IN /\ query.before = 0 \/ 2 * p[2] < query.before
            /\ query.after = 0 \/ p[2] >= RoundedHour(query.after)
<1>1. At[d] \in Nat
  BY TableAssumption
<1>2. Place(<<l, d>>)[2] = At[d] \div 2
  BY DEF Place
<1>3. query.before # 0 => 2 * (At[d] \div 2) < query.before
  BY DEF Covered
<1>4. ASSUME query.after # 0
      PROVE  At[d] \div 2 >= RoundedHour(query.after)
  <2>1. query.after % 2 = 0 /\ query.after <= At[d]
    BY <1>1, <1>4 DEF Covered
  <2>2. query.after = 2 * (query.after \div 2) /\ query.after \div 2 \in Nat
    <3>1. ASSUME NEW a \in Nat, a % 2 = 0
          PROVE  a = 2 * (a \div 2) /\ a \div 2 \in Nat
      <4>1. 2 \in Nat \ {0}
        OBVIOUS
      <4>2. a \div 2 \in Nat /\ a = 2 * (a \div 2) + (a % 2)
        BY <4>1, Divided
      <4> QED  BY <3>1, <4>2
    <3> QED  BY <2>1, <3>1
  <2>3. RoundedHour(query.after) = query.after \div 2
    <3> DEFINE q == query.after \div 2
    <3>1. query.after + 1 = 2 * q + 1 /\ q \in Nat
      BY <2>2
    <3>2. (2 * q + 1) \div 2 = q
      BY <3>1, DividedIs
    <3> QED  BY <3>1, <3>2 DEF RoundedHour
  <2>4. query.after \div 2 <= At[d] \div 2
    BY <1>1, <2>1, DividedOrder
  <2>5. At[d] \div 2 \in Nat
    BY <1>1, Divided
  <2> QED  BY <2>2, <2>3, <2>4, <2>5
<1> QED  BY <1>2, <1>3, <1>4

\* The layers of a file whose turn comes, after the hours of the next layer are listed.
LEMMA ListedAhead ==
  ASSUME Followed, [Next]_vars, ListHours, NEW d \in query.known, Wanted(d),
         NEW m \in LayerNames, Coming(m, d)
  PROVE  \E l \in LayerNames : Coming(l, d)'
<1>1. Shape /\ Ranged /\ Layered /\ query \in QueryRecord /\ TypeInv
  BY DEF Followed, Kept, TypeInv, Shape
<1>2. /\ query.todo = Zero /\ query'.layer = query.layer + 1
      /\ query'.todo = findHours(query.layer + 1, query) /\ query'.ranging = query.ranging
  BY <1>1, HoursListed
<1>3. \A p \in Places : query.todo[p] = 0
  BY <1>2 DEF Zero
<1>4. query.ranging = None
  <2> SUFFICES ASSUME query.ranging # None
               PROVE  FALSE
    OBVIOUS
  <2>1. query.ranging[1] \in Places /\ query.todo[query.ranging[1]] > 0
    BY <1>1 DEF Ranged, QueryRecord, Opened
  <2> QED  BY <1>3, <2>1
<1>5. AckedEntry(<<m, d>>)
  BY DEF Coming
<1>6. query.known \subseteq Data /\ query.layer \in Nat /\ query.after \in Nat
      /\ query.before \in Nat
  BY <1>1 DEF QueryRecord
<1>7. Place(<<m, d>>) \in Places
  BY <1>6, EntryInLayer, PlaceOfEntry
<1>8. Position(m) > query.layer
  BY <1>3, <1>7 DEF Coming, Ahead
<1>9. PICK l \in LayerNames :
        /\ Position(m) <= Position(l) /\ AckedEntry(<<l, d>>)
        /\ Place(<<l, d>>) \in Places /\ <<l, d>> \in Entries
        /\ <<l, d>> \in SavedAt(Place(<<l, d>>))
  BY <1>5, LastAhead
<1>10. Position(l) \in Nat /\ Position(m) \in Nat
  BY PositionOrder, LayersFinite
<1>11. AckedEntry(<<l, d>>)'
  BY <1>1, <1>9, AckedStays
<1>12. CASE Position(l) > query.layer + 1
  BY <1>2, <1>11, <1>12 DEF Coming, Ahead
<1>13. CASE Position(l) = query.layer + 1
  <2> DEFINE p == Place(<<l, d>>)
  <2>1. p \in Places /\ p[1] = l /\ saved[p] # None
    BY <1>9, PlaceOfEntry DEF SavedAt
  <2>2. p \in Hours(query.layer + 1)
    BY <1>1, <1>13, <2>1 DEF Layered, Hours
  <2>3. /\ query.before = 0 \/ 2 * p[2] < query.before
        /\ query.after = 0 \/ p[2] >= RoundedHour(query.after)
    BY <1>6, CoveredHour DEF Wanted
  <2> HIDE DEF p
  <2>4. findHours(query.layer + 1, query)[p] > 0
    BY <2>1, <2>2, <2>3, BetweenListed
  <2>5. query'.todo[p] > 0
    BY <1>2, <2>4
  <2>6. Ahead(l, d)'
    BY <1>2, <1>4, <1>13, <2>5 DEF Ahead, p
  <2> QED  BY <1>11, <2>6 DEF Coming
<1> QED  BY <1>6, <1>8, <1>9, <1>10, <1>12, <1>13

\* A Range that begins sees a file in the last layer it was acknowledged in.
LEMMA RangeAhead ==
  ASSUME Followed, [Next]_vars, NEW q \in Places, RangeBegin(q), NEW d \in query.known, Wanted(d),
         NEW m \in LayerNames, Coming(m, d)
  PROVE  \E l \in LayerNames : Coming(l, d)'
<1>1. Shape /\ Pointers /\ TypeInv /\ query \in QueryRecord
  BY DEF Followed, Kept, TypeInv, Shape
<1>2. PICK k \in DOMAIN opened[q] :
        /\ query'.ranging = <<q, k>> /\ query'.must = opened[q][k].files
        /\ query'.layer = query.layer /\ query'.todo = query.todo /\ query.ranging = None
  BY <1>1, RangeBegins
<1>3. AckedEntry(<<m, d>>)
  BY DEF Coming
<1>4. PICK l \in LayerNames :
        /\ Position(m) <= Position(l) /\ AckedEntry(<<l, d>>)
        /\ Place(<<l, d>>) \in Places
        /\ \A j \in DOMAIN opened[Place(<<l, d>>)] :
             <<l, d>> \in opened[Place(<<l, d>>)][j].files
  BY <1>3, LastAhead
<1>5. Position(l) \in Nat /\ Position(m) \in Nat /\ query.layer \in Nat
  BY <1>1, PositionOrder, LayersFinite DEF QueryRecord
<1>6. AckedEntry(<<l, d>>)'
  BY <1>1, <1>4, AckedStays
<1>7. Position(m) >= query.layer
  BY <1>5 DEF Coming, Ahead
<1>8. CASE Position(l) > query.layer
  BY <1>2, <1>6, <1>8 DEF Coming, Ahead
<1>9. CASE Position(l) = query.layer
  <2>1. m = l /\ query.todo[Place(<<l, d>>)] > 0
    <3>1. Position(m) = Position(l)
      BY <1>4, <1>5, <1>7, <1>9
    <3>2. m = l
      BY <3>1, PositionOrder
    <3> QED  BY <1>5, <1>9, <3>2 DEF Coming, Ahead
  <2>2. query'.ranging[1] = Place(<<l, d>>) => <<l, d>> \in query'.must
    BY <1>2, <1>4
  <2> QED  BY <1>2, <1>6, <1>9, <2>1, <2>2 DEF Coming, Ahead
<1> QED  BY <1>4, <1>5, <1>7, <1>8, <1>9

\* A call that changes what a Range visits leaves there what nobody has moved on.
LEMMA ApplyAhead ==
  ASSUME Followed, Followed', [Next]_vars, NEW i \in DOMAIN calls, NEW q \in Places, Apply(i, q),
         NEW d \in query.known, Wanted(d)', NEW m \in LayerNames, Coming(m, d)
  PROVE  \E l \in LayerNames : Coming(l, d)'
<1> DEFINE k == FoundFor(i, q)
<1>1. Shape /\ Pointers /\ TypeInv /\ query \in QueryRecord
  BY DEF Followed, Kept, TypeInv, Shape
<1>2. query'.layer = query.layer /\ query'.todo = query.todo /\ query'.ranging = query.ranging
  BY <1>1, ApplyQuery
<1>3. \/ query' = query
      \/ query.ranging = <<q, k>> /\ query'.must = query.must \cap opened'[q][k].files
  BY <1>1, ApplyQuery
<1>4. k \in DOMAIN opened'[q]
  <2>1. k \in DOMAIN opened[q] /\ (opened' = opened \/ AppliedTo(i, q, k))
    BY <1>1, ApplyPart
  <2> QED  BY <2>1 DEF AppliedTo
<1> HIDE DEF k
<1>5. AckedEntry(<<m, d>>)'
  BY <1>1, AckedStays DEF Coming
<1>6. PICK l \in LayerNames :
        /\ Position(m) <= Position(l) /\ AckedEntry(<<l, d>>)'
        /\ Place(<<l, d>>) \in Places
        /\ \A j \in DOMAIN opened'[Place(<<l, d>>)] :
             <<l, d>> \in opened'[Place(<<l, d>>)][j].files
  <2>1. \E l \in LayerNames : (Position(m) <= Position(l) /\ Stands(l, d))'
    BY <1>5, LastStandsNext DEF Standing
  <2> QED  BY <2>1 DEF Stands
<1>7. Position(l) \in Nat /\ Position(m) \in Nat /\ query.layer \in Nat
  BY <1>1, PositionOrder, LayersFinite DEF QueryRecord
<1>8. Position(m) >= query.layer
  BY <1>7 DEF Coming, Ahead
<1>9. CASE Position(l) > query.layer
  BY <1>2, <1>6, <1>9 DEF Coming, Ahead
<1>10. CASE Position(l) = query.layer
  <2> DEFINE p == Place(<<l, d>>)
  <2>1. m = l
    <3>1. Position(m) = Position(l)
      BY <1>6, <1>7, <1>8, <1>10
    <3> QED  BY <3>1, PositionOrder
  <2>2. query.todo[p] > 0 /\ (query.ranging # None /\ query.ranging[1] = p => <<l, d>> \in query.must)
    BY <1>7, <1>10, <2>1 DEF Coming, Ahead
  <2>3. ASSUME query'.ranging # None, query'.ranging[1] = p
        PROVE  <<l, d>> \in query'.must
    BY <1>2, <1>3, <1>4, <1>6, <2>2, <2>3
  <2> QED  BY <1>2, <1>6, <1>10, <2>2, <2>3 DEF Coming, Ahead
<1> QED  BY <1>6, <1>7, <1>8, <1>9, <1>10

\* A Range that ends has counted the file that was to come in its hour.
LEMMA EndAhead ==
  ASSUME Followed, [Next]_vars, RangeEnd, NEW d \in query.known, Wanted(d),
         NEW m \in LayerNames, Coming(m, d)
  PROVE  query'.got[<<m, d>>] > 0 \/ Coming(m, d)'
<1>1. Shape /\ Ranged /\ TypeInv /\ query \in QueryRecord
  BY DEF Followed, Kept, TypeInv, Shape
<1> DEFINE p == query.ranging[1]
<1>2. /\ query.ranging # None /\ p \in Places
      /\ query'.ranging = None
      /\ query'.layer = query.layer /\ query'.todo = [query.todo EXCEPT ![p] = @ - 1]
      /\ \A e \in Entries :
           e \in query.must /\ Matches(e, query) => query'.got[e] = query.got[e] + 1
  BY <1>1, RangeEnds
<1>3. AckedEntry(<<m, d>>)'
  BY <1>1, AckedStays DEF Coming
<1>4. <<m, d>> \in Entries /\ Place(<<m, d>>) \in Places
  BY <1>1, EntryInLayer, PlaceOfEntry DEF QueryRecord
<1>5. query.got[<<m, d>>] \in Nat
  BY <1>1, <1>4 DEF QueryRecord
<1>6. CASE Position(m) > query.layer
  BY <1>2, <1>3, <1>6 DEF Coming, Ahead
<1>7. ASSUME ~(Position(m) > query.layer), Place(<<m, d>>) = p
      PROVE  query'.got[<<m, d>>] > 0
  <2>1. <<m, d>> \in query.must
    BY <1>2, <1>7 DEF Coming, Ahead
  <2>2. Matches(<<m, d>>, query)
    BY DEF Wanted, Covered, Matches
  <2> QED  BY <1>2, <1>4, <1>5, <2>1, <2>2
<1>8. ASSUME ~(Position(m) > query.layer), Place(<<m, d>>) # p
      PROVE  Coming(m, d)'
  <2>1. query'.todo[Place(<<m, d>>)] = query.todo[Place(<<m, d>>)]
    BY <1>1, <1>2, <1>4, <1>8 DEF QueryRecord
  <2> QED  BY <1>2, <1>3, <1>8, <2>1 DEF Coming, Ahead
<1> QED  BY <1>6, <1>7, <1>8

LEMMA SoughtStep ==
  ASSUME Followed, Followed', Sought, [Next]_vars
  PROVE  Sought'
<1>1. Shape /\ Pointers /\ Logged /\ TypeInv /\ query \in QueryRecord
  BY DEF Followed, Kept, TypeInv, Shape
<1>2. twice \subseteq twice'
  BY SingleStep DEF Followed, Kept
<1>3. ASSUME query'.known = {}
      PROVE  Sought'
  BY <1>3 DEF Sought
<1>4. ASSUME NEW o \in Options, Query(o)
      PROVE  Sought'
  <2> SUFFICES ASSUME NEW d \in query'.known
               PROVE  \E l \in LayerNames : Coming(l, d)'
    BY DEF Sought
  <2>1. query'.known = Known /\ query'.layer = 0
    BY <1>1, <1>4, QueryBegins
  <2>2. PICK l \in LayerNames : AckedEntry(<<l, d>>)
    BY <1>1, <2>1, KnownInLayer
  <2>3. AckedEntry(<<l, d>>)'
    BY <1>1, <2>2, AckedStays
  <2>4. Position(l) > 0
    BY PositionOrder, LayersFinite
  <2> QED  BY <2>1, <2>3, <2>4 DEF Coming, Ahead
<1>5. ASSUME query' # NoQuery, \A o \in Options : ~Query(o)
      PROVE  Sought'
  <2>1. query'.after = query.after /\ query'.before = query.before
        /\ query'.known = query.known
    BY <1>1, <1>5, CountUnchanged, HoursListed, RangeEnds DEF Count, TypeInv
  <2>2. query'.known \subseteq Data /\ query'.got \in [Entries -> Nat]
        /\ query.got \in [Entries -> Nat]
    BY <1>1, QueryShape DEF QueryRecord
  <2> SUFFICES ASSUME NEW d \in query'.known, Wanted(d)'
               PROVE  \E l \in LayerNames : query'.got[<<l, d>>] > 0 \/ Coming(l, d)'
    BY DEF Sought
  <2>3. Wanted(d)
    <3>1. Covered(d)
      BY <2>1 DEF Wanted, Covered, Matches
    <3>2. ~RemovedByWriter(d)
      BY <1>1, AckedStays DEF Wanted
    <3>3. PlacesOf(d) \cap twice = {}
      BY <1>2 DEF Wanted, PlacesOf
    <3> QED  BY <3>1, <3>2, <3>3 DEF Wanted
  <2>4. PICK m \in LayerNames : query.got[<<m, d>>] > 0 \/ Coming(m, d)
    BY <2>1, <2>3 DEF Sought
  <2>5. <<m, d>> \in Entries
    BY <2>2, EntryInLayer
  <2>6. CASE query.got[<<m, d>>] > 0
    <3>1. query'.got[<<m, d>>] \in {query.got[<<m, d>>], query.got[<<m, d>>] + 1}
      BY <1>1, <1>5, <2>5, CountUnchanged, HoursListed, RangeEnds DEF Count, TypeInv
    <3> QED  BY <2>2, <2>5, <2>6, <3>1
  <2>7. ASSUME Coming(m, d)
        PROVE  \E l \in LayerNames : query'.got[<<l, d>>] > 0 \/ Coming(l, d)'
    <3>1. ASSUME NEW i \in DOMAIN calls, NEW p \in Places, Apply(i, p)
          PROVE  \E l \in LayerNames : Coming(l, d)'
      BY <2>1, <2>7, <3>1, ApplyAhead
    <3>2. ASSUME ListHours
          PROVE  \E l \in LayerNames : Coming(l, d)'
      BY <2>1, <2>3, <2>7, <3>2, ListedAhead
    <3>3. ASSUME NEW p \in Places, RangeBegin(p)
          PROVE  \E l \in LayerNames : Coming(l, d)'
      BY <2>1, <2>3, <2>7, <3>3, RangeAhead
    <3>4. ASSUME RangeEnd
          PROVE  query'.got[<<m, d>>] > 0 \/ Coming(m, d)'
      BY <2>1, <2>3, <2>7, <3>4, EndAhead
    <3>5. ASSUME query'.layer = query.layer, query'.todo = query.todo,
                 query'.ranging = query.ranging, query'.must = query.must
          PROVE  Coming(m, d)'
      BY <1>1, <2>7, <3>5, AckedStays DEF Coming, Ahead
    <3>6. ASSUME NEW p \in Places, QueryLoad(p)
          PROVE  Coming(m, d)'
      BY <1>1, <3>5, <3>6, QueryLoaded
    <3>7. ASSUME query' = query
          PROVE  Coming(m, d)'
      BY <3>5, <3>7
    <3>8. ~Crash /\ \A p \in Places : ~QueryFails(p)
      BY <1>5 DEF Crash, QueryFails
    <3> QED  BY <1>5, <3>1, <3>2, <3>3, <3>4, <3>6, <3>7, <3>8, QueryUnchanged
  <2> QED  BY <2>4, <2>6, <2>7
<1>6. query' = NoQuery => Sought'
  BY <1>3, NoQueryIs
<1> QED  BY <1>4, <1>5, <1>6

Exact == Followed /\ Counted /\ Sought

LEMMA ExactInit ==
  ASSUME Init
  PROVE  Exact
<1>1. query = NoQuery
  BY DEF Init
<1>2. query.got = [e \in Entries |-> 0] /\ query.todo = Zero /\ query.known = {}
  BY <1>1, NoQueryIs
<1>3. Counted
  BY <1>2, NothingCounted
<1>4. Sought
  BY <1>2 DEF Sought
<1> QED  BY <1>3, <1>4, FollowedInit DEF Exact

LEMMA ExactStep ==
  ASSUME Exact, [Next]_vars
  PROVE  Exact'
<1>1. Followed' /\ Counted'
  BY FollowedStep, CountedStep DEF Exact, Followed, Kept
<1>2. Sought'
  BY <1>1, SoughtStep DEF Exact
<1> QED  BY <1>1, <1>2 DEF Exact

\* What a query has returned, when nothing is to come.
LEMMA ExactIsReturned ==
  ASSUME Exact, Returned
  PROVE  RowsSeen /\ NoneDoubled
<1>1. query \in QueryRecord /\ Shape
  BY DEF Exact, Followed, Kept, TypeInv, Shape
<1>2. query.layer = Len(Layers) /\ \A p \in Places : query.todo[p] = 0
  BY DEF Returned, Zero
<1>3. ASSUME NEW d \in query.known, Wanted(d)
      PROVE  \E l \in LayerNames : query.got[<<l, d>>] > 0
  <2>1. PICK l \in LayerNames : query.got[<<l, d>>] > 0 \/ Coming(l, d)
    BY <1>3 DEF Exact, Sought
  <2>2. Place(<<l, d>>) \in Places
    BY <1>1, EntryInLayer, PlaceOfEntry DEF QueryRecord
  <2>3. Position(l) <= Len(Layers) /\ Position(l) \in Nat /\ Len(Layers) \in Nat
    BY PositionOrder, LayersFinite
  <2>4. ~Coming(l, d)
    BY <1>2, <2>2, <2>3 DEF Coming, Ahead
  <2> QED  BY <2>1, <2>4
<1>4. RowsSeen
  BY <1>3 DEF RowsSeen, Wanted
<1>5. NoneDoubled
  <2> SUFFICES ASSUME NEW e \in Entries, isS3Layer(e[1]) \/ query.before = 0 \/ query.after = 0
               PROVE  ~(query.got[e] > 1)
    BY DEF NoneDoubled
  <2>1. query.got[e] + query.todo[Place(e)] <= 1
    BY DEF Exact, Counted
  <2>2. query.todo[Place(e)] = 0 /\ query.got[e] \in Nat
    BY <1>1, <1>2, PlaceOfEntry DEF QueryRecord
  <2> QED  BY <2>1, <2>2
<1> QED  BY <1>4, <1>5

\* A query returns every file that was acknowledged when it began and lies in its range,
\* even one that movers take from layer to layer while it runs, and none twice, unless
\* the JSON index has listed its hour twice.
THEOREM QueriesExact == Spec => []QueryExact
<1>1. Exact => QueryExact
  BY ExactIsReturned DEF QueryExact
<1> QED  BY <1>1, ExactInit, ExactStep, PTL DEF Spec
=============================================================================
