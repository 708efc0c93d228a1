--------------------------- MODULE S3KVStoreProofs ---------------------------
(* What was acknowledged by a key-value store in an object of a bucket, for *)
(* any processes, keys and numbers of calls, conflicts, failures, lost      *)
(* responses and crashes.                                                   *)
EXTENDS S3KVStore, DataLemmas

-----------------------------------------------------------------------------
(* The history of calls.                                                   *)

CallRecord ==
  [by : Writers, key : Keys, res : {"pending", "ok", "err", "exhausted", "lost"}]

\* The history stays one, and its calls stay those of their process and their key.
Grown ==
  /\ calls' \in Seq(CallRecord) /\ Len(calls) <= Len(calls')
  /\ DOMAIN calls \subseteq DOMAIN calls'
  /\ \A n \in DOMAIN calls : calls'[n].by = calls[n].by /\ calls'[n].key = calls[n].key

\* The calls are numbered, and each is of a process and about a key.
LEMMA LogType ==
  ASSUME calls \in Seq(CallRecord)
  PROVE  /\ Len(calls) \in Nat /\ DOMAIN calls = 1 .. Len(calls)
         /\ \A n \in DOMAIN calls : n \in Nat /\ calls[n].by \in Writers /\ calls[n].key \in Keys
<1>1. Len(calls) \in Nat /\ DOMAIN calls = 1 .. Len(calls)
  OBVIOUS
<1>2. \A n \in DOMAIN calls : calls[n] \in CallRecord
  OBVIOUS
<1> QED  BY <1>1, <1>2 DEF CallRecord

\* A call of Put or Delete is added to it.
LEMMA LogWrite ==
  ASSUME calls \in Seq(CallRecord), NEW w \in Writers, NEW k \in Keys, Write(w, k)
  PROVE  /\ Grown
         /\ Len(calls) \in Nat /\ Len(calls') = Len(calls) + 1
         /\ DOMAIN calls = 1 .. Len(calls)
         /\ DOMAIN calls' = DOMAIN calls \cup {Len(calls) + 1}
         /\ Len(calls) + 1 \notin DOMAIN calls
         /\ \A n \in DOMAIN calls : calls'[n] = calls[n]
         /\ calls'[Len(calls) + 1].by = w /\ calls'[Len(calls) + 1].key = k
         /\ calls'[Len(calls) + 1].res = "pending"
<1> DEFINE c == [by |-> w, key |-> k, res |-> "pending"]
<1>1. c \in CallRecord
  BY DEF CallRecord
<1>2. calls' = Append(calls, c)
  BY DEF Write
<1>3. c.by = w /\ c.key = k /\ c.res = "pending"
  OBVIOUS
<1> HIDE DEF c
<1>4. /\ calls' \in Seq(CallRecord) /\ calls'[Len(calls) + 1] = c
      /\ Len(calls) \in Nat /\ Len(calls') = Len(calls) + 1
      /\ DOMAIN calls = 1 .. Len(calls)
      /\ DOMAIN calls' = DOMAIN calls \cup {Len(calls) + 1}
      /\ Len(calls) + 1 \notin DOMAIN calls
      /\ \A n \in DOMAIN calls : calls'[n] = calls[n]
  BY <1>1, <1>2, Appended
<1>5. Grown
  BY <1>4 DEF Grown
<1> QED  BY <1>3, <1>4, <1>5

\* A promise is resolved.
LEMMA LogRelease ==
  ASSUME TypeOK, NEW w \in Writers, Release(w)
  PROVE  \E n \in held[w] :
           /\ Grown
           /\ n \in DOMAIN calls /\ calls[n].by = w /\ calls[n].res = "pending"
           /\ Len(calls') = Len(calls) /\ DOMAIN calls' = DOMAIN calls
           /\ \A m \in DOMAIN calls : m # n => calls'[m] = calls[m]
           /\ calls'[n].res = outcome[w]
           /\ held' = [held EXCEPT ![w] = @ \ {n}]
           /\ pc' = [pc EXCEPT ![w] = IF held[w] = {n} THEN "select" ELSE "release"]
<1> DEFINE n == Min(held[w])
<1>1. calls \in Seq(CallRecord) /\ outcome[w] \in {"ok", "err", "exhausted"}
  BY DEF TypeOK, CallRecord
<1>2. DOMAIN calls = 1 .. Len(calls) /\ Len(calls) \in Nat
  BY <1>1
<1>3. held[w] \subseteq Outstanding(w) /\ held[w] # {}
  BY DEF TypeOK, Release
<1>4. held[w] \subseteq Nat
  BY <1>2, <1>3 DEF Outstanding
<1>5. n \in held[w]
  BY <1>3, <1>4, MinIn
<1>6. /\ calls' = [calls EXCEPT ![n].res = outcome[w]]
      /\ held' = [held EXCEPT ![w] = @ \ {n}]
      /\ pc' = [pc EXCEPT ![w] = IF held[w] = {n} THEN "select" ELSE "release"]
  BY DEF Release
<1> HIDE DEF n
<1>7. n \in DOMAIN calls /\ calls[n].by = w /\ calls[n].res = "pending"
  BY <1>3, <1>5 DEF Outstanding
<1>8. \A m \in DOMAIN calls : calls[m] \in CallRecord
  BY <1>1
<1>9. DOMAIN calls' = DOMAIN calls /\ calls' = [m \in DOMAIN calls |-> calls'[m]]
      /\ \A m \in DOMAIN calls : m # n => calls'[m] = calls[m]
  BY <1>6
<1>10. calls'[n] = [calls[n] EXCEPT !.res = outcome[w]]
  BY <1>6, <1>7
<1>11. /\ calls'[n] \in CallRecord /\ calls'[n].res = outcome[w]
       /\ calls'[n].key = calls[n].key /\ calls'[n].by = calls[n].by
  BY <1>1, <1>7, <1>8, <1>10 DEF CallRecord
<1>12. \A m \in DOMAIN calls : /\ calls'[m] \in CallRecord
                               /\ calls'[m].key = calls[m].key /\ calls'[m].by = calls[m].by
  BY <1>8, <1>9, <1>11
<1>13. calls' \in Seq(CallRecord) /\ Len(calls') = Len(calls)
  BY <1>1, <1>9, <1>12, Updated
<1>14. Grown
  BY <1>2, <1>9, <1>12, <1>13 DEF Grown
<1> QED  BY <1>5, <1>6, <1>7, <1>9, <1>11, <1>13, <1>14

\* A crash takes the waiting calls of the process away and leaves the others.
LEMMA LogCrash ==
  ASSUME calls \in Seq(CallRecord), NEW w \in Writers, Crash(w)
  PROVE  /\ Grown
         /\ Len(calls') = Len(calls) /\ DOMAIN calls' = DOMAIN calls
         /\ \A m \in DOMAIN calls : /\ m \notin Outstanding(w) => calls'[m] = calls[m]
                                    /\ calls'[m].res = "ok" => calls[m].res = "ok"
<1>1. calls' = [n \in DOMAIN calls |->
                  IF n \in Outstanding(w) THEN [calls[n] EXCEPT !.res = "lost"] ELSE calls[n]]
  BY DEF Crash
<1>2. \A m \in DOMAIN calls : calls[m] \in CallRecord
  OBVIOUS
<1>3. ASSUME NEW m \in DOMAIN calls
      PROVE  /\ calls'[m] \in CallRecord /\ calls'[m].key = calls[m].key /\ calls'[m].by = calls[m].by
             /\ calls'[m].res = "ok" => calls[m].res = "ok"
             /\ m \notin Outstanding(w) => calls'[m] = calls[m]
  BY <1>1, <1>2 DEF CallRecord
<1>4. DOMAIN calls' = DOMAIN calls /\ calls' = [n \in DOMAIN calls |-> calls'[n]]
  BY <1>1
<1>5. calls' \in Seq(CallRecord) /\ Len(calls') = Len(calls)
  BY <1>3, <1>4, Updated
<1>6. Grown
  BY <1>3, <1>4, <1>5 DEF Grown
<1> QED  BY <1>3, <1>4, <1>5, <1>6

-----------------------------------------------------------------------------
(* The shape of the state.                                                 *)

\* The goroutine of a process is woken only for a promise, and has one in hand while
\* it saves.
Saving == {"marshal", "stat", "put", "reload", "release"}
SaverWoken ==
  \A w \in Writers : /\ armed[w] => promises[w] # {}
                     /\ pc[w] \in Saving => held[w] # {}

\* The steps of a save that leave the promises alone.
LEMMA WithinSave ==
  ASSUME NEW w \in Writers,
         Marshal(w) \/ Stat(w) \/ Put(w) \/ PutLost(w) \/ Fail(w) \/ Reload(w)
  PROVE  /\ UNCHANGED <<promises, armed, held, calls, pending, heldChange, destroyed>>
         /\ pc[w] \in Saving
         /\ \E at \in Saving : pc' = [pc EXCEPT ![w] = at]
<1>1. CASE Marshal(w) \/ Stat(w)
  BY <1>1 DEF Marshal, Stat, memVars, Saving
<1>2. CASE Put(w) \/ PutLost(w) \/ Fail(w)
  BY <1>2 DEF Put, PutLost, Fail, Answer, memVars, Saving
<1>3. CASE Reload(w)
  BY <1>3 DEF Reload, Answer, Marshalling, Saving
<1> QED  BY <1>1, <1>2, <1>3

\* Every step preserves this.
LEMMA WokenStep ==
  ASSUME TypeOK, SaverWoken, [Next]_vars
  PROVE  SaverWoken'
<1>1. /\ promises \in [Writers -> SUBSET DOMAIN calls] /\ held \in [Writers -> SUBSET DOMAIN calls]
      /\ armed \in [Writers -> BOOLEAN] /\ DOMAIN pc = Writers
  BY DEF TypeOK
<1>2. ASSUME NEW w \in Writers, NEW k \in Keys, Write(w, k)
      PROVE  SaverWoken'
  BY <1>1, <1>2 DEF Write, Signal, SaverWoken
<1>3. ASSUME NEW w \in Writers, Destroy(w)
      PROVE  SaverWoken'
  BY <1>3 DEF Destroy, saveVars, SaverWoken
<1>4. ASSUME NEW w \in Writers, Exit(w)
      PROVE  SaverWoken'
  BY <1>1, <1>4 DEF Exit, memVars, SaverWoken, Saving
<1>5. ASSUME NEW w \in Writers, SaveBegin(w)
      PROVE  SaverWoken'
  BY <1>1, <1>5 DEF SaveBegin, TakePromises, Marshalling, SaverWoken, Saving
<1>6. ASSUME NEW w \in Writers,
             Marshal(w) \/ Stat(w) \/ Put(w) \/ PutLost(w) \/ Fail(w) \/ Reload(w)
      PROVE  SaverWoken'
  BY <1>1, <1>6, WithinSave DEF SaverWoken
<1>7. ASSUME NEW w \in Writers, Release(w)
      PROVE  SaverWoken'
  <2>1. PICK n \in held[w] :
           /\ held' = [held EXCEPT ![w] = @ \ {n}]
           /\ pc' = [pc EXCEPT ![w] = IF held[w] = {n} THEN "select" ELSE "release"]
    BY <1>7, LogRelease
  <2>2. UNCHANGED <<promises, armed>>
    BY <1>7 DEF Release, memVars
  <2> QED  BY <1>1, <2>1, <2>2 DEF SaverWoken, Saving
<1>8. ASSUME NEW w \in Writers, Crash(w)
      PROVE  SaverWoken'
  BY <1>1, <1>8 DEF Crash, SaverWoken, Saving
<1>9. CASE UNCHANGED vars
  BY <1>9 DEF vars, memVars, saveVars, SaverWoken
<1> QED  BY <1>2, <1>3, <1>4, <1>5, <1>6, <1>7, <1>8, <1>9 DEF Next, Saver

\* A fault is counted.
LEMMA SpentType ==
  ASSUME TypeOK, NEW what \in {"failures", "lost", "crashes"}, Spend(what)
  PROVE  /\ spent' \in [{"failures", "lost", "crashes"} -> Nat]
         /\ spent' = [spent EXCEPT ![what] = @ + 1]
BY DEF TypeOK, Spend

\* What the bucket holds, and the changes of a save on top of it, are contents of it.
LEMMA ContentTypes ==
  ASSUME TypeOK, NEW w \in Writers
  PROVE  /\ Empty \in Content /\ Current \in Content /\ Merged(heldChange[w]) \in Content
         /\ cache[w] \in Content /\ pending[w] \in Content /\ contents[w] \in Content
         /\ object \in {NoObject} \cup Content
<1>1. calls \in Seq(CallRecord)
  BY DEF TypeOK, CallRecord
<1>2. Len(calls) \in Nat
  BY <1>1
<1>3. Empty \in Content
  BY <1>2 DEF Empty, Content
<1>4. Current \in Content
  BY <1>3 DEF Current, TypeOK
<1>5. heldChange[w] \in Content /\ cache[w] \in Content /\ pending[w] \in Content
      /\ contents[w] \in Content
  BY DEF TypeOK
<1>6. Merged(heldChange[w]) \in Content
  BY <1>4, <1>5 DEF Merged, Content
<1> QED  BY <1>3, <1>4, <1>5, <1>6 DEF TypeOK

\* The part of the shape that a step within a save may disturb, when the calls and
\* the promises stay.
LEMMA TypeWithin ==
  ASSUME TypeOK, SaverWoken, NEW w \in Writers,
         Marshal(w) \/ Stat(w) \/ Put(w) \/ PutLost(w) \/ Fail(w) \/ Reload(w)
  PROVE  TypeOK'
<1>1. /\ UNCHANGED <<promises, armed, held, calls, pending, heldChange, destroyed>>
      /\ pc[w] \in Saving
  BY WithinSave
<1>2. PICK at \in Saving : pc' = [pc EXCEPT ![w] = at]
  BY WithinSave
<1>3. Content' = Content /\ \A v \in Writers : Outstanding(v)' = Outstanding(v)
  BY <1>1 DEF Content, Outstanding
<1>4. pc' \in [Writers -> {"select", "marshal", "stat", "put", "reload", "release", "gone"}]
  BY <1>2 DEF TypeOK, Saving
<1>5. \A v \in Writers : pc'[v] = "release" => held'[v] # {}
  BY <1>1, <1>2 DEF TypeOK, SaverWoken
<1>6. cache[w] \in Content /\ contents[w] \in Content /\ object \in {NoObject} \cup Content
      /\ Merged(heldChange[w]) \in Content
  BY ContentTypes
<1>7. /\ object' \in {NoObject} \cup Content
      /\ stored' \cup exposed' \subseteq DOMAIN calls
      /\ etag' \in [Writers -> {NoObject} \cup Content]
      /\ cache' \in [Writers -> Content] /\ contents' \in [Writers -> Content]
      /\ attempt' \in [Writers -> 0 .. maxKVFlushRetries - 1]
      /\ window' \in [Writers -> [Keys -> SUBSET (0 .. Len(calls))]]
      /\ outcome' \in [Writers -> {"ok", "err", "exhausted"}]
      /\ spent' \in [{"failures", "lost", "crashes"} -> Nat]
  <2>1. CASE Marshal(w)
    <3>1. PICK map \in [Keys -> UNION {window[w][k] : k \in Keys}] :
            /\ \A k \in Keys : map[k] \in window[w][k]
            /\ contents' = [contents EXCEPT ![w] = map]
      BY <2>1 DEF Marshal
    <3>2. map \in Content
      BY <3>1 DEF TypeOK, Content
    <3>3. contents' \in [Writers -> Content]
      BY <3>1, <3>2 DEF TypeOK
    <3> QED  BY <2>1, <3>3 DEF Marshal, bucketVars, memVars, TypeOK
  <2>2. CASE Stat(w)
    BY <2>2 DEF Stat, bucketVars, memVars, TypeOK
  <2>3. CASE Put(w)
    <3>1. etag' \in [Writers -> {NoObject} \cup Content] /\ object' \in Content
      BY <1>6, <2>3 DEF Put, Upload, TypeOK
    <3> QED  BY <2>3, <3>1 DEF Put, Upload, Answer, TypeOK
  <2>4. CASE PutLost(w)
    <3>1. spent' \in [{"failures", "lost", "crashes"} -> Nat] /\ object' \in Content
      BY <1>6, <2>4, SpentType DEF PutLost, Upload
    <3> QED  BY <2>4, <3>1 DEF PutLost, Upload, Answer, memVars, TypeOK
  <2>5. CASE Fail(w)
    <3>1. spent' \in [{"failures", "lost", "crashes"} -> Nat]
      BY <2>5, SpentType DEF Fail
    <3> QED  BY <2>5, <3>1 DEF Fail, Answer, bucketVars, memVars, TypeOK
  <2>6. CASE Reload(w)
    <3> DEFINE merged == Merged(heldChange[w])
    <3>1. /\ etag' = [etag EXCEPT ![w] = object] /\ cache' = [cache EXCEPT ![w] = merged]
          /\ exposed' = exposed \cup promises[w]
          /\ UNCHANGED <<object, stored, contents, spent>>
      BY <2>6 DEF Reload
    <3>2. /\ attempt' \in [Writers -> 0 .. maxKVFlushRetries - 1]
          /\ window' \in [Writers -> [Keys -> SUBSET (0 .. Len(calls))]]
          /\ outcome' \in [Writers -> {"ok", "err", "exhausted"}]
      <4>1. CASE attempt[w] + 1 < maxKVFlushRetries
        <5>1. /\ attempt' = [attempt EXCEPT ![w] = @ + 1] /\ UNCHANGED outcome
              /\ window' = [window EXCEPT ![w] = [k \in Keys |-> {merged[k]}]]
          BY <2>6, <4>1 DEF Reload, Marshalling
        <5>2. [k \in Keys |-> {merged[k]}] \in [Keys -> SUBSET (0 .. Len(calls))]
          BY <1>6 DEF Content
        <5>3. window' \in [Writers -> [Keys -> SUBSET (0 .. Len(calls))]]
          BY <5>1, <5>2 DEF TypeOK
        <5>4. attempt[w] + 1 \in 0 .. maxKVFlushRetries - 1
          BY <4>1, S3KVAssumption DEF TypeOK
        <5> QED  BY <5>1, <5>3, <5>4 DEF TypeOK
      <4>2. CASE ~(attempt[w] + 1 < maxKVFlushRetries)
        BY <2>6, <4>2 DEF Reload, Answer, TypeOK
      <4> QED  BY <4>1, <4>2
    <3>3. etag' \in [Writers -> {NoObject} \cup Content] /\ cache' \in [Writers -> Content]
      BY <1>6, <3>1 DEF TypeOK
    <3>4. exposed' \subseteq DOMAIN calls
      BY <3>1 DEF TypeOK
    <3> QED  BY <3>1, <3>2, <3>3, <3>4 DEF TypeOK
  <2> QED  BY <2>1, <2>2, <2>3, <2>4, <2>5, <2>6
<1> QED  BY <1>1, <1>3, <1>4, <1>5, <1>7 DEF TypeOK

\* Every step preserves the shape of the state.
LEMMA TypeStep ==
  ASSUME TypeOK, SaverWoken, [Next]_vars
  PROVE  TypeOK'
<1>1. calls \in Seq(CallRecord)
  BY DEF TypeOK, CallRecord
<1>2. /\ Len(calls) \in Nat /\ DOMAIN calls = 1 .. Len(calls)
      /\ \A n \in DOMAIN calls : n \in Nat /\ calls[n].by \in Writers /\ calls[n].key \in Keys
  BY <1>1, LogType
<1>3. ASSUME NEW w \in Writers, NEW k \in Keys, Write(w, k)
      PROVE  TypeOK'
  <2> DEFINE m == Len(calls) + 1
  <2>1. /\ Grown /\ Len(calls') = m
        /\ DOMAIN calls' = DOMAIN calls \cup {m} /\ m \notin DOMAIN calls
        /\ \A n \in DOMAIN calls : calls'[n] = calls[n]
        /\ calls'[m].by = w /\ calls'[m].res = "pending"
    BY <1>1, <1>3, LogWrite
  <2>2. /\ cache' = [cache EXCEPT ![w][k] = m] /\ pending' = [pending EXCEPT ![w][k] = m]
        /\ promises' = [promises EXCEPT ![w] = @ \cup {m}]
        /\ window' = [window EXCEPT ![w][k] = @ \cup {m}]
        /\ armed' = [armed EXCEPT ![w] = TRUE]
        /\ UNCHANGED <<bucketVars, etag, destroyed, pc, attempt, held, heldChange, contents,
                       outcome, spent>>
    BY <1>3 DEF Write, Signal
  <2>3. 0 .. Len(calls) \subseteq 0 .. Len(calls') /\ m \in 0 .. Len(calls')
    BY <1>2, <2>1
  <2>4. Content \subseteq Content'
    BY <2>3 DEF Content
  <2>6. m \in Outstanding(w)'
    BY <2>1 DEF Outstanding
  <2> HIDE DEF m
  <2>7. cache' \in [Writers -> Content'] /\ pending' \in [Writers -> Content']
        /\ window' \in [Writers -> [Keys -> SUBSET (0 .. Len(calls'))]]
    <3>1. cache \in [Writers -> Content] /\ pending \in [Writers -> Content]
          /\ window \in [Writers -> [Keys -> SUBSET (0 .. Len(calls))]]
      BY DEF TypeOK
    <3>2. [cache[w] EXCEPT ![k] = m] \in Content' /\ [pending[w] EXCEPT ![k] = m] \in Content'
      BY <2>3, <3>1 DEF Content
    <3>3. [window[w] EXCEPT ![k] = @ \cup {m}] \in [Keys -> SUBSET (0 .. Len(calls'))]
      BY <2>3, <3>1
    <3>4. cache' \in [Writers -> Content'] /\ pending' \in [Writers -> Content']
      BY <2>2, <2>4, <3>1, <3>2
    <3>5. window' \in [Writers -> [Keys -> SUBSET (0 .. Len(calls'))]]
      BY <2>2, <2>3, <3>1, <3>3
    <3> QED  BY <3>4, <3>5
  <2>8. promises' \in [Writers -> SUBSET DOMAIN calls'] /\ held' \in [Writers -> SUBSET DOMAIN calls']
    BY <2>1, <2>2 DEF TypeOK
  <2>9. ASSUME NEW v \in Writers
        PROVE  /\ promises'[v] \cup held'[v] \subseteq Outstanding(v)'
               /\ promises'[v] \cap held'[v] = {}
               /\ pc'[v] = "release" => held'[v] # {}
    <3>1. /\ promises[v] \cup held[v] \subseteq Outstanding(v) /\ promises[v] \cap held[v] = {}
          /\ pc[v] = "release" => held[v] # {}
      BY DEF TypeOK
    <3>2. held'[v] = held[v] /\ pc'[v] = pc[v]
          /\ promises'[v] = IF v = w THEN promises[v] \cup {m} ELSE promises[v]
      BY <2>2 DEF TypeOK
    <3>3. m \notin held[v]
      BY <2>1 DEF TypeOK
    <3>4. Outstanding(v) \subseteq Outstanding(v)'
      BY <2>1 DEF Outstanding
    <3>5. v = w => m \in Outstanding(v)'
      BY <2>6
    <3> QED  BY <3>1, <3>2, <3>3, <3>4, <3>5
  <2>10. /\ object' \in {NoObject} \cup Content'
         /\ etag' \in [Writers -> {NoObject} \cup Content']
         /\ heldChange' \in [Writers -> Content'] /\ contents' \in [Writers -> Content']
         /\ stored' \cup exposed' \subseteq DOMAIN calls'
    BY <2>1, <2>2, <2>4 DEF TypeOK, bucketVars
  <2> QED  BY <2>1, <2>2, <2>7, <2>8, <2>9, <2>10 DEF TypeOK, Grown, CallRecord
<1>4. ASSUME NEW w \in Writers, Destroy(w)
      PROVE  TypeOK'
  BY <1>4 DEF Destroy, bucketVars, saveVars, TypeOK, Content, Outstanding
<1>5. ASSUME NEW w \in Writers, Exit(w)
      PROVE  TypeOK'
  <2>1. pc' = [pc EXCEPT ![w] = "gone"]
        /\ UNCHANGED <<bucketVars, memVars, attempt, held, heldChange, window, contents, outcome,
                       calls, spent>>
    BY <1>5 DEF Exit
  <2>2. Content' = Content /\ \A v \in Writers : Outstanding(v)' = Outstanding(v)
    BY <2>1 DEF Content, Outstanding
  <2>3. \A v \in Writers : pc'[v] = "release" => held[v] # {}
    BY <2>1 DEF TypeOK
  <2>4. pc' \in [Writers -> {"select", "marshal", "stat", "put", "reload", "release", "gone"}]
    BY <2>1 DEF TypeOK
  <2> QED  BY <2>1, <2>2, <2>3, <2>4 DEF TypeOK, bucketVars, memVars
<1>6. ASSUME NEW w \in Writers, SaveBegin(w)
      PROVE  TypeOK'
  <2>1. /\ armed' = [armed EXCEPT ![w] = FALSE]
        /\ held' = [held EXCEPT ![w] = promises[w]] /\ promises' = [promises EXCEPT ![w] = {}]
        /\ heldChange' = [heldChange EXCEPT ![w] = pending[w]]
        /\ pending' = [pending EXCEPT ![w] = Empty]
        /\ attempt' = [attempt EXCEPT ![w] = 0]
        /\ pc' = [pc EXCEPT ![w] = "marshal"]
        /\ window' = [window EXCEPT ![w] = [k \in Keys |-> {cache[w][k]}]]
        /\ UNCHANGED <<bucketVars, cache, etag, destroyed, contents, outcome, calls, spent>>
    BY <1>6 DEF SaveBegin, TakePromises, Marshalling
  <2>2. Content' = Content /\ \A v \in Writers : Outstanding(v)' = Outstanding(v)
    BY <2>1 DEF Content, Outstanding
  <2>3. Empty \in Content /\ cache[w] \in Content /\ pending[w] \in Content
    BY ContentTypes
  <2>4. [k \in Keys |-> {cache[w][k]}] \in [Keys -> SUBSET (0 .. Len(calls))]
    BY <2>3 DEF Content
  <2>5. /\ window' \in [Writers -> [Keys -> SUBSET (0 .. Len(calls))]]
        /\ heldChange' \in [Writers -> Content] /\ pending' \in [Writers -> Content]
        /\ attempt' \in [Writers -> 0 .. maxKVFlushRetries - 1]
    BY <2>1, <2>3, <2>4, S3KVAssumption DEF TypeOK
  <2>6. held' \in [Writers -> SUBSET DOMAIN calls] /\ promises' \in [Writers -> SUBSET DOMAIN calls]
    BY <2>1 DEF TypeOK
  <2>7. \A v \in Writers : /\ promises'[v] \cup held'[v] \subseteq Outstanding(v)
                           /\ promises'[v] \cap held'[v] = {}
                           /\ pc'[v] = "release" => held'[v] # {}
    BY <2>1 DEF TypeOK
  <2> QED  BY <2>1, <2>2, <2>5, <2>6, <2>7 DEF TypeOK, bucketVars
<1>7. ASSUME NEW w \in Writers,
             Marshal(w) \/ Stat(w) \/ Put(w) \/ PutLost(w) \/ Fail(w) \/ Reload(w)
      PROVE  TypeOK'
  BY <1>7, TypeWithin
<1>8. ASSUME NEW w \in Writers, Release(w)
      PROVE  TypeOK'
  <2>1. PICK n \in held[w] :
           /\ Grown /\ calls[n].by = w
           /\ Len(calls') = Len(calls) /\ DOMAIN calls' = DOMAIN calls
           /\ \A m \in DOMAIN calls : m # n => calls'[m] = calls[m]
           /\ held' = [held EXCEPT ![w] = @ \ {n}]
           /\ pc' = [pc EXCEPT ![w] = IF held[w] = {n} THEN "select" ELSE "release"]
    BY <1>8, LogRelease
  <2>2. UNCHANGED <<bucketVars, memVars, attempt, heldChange, window, contents, outcome, spent>>
    BY <1>8 DEF Release
  <2>3. Content' = Content
    BY <2>1 DEF Content
  <2>4. ASSUME NEW v \in Writers
        PROVE  /\ promises'[v] \cup held'[v] \subseteq Outstanding(v)'
               /\ promises'[v] \cap held'[v] = {}
               /\ pc'[v] = "release" => held'[v] # {}
    <3>1. promises[v] \cup held[v] \subseteq Outstanding(v) /\ promises[v] \cap held[v] = {}
          /\ (pc[v] = "release" => held[v] # {}) /\ promises'[v] = promises[v]
      BY <2>2 DEF TypeOK, memVars
    <3>2. \A m \in Outstanding(v) : m # n => m \in Outstanding(v)'
      BY <2>1 DEF Outstanding
    <3>3. n \notin promises'[v] /\ n \notin held'[v]
      BY <2>1, <2>2 DEF TypeOK, memVars, Outstanding
    <3>4. held'[v] \subseteq held[v]
      BY <2>1 DEF TypeOK
    <3>5. pc'[v] = "release" => held'[v] # {}
      BY <2>1, <3>1 DEF TypeOK
    <3> QED  BY <3>1, <3>2, <3>3, <3>4, <3>5
  <2>5. /\ held' \in [Writers -> SUBSET DOMAIN calls]
        /\ pc' \in [Writers -> {"select", "marshal", "stat", "put", "reload", "release", "gone"}]
    BY <2>1 DEF TypeOK
  <2> QED  BY <2>1, <2>2, <2>3, <2>4, <2>5
              DEF TypeOK, Grown, CallRecord, bucketVars, memVars
<1>9. ASSUME NEW w \in Writers, Crash(w)
      PROVE  TypeOK'
  <2>1. /\ Grown /\ Len(calls') = Len(calls) /\ DOMAIN calls' = DOMAIN calls
        /\ \A m \in DOMAIN calls : m \notin Outstanding(w) => calls'[m] = calls[m]
    BY <1>1, <1>9, LogCrash
  <2>2. /\ cache' = [cache EXCEPT ![w] = Current] /\ etag' = [etag EXCEPT ![w] = object]
        /\ pending' = [pending EXCEPT ![w] = Empty] /\ promises' = [promises EXCEPT ![w] = {}]
        /\ armed' = [armed EXCEPT ![w] = FALSE] /\ destroyed' = [destroyed EXCEPT ![w] = FALSE]
        /\ pc' = [pc EXCEPT ![w] = "select"] /\ held' = [held EXCEPT ![w] = {}]
        /\ UNCHANGED <<bucketVars, attempt, heldChange, window, contents, outcome>>
    BY <1>9 DEF Crash
  <2>3. spent' \in [{"failures", "lost", "crashes"} -> Nat]
    BY <1>9, SpentType DEF Crash
  <2>4. Content' = Content
    BY <2>1 DEF Content
  <2>5. Empty \in Content /\ Current \in Content /\ object \in {NoObject} \cup Content
    BY ContentTypes
  <2>6. /\ cache' \in [Writers -> Content] /\ pending' \in [Writers -> Content]
        /\ etag' \in [Writers -> {NoObject} \cup Content]
    BY <2>2, <2>5 DEF TypeOK
  <2>7. ASSUME NEW v \in Writers
        PROVE  /\ promises'[v] \cup held'[v] \subseteq Outstanding(v)'
               /\ promises'[v] \cap held'[v] = {}
               /\ pc'[v] = "release" => held'[v] # {}
    <3>1. CASE v = w
      BY <2>2, <3>1 DEF TypeOK
    <3>2. CASE v # w
      <4>1. promises'[v] = promises[v] /\ held'[v] = held[v] /\ pc'[v] = pc[v]
        BY <2>2, <3>2 DEF TypeOK
      <4>2. Outstanding(v) \subseteq Outstanding(v)'
        BY <2>1, <3>2 DEF Outstanding
      <4> QED  BY <4>1, <4>2 DEF TypeOK
    <3> QED  BY <3>1, <3>2
  <2>8. /\ held' \in [Writers -> SUBSET DOMAIN calls] /\ promises' \in [Writers -> SUBSET DOMAIN calls]
        /\ armed' \in [Writers -> BOOLEAN] /\ destroyed' \in [Writers -> BOOLEAN]
        /\ pc' \in [Writers -> {"select", "marshal", "stat", "put", "reload", "release", "gone"}]
    BY <2>2 DEF TypeOK
  <2> QED  BY <2>1, <2>2, <2>3, <2>4, <2>6, <2>7, <2>8
              DEF TypeOK, Grown, CallRecord, bucketVars
<1>10. CASE UNCHANGED vars
  BY <1>10 DEF vars, bucketVars, memVars, saveVars, TypeOK, Content, Outstanding
<1> QED  BY <1>3, <1>4, <1>5, <1>6, <1>7, <1>8, <1>9, <1>10 DEF Next, Saver

\* The initial state has this shape.
LEMMA TypeInit == Init => TypeOK /\ SaverWoken
<1> SUFFICES ASSUME Init
             PROVE  TypeOK /\ SaverWoken
  OBVIOUS
<1>1. calls = <<>> /\ Len(calls) = 0 /\ DOMAIN calls = {}
  BY DEF Init
<1>2. calls \in Seq(CallRecord)
  BY <1>1
<1>3. Empty \in Content
  BY <1>1 DEF Empty, Content
<1>4. [k \in Keys |-> {}] \in [Keys -> SUBSET (0 .. Len(calls))]
  OBVIOUS
<1> QED  BY <1>1, <1>2, <1>3, <1>4, S3KVAssumption
            DEF Init, TypeOK, CallRecord, Outstanding, SaverWoken, Saving

\* The shape of the state; a promise is waited for, and in one place.
THEOREM TypeCorrect == Spec => []TypeOK
<1>1. TypeOK /\ SaverWoken /\ [Next]_vars => TypeOK' /\ SaverWoken'
  BY TypeStep, WokenStep
<1> QED  BY <1>1, TypeInit, PTL DEF Spec

-----------------------------------------------------------------------------
(* An acknowledged call was in the bucket.                                 *)

\* v is call n, or a later one of the same process.
Later(log, n, v) == v = n \/ (v > n /\ log[v].by = log[n].by)

\* A call that waits for the next save is among the changes that wait for it, and in
\* the map in memory unless a conflict took the map away.
Waiting(w, n) ==
  /\ Covers(pending[w], n)
  /\ n \in exposed \/ Covers(cache[w], n)

\* A call in the hands of the running save is among the changes it took, and, unless
\* it met a conflict while it waited, in what the save makes of the map.
OnTheWay(w, n) ==
  /\ pc[w] = "marshal" => \A v \in window[w][calls[n].key] : Later(calls, n, v)
  /\ pc[w] \in {"stat", "put"} => Covers(contents[w], n)
  /\ pc[w] = "release" /\ outcome[w] = "ok" => n \in stored
InHand(w, n) ==
  /\ pc[w] \in Saving \ {"release"} => Covers(heldChange[w], n)
  /\ n \in exposed \/ OnTheWay(w, n)

CoveredBy(w) ==
  /\ \A n \in promises[w] : Waiting(w, n)
  /\ \A n \in held[w] : InHand(w, n)
PromisesCovered == \A w \in Writers : CoveredBy(w)

\* An operation of process w, and what it leaves of the process v.
Step(w) == (\E k \in Keys : Write(w, k)) \/ Destroy(w) \/ Saver(w) \/ Crash(w)
Apart(v) ==
  /\ cache'[v] = cache[v] /\ pending'[v] = pending[v] /\ promises'[v] = promises[v]
  /\ pc'[v] = pc[v] /\ held'[v] = held[v] /\ heldChange'[v] = heldChange[v]
  /\ window'[v] = window[v] /\ contents'[v] = contents[v] /\ outcome'[v] = outcome[v]

\* No process touches what another one remembers.
LEMMA OthersApart ==
  ASSUME TypeOK, NEW w \in Writers, NEW v \in Writers, v # w, Step(w)
  PROVE  Apart(v) /\ etag'[v] = etag[v] /\ armed'[v] = armed[v]
<1>1. CASE \E k \in Keys : Write(w, k)
  BY <1>1 DEF Write, Signal, Apart, TypeOK
<1>2. CASE Destroy(w)
  BY <1>2 DEF Destroy, saveVars, Apart
<1>3. CASE Exit(w) \/ Marshal(w) \/ Stat(w)
  BY <1>3 DEF Exit, Marshal, Stat, memVars, Apart, TypeOK
<1>4. CASE SaveBegin(w)
  BY <1>4 DEF SaveBegin, TakePromises, Marshalling, Apart, TypeOK
<1>5. CASE Put(w) \/ PutLost(w) \/ Fail(w)
  BY <1>5 DEF Put, PutLost, Fail, Answer, memVars, Apart, TypeOK
<1>6. CASE Reload(w)
  <2>1. /\ etag' = [etag EXCEPT ![w] = object]
        /\ cache' = [cache EXCEPT ![w] = Merged(heldChange[w])]
        /\ UNCHANGED <<pending, promises, armed, held, heldChange, contents>>
    BY <1>6 DEF Reload
  <2>2. window'[v] = window[v] /\ outcome'[v] = outcome[v] /\ pc'[v] = pc[v]
    <3>1. CASE attempt[w] + 1 < maxKVFlushRetries
      BY <1>6, <3>1 DEF Reload, Marshalling, TypeOK
    <3>2. CASE ~(attempt[w] + 1 < maxKVFlushRetries)
      BY <1>6, <3>2 DEF Reload, Answer, TypeOK
    <3> QED  BY <3>1, <3>2
  <2> QED  BY <2>1, <2>2 DEF Apart, TypeOK
<1>7. CASE Release(w)
  BY <1>7 DEF Release, memVars, Apart, TypeOK
<1>8. CASE Crash(w)
  BY <1>8 DEF Crash, Apart, TypeOK
<1> QED  BY <1>1, <1>2, <1>3, <1>4, <1>5, <1>6, <1>7, <1>8 DEF Step, Saver

\* Every operation keeps the calls of the history, what the bucket has seen and the
\* calls that met a conflict.
LEMMA StepGrows ==
  ASSUME TypeOK, NEW w \in Writers, Step(w)
  PROVE  Grown /\ stored \subseteq stored' /\ exposed \subseteq exposed'
<1>1. calls \in Seq(CallRecord)
  BY DEF TypeOK, CallRecord
<1>2. CASE \E k \in Keys : Write(w, k)
  BY <1>1, <1>2, LogWrite DEF Write, bucketVars
<1>3. CASE Release(w)
  BY <1>3, LogRelease DEF Release, bucketVars
<1>4. CASE Crash(w)
  BY <1>1, <1>4, LogCrash DEF Crash, bucketVars
<1>5. CASE Destroy(w) \/ (Saver(w) /\ ~Release(w))
  <2>1. UNCHANGED calls
    BY <1>5, WithinSave DEF Destroy, Saver, Exit, SaveBegin
  <2>2. Grown
    BY <1>1, <2>1 DEF Grown
  <2>3. stored \subseteq stored' /\ exposed \subseteq exposed'
    BY <1>5 DEF Destroy, Saver, Exit, SaveBegin, Marshal, Stat, Put, PutLost, Fail, Reload,
                Upload, bucketVars
  <2> QED  BY <2>2, <2>3
<1> QED  BY <1>2, <1>3, <1>4, <1>5 DEF Step

\* A call of a history covers another one in every longer history.
LEMMA LaterKept ==
  ASSUME TypeOK, Grown, NEW n \in DOMAIN calls, NEW v \in 0 .. Len(calls), Later(calls, n, v)
  PROVE  Later(calls', n, v)
<1>1. calls \in Seq(CallRecord)
  BY DEF TypeOK, CallRecord
<1>2. Len(calls) \in Nat /\ DOMAIN calls = 1 .. Len(calls)
  BY <1>1, LogType
<1>3. CASE v = n
  BY <1>3 DEF Later
<1>4. CASE v # n
  <2>1. v > n /\ calls[v].by = calls[n].by /\ v \in DOMAIN calls
    BY <1>2, <1>4 DEF Later
  <2> QED  BY <2>1 DEF Later, Grown
<1> QED  BY <1>3, <1>4

\* What the process v remembers covers its calls as long as it stays.
LEMMA CoveredKept ==
  ASSUME TypeOK, Grown, stored \subseteq stored', exposed \subseteq exposed',
         NEW v \in Writers, CoveredBy(v), Apart(v)
  PROVE  CoveredBy(v)'
<1>1. /\ promises[v] \subseteq DOMAIN calls /\ held[v] \subseteq DOMAIN calls
      /\ \A n \in DOMAIN calls : calls'[n].key = calls[n].key /\ calls[n].key \in Keys
      /\ DOMAIN calls \subseteq DOMAIN calls'
  BY LogType DEF TypeOK, Grown, CallRecord
<1>2. \A map \in {cache[v], pending[v], heldChange[v], contents[v]} : map \in Content
  BY DEF TypeOK
<1>3. ASSUME NEW n \in DOMAIN calls, NEW map \in Content, Covers(map, n)
      PROVE  Later(calls', n, map[calls'[n].key])
  <2>1. map[calls[n].key] \in 0 .. Len(calls)
    BY <1>1 DEF Content
  <2>2. Later(calls, n, map[calls[n].key])
    BY <1>3 DEF Covers, Later
  <2> QED  BY <1>1, <2>1, <2>2, LaterKept
<1>4. ASSUME NEW n \in promises[v]
      PROVE  Waiting(v, n)'
  <2>1. n \in DOMAIN calls /\ Waiting(v, n)
    BY <1>1 DEF CoveredBy
  <2>2. Later(calls', n, pending[v][calls'[n].key])
    BY <1>2, <1>3, <2>1 DEF Waiting
  <2>3. n \in exposed' \/ Later(calls', n, cache[v][calls'[n].key])
    BY <1>2, <1>3, <2>1 DEF Waiting
  <2> QED  BY <2>2, <2>3 DEF Waiting, Covers, Later, Apart
<1>5. ASSUME NEW n \in held[v]
      PROVE  InHand(v, n)'
  <2>1. n \in DOMAIN calls /\ InHand(v, n)
    BY <1>1 DEF CoveredBy
  <2>2. pc[v] \in Saving \ {"release"} => Later(calls', n, heldChange[v][calls'[n].key])
    BY <1>2, <1>3, <2>1 DEF InHand
  <2>3. ASSUME n \notin exposed'
        PROVE  OnTheWay(v, n)'
    <3>1. OnTheWay(v, n)
      BY <2>1, <2>3 DEF InHand
    <3>2. ASSUME pc[v] = "marshal", NEW x \in window[v][calls[n].key]
          PROVE  Later(calls', n, x)
      <4>1. x \in 0 .. Len(calls)
        BY <1>1, <2>1 DEF TypeOK
      <4> QED  BY <2>1, <3>1, <3>2, <4>1, LaterKept DEF OnTheWay
    <3>3. pc[v] \in {"stat", "put"} => Later(calls', n, contents[v][calls'[n].key])
      BY <1>2, <1>3, <2>1, <3>1 DEF OnTheWay
    <3> QED  BY <1>1, <2>1, <3>1, <3>2, <3>3 DEF OnTheWay, Covers, Later, Apart
  <2> QED  BY <2>2, <2>3 DEF InHand, Covers, Later, Apart
<1> QED  BY <1>4, <1>5 DEF CoveredBy, Apart

\* Put and Delete add a call to what waits for the next save, and cover what they
\* replace.
LEMMA CoveredWrite ==
  ASSUME TypeOK, NEW w \in Writers, CoveredBy(w), NEW k \in Keys, Write(w, k)
  PROVE  CoveredBy(w)'
<1> DEFINE m == Len(calls) + 1
<1>1. calls \in Seq(CallRecord)
  BY DEF TypeOK, CallRecord
<1>2. /\ Grown /\ Len(calls) \in Nat /\ DOMAIN calls = 1 .. Len(calls)
      /\ DOMAIN calls' = DOMAIN calls \cup {m} /\ m \notin DOMAIN calls
      /\ \A n \in DOMAIN calls : calls'[n] = calls[n] /\ n < m
      /\ calls'[m].by = w /\ calls'[m].key = k
  <2>1. /\ Grown /\ Len(calls) \in Nat /\ DOMAIN calls = 1 .. Len(calls)
        /\ DOMAIN calls' = DOMAIN calls \cup {m} /\ m \notin DOMAIN calls
        /\ \A n \in DOMAIN calls : calls'[n] = calls[n]
        /\ calls'[m].by = w /\ calls'[m].key = k
    BY <1>1, LogWrite
  <2> QED  BY <2>1
<1>3. /\ cache' = [cache EXCEPT ![w][k] = m] /\ pending' = [pending EXCEPT ![w][k] = m]
      /\ promises' = [promises EXCEPT ![w] = @ \cup {m}]
      /\ window' = [window EXCEPT ![w][k] = @ \cup {m}]
      /\ UNCHANGED <<stored, exposed, pc, held, heldChange, contents, outcome>>
  BY <1>1 DEF Write, bucketVars
<1> HIDE DEF m
<1>4. /\ promises[w] \subseteq DOMAIN calls /\ held[w] \subseteq DOMAIN calls
      /\ \A n \in promises[w] \cup held[w] : calls[n].by = w
      /\ \A n \in DOMAIN calls : calls[n].key \in Keys
  BY <1>1, LogType DEF TypeOK, Outstanding
<1>5. \A n \in promises[w] \cup held[w] : Later(calls', n, m)
  BY <1>2, <1>4 DEF Later
<1>6. Later(calls', m, m)
  BY DEF Later
<1>7. /\ cache[w] \in Content /\ pending[w] \in Content
      /\ heldChange[w] \in Content /\ contents[w] \in Content
      /\ window[w] \in [Keys -> SUBSET (0 .. Len(calls))]
  BY DEF TypeOK
<1>8. ASSUME NEW n \in DOMAIN calls, NEW map \in Content, Covers(map, n)
      PROVE  Later(calls', n, map[calls[n].key])
  <2>1. map[calls[n].key] \in 0 .. Len(calls)
    BY <1>4 DEF Content
  <2>2. Later(calls, n, map[calls[n].key])
    BY <1>8 DEF Covers, Later
  <2> QED  BY <1>2, <2>1, <2>2, LaterKept
<1>9. \A x \in Keys : /\ cache'[w][x] = IF x = k THEN m ELSE cache[w][x]
                      /\ pending'[w][x] = IF x = k THEN m ELSE pending[w][x]
                      /\ window'[w][x] = IF x = k THEN window[w][x] \cup {m} ELSE window[w][x]
  BY <1>3, <1>7 DEF TypeOK, Content
<1>10. ASSUME NEW n \in promises'[w]
       PROVE  Waiting(w, n)'
  <2>1. n \in promises[w] \/ n = m
    BY <1>3 DEF TypeOK
  <2>2. CASE n = m
    BY <1>2, <1>6, <1>9, <2>2 DEF Waiting, Covers, Later
  <2>3. CASE n \in promises[w]
    <3>1. n \in DOMAIN calls /\ Waiting(w, n) /\ calls'[n].key = calls[n].key /\ calls[n].key \in Keys
      BY <1>2, <1>4, <2>3 DEF CoveredBy
    <3>2. Later(calls', n, pending'[w][calls[n].key])
      BY <1>5, <1>7, <1>8, <1>9, <2>3, <3>1 DEF Waiting
    <3>3. n \in exposed' \/ Later(calls', n, cache'[w][calls[n].key])
      BY <1>3, <1>5, <1>7, <1>8, <1>9, <2>3, <3>1 DEF Waiting
    <3> QED  BY <3>1, <3>2, <3>3 DEF Waiting, Covers, Later
  <2> QED  BY <2>1, <2>2, <2>3
<1>11. ASSUME NEW n \in held[w]
       PROVE  InHand(w, n)'
  <2>1. n \in DOMAIN calls /\ InHand(w, n) /\ calls'[n].key = calls[n].key /\ calls[n].key \in Keys
    BY <1>2, <1>4 DEF CoveredBy
  <2>2. pc[w] \in Saving \ {"release"} => Later(calls', n, heldChange[w][calls[n].key])
    BY <1>7, <1>8, <2>1 DEF InHand
  <2>3. ASSUME n \notin exposed
        PROVE  OnTheWay(w, n)'
    <3>1. OnTheWay(w, n)
      BY <2>1, <2>3 DEF InHand
    <3>2. ASSUME pc[w] = "marshal", NEW x \in window'[w][calls[n].key]
          PROVE  Later(calls', n, x)
      <4>1. CASE x = m
        BY <1>5, <4>1
      <4>2. CASE x # m
        <5>1. x \in window[w][calls[n].key]
          <6>1. window'[w][calls[n].key] \subseteq window[w][calls[n].key] \cup {m}
            BY <1>9, <2>1
          <6> QED  BY <3>2, <4>2, <6>1
        <5>2. x \in 0 .. Len(calls) /\ Later(calls, n, x)
          BY <1>7, <2>1, <3>1, <3>2, <5>1 DEF OnTheWay
        <5> QED  BY <1>2, <2>1, <5>2, LaterKept
      <4> QED  BY <4>1, <4>2
    <3>3. pc[w] \in {"stat", "put"} => Later(calls', n, contents[w][calls[n].key])
      BY <1>7, <1>8, <2>1, <3>1 DEF OnTheWay
    <3> QED  BY <1>3, <2>1, <3>1, <3>2, <3>3 DEF OnTheWay, Covers, Later
  <2> QED  BY <1>3, <2>1, <2>2, <2>3 DEF InHand, Covers, Later
<1> QED  BY <1>3, <1>10, <1>11 DEF CoveredBy

\* The steps of a save within its process keep the calls in hand covered.
LEMMA CoveredSave ==
  ASSUME TypeOK, NEW w \in Writers, CoveredBy(w),
         SaveBegin(w) \/ Marshal(w) \/ Stat(w) \/ Put(w) \/ PutLost(w) \/ Fail(w) \/ Reload(w)
  PROVE  CoveredBy(w)'
<1>1. /\ promises[w] \subseteq DOMAIN calls /\ held[w] \subseteq DOMAIN calls
      /\ \A n \in DOMAIN calls : calls[n].key \in Keys /\ n \in Nat \ {0}
  <2>1. calls \in Seq(CallRecord)
    BY DEF TypeOK, CallRecord
  <2> QED  BY <2>1, LogType DEF TypeOK
<1>2. /\ cache \in [Writers -> Content] /\ heldChange \in [Writers -> Content]
      /\ DOMAIN pc = Writers /\ DOMAIN window = Writers /\ DOMAIN contents = Writers
      /\ DOMAIN outcome = Writers
  BY DEF TypeOK
<1>3. CASE SaveBegin(w)
  <2>1. /\ held'[w] = promises[w] /\ promises'[w] = {} /\ heldChange'[w] = pending[w]
        /\ pc'[w] = "marshal" /\ window'[w] = [k \in Keys |-> {cache[w][k]}]
        /\ UNCHANGED <<stored, exposed, calls>>
    BY <1>3 DEF SaveBegin, TakePromises, Marshalling, bucketVars, TypeOK
  <2>2. ASSUME NEW n \in promises[w]
        PROVE  InHand(w, n)'
    <3>1. Waiting(w, n) /\ calls[n].key \in Keys
      BY <1>1 DEF CoveredBy
    <3>2. n \notin exposed => \A v \in window'[w][calls[n].key] : Later(calls, n, v)
      BY <2>1, <3>1 DEF Waiting, Covers, Later
    <3> QED  BY <2>1, <3>1, <3>2 DEF InHand, OnTheWay, Waiting, Covers
  <2> QED  BY <2>1, <2>2 DEF CoveredBy
<1>4. ASSUME Marshal(w) \/ Stat(w) \/ Put(w) \/ PutLost(w) \/ Fail(w)
      PROVE  CoveredBy(w)'
  <2>1. /\ UNCHANGED <<cache, pending, promises, held, heldChange, calls, exposed>>
        /\ pc[w] \in Saving \ {"release"}
    BY <1>4 DEF Marshal, Stat, Put, PutLost, Fail, Upload, Saving, bucketVars, memVars
  <2>2. ASSUME NEW n \in held[w], n \notin exposed
        PROVE  OnTheWay(w, n)'
    <3>1. OnTheWay(w, n) /\ n \in DOMAIN calls /\ calls[n].key \in Keys
      BY <1>1, <2>2 DEF CoveredBy, InHand
    <3>2. CASE Marshal(w)
      <4>1. PICK map : contents' = [contents EXCEPT ![w] = map] /\ \A k \in Keys : map[k] \in window[w][k]
        BY <3>2 DEF Marshal
      <4>2. Covers(map, n)
        BY <3>1, <3>2, <4>1 DEF OnTheWay, Later, Covers, Marshal
      <4> QED  BY <1>2, <2>1, <3>2, <4>1, <4>2 DEF Marshal, OnTheWay, Covers
    <3>3. CASE Stat(w)
      BY <1>2, <2>1, <3>1, <3>3 DEF Stat, OnTheWay, Covers
    <3>4. CASE Put(w) \/ PutLost(w)
      <4>1. Covers(contents[w], n) /\ pc'[w] = "release"
        BY <1>2, <3>1, <3>4 DEF Put, PutLost, Answer, OnTheWay
      <4>2. n \in stored'
        BY <3>1, <3>4, <4>1 DEF Put, PutLost, Upload
      <4> QED  BY <4>1, <4>2 DEF OnTheWay
    <3>5. CASE Fail(w)
      BY <1>2, <3>5 DEF Fail, Answer, OnTheWay
    <3> QED  BY <1>4, <3>2, <3>3, <3>4, <3>5
  <2>3. ASSUME NEW n \in held[w]
        PROVE  InHand(w, n)'
    BY <2>1, <2>2, <2>3 DEF CoveredBy, InHand, Covers
  <2> QED  BY <2>1, <2>3 DEF CoveredBy, Waiting, Covers
<1>5. CASE Reload(w)
  <2> DEFINE merged == Merged(heldChange[w])
  <2>1. /\ cache' = [cache EXCEPT ![w] = merged] /\ exposed' = exposed \cup promises[w]
        /\ UNCHANGED <<pending, promises, held, heldChange, calls, stored>>
        /\ pc[w] = "reload"
    BY <1>5 DEF Reload
  <2>2. ASSUME NEW n \in held[w]
        PROVE  InHand(w, n)'
    <3>1. Covers(heldChange[w], n) /\ n \in DOMAIN calls /\ calls[n].key \in Keys /\ n # 0
      BY <1>1, <2>1 DEF CoveredBy, InHand, Saving
    <3>2. heldChange[w][calls[n].key] # 0
      BY <1>1, <1>2, <3>1 DEF Covers, Content
    <3>3. Later(calls, n, merged[calls[n].key])
      BY <3>1, <3>2 DEF Covers, Later, Merged
    <3>4. CASE attempt[w] + 1 < maxKVFlushRetries
      <4>1. pc'[w] = "marshal" /\ window'[w] = [k \in Keys |-> {merged[k]}]
        BY <1>2, <1>5, <3>4 DEF Reload, Marshalling
      <4> QED  BY <2>1, <3>1, <3>3, <4>1 DEF InHand, OnTheWay, Covers
    <3>5. CASE ~(attempt[w] + 1 < maxKVFlushRetries)
      <4>1. pc'[w] = "release" /\ outcome'[w] = "exhausted"
        BY <1>2, <1>5, <3>5 DEF Reload, Answer
      <4> QED  BY <4>1 DEF InHand, OnTheWay
    <3> QED  BY <3>4, <3>5
  <2> QED  BY <2>1, <2>2 DEF CoveredBy, Waiting, Covers
<1> QED  BY <1>3, <1>4, <1>5

\* A resolved promise leaves the others covered.
LEMMA CoveredRelease ==
  ASSUME TypeOK, NEW w \in Writers, CoveredBy(w), Release(w)
  PROVE  CoveredBy(w)'
<1>1. PICK n \in held[w] : /\ Grown
                           /\ held' = [held EXCEPT ![w] = @ \ {n}]
                           /\ pc' = [pc EXCEPT ![w] = IF held[w] = {n} THEN "select" ELSE "release"]
  BY LogRelease
<1>2. /\ UNCHANGED <<cache, pending, promises, heldChange, window, contents, outcome, stored, exposed>>
      /\ pc[w] = "release" /\ pc'[w] \in {"select", "release"} /\ held'[w] \subseteq held[w]
  BY <1>1 DEF Release, bucketVars, memVars, TypeOK
<1>3. ASSUME NEW m \in held[w]
      PROVE  InHand(w, m)'
  BY <1>2 DEF CoveredBy, InHand, OnTheWay, Saving
<1>4. ASSUME NEW m \in promises[w]
      PROVE  Waiting(w, m)'
  <2>1. Waiting(w, m) /\ m \in DOMAIN calls
    BY DEF CoveredBy, TypeOK
  <2>2. calls[m].key \in Keys /\ calls'[m].key = calls[m].key
    BY <1>1, <2>1, LogType DEF TypeOK, CallRecord, Grown
  <2>3. \A map \in {cache[w], pending[w]} : map[calls[m].key] \in 0 .. Len(calls)
    <3>1. cache[w] \in Content /\ pending[w] \in Content
      BY DEF TypeOK
    <3> QED  BY <2>2, <3>1 DEF Content
  <2>4. \A map \in {cache[w], pending[w]} :
          Covers(map, m) => Later(calls', m, map[calls[m].key])
    BY <1>1, <2>1, <2>3, LaterKept DEF Covers, Later
  <2> QED  BY <1>2, <2>1, <2>2, <2>4 DEF Waiting, Covers, Later
<1> QED  BY <1>2, <1>3, <1>4 DEF CoveredBy

\* Every operation keeps the calls of every process covered.
LEMMA CoveredStep ==
  ASSUME TypeOK, PromisesCovered, NEW w \in Writers, Step(w)
  PROVE  PromisesCovered'
<1>1. Grown /\ stored \subseteq stored' /\ exposed \subseteq exposed'
  BY StepGrows
<1>2. ASSUME NEW v \in Writers, v # w
      PROVE  CoveredBy(v)'
  BY <1>1, <1>2, OthersApart, CoveredKept DEF PromisesCovered
<1>3. CoveredBy(w)'
  <2>1. CASE \E k \in Keys : Write(w, k)
    BY <2>1, CoveredWrite DEF PromisesCovered
  <2>2. CASE Destroy(w)
    <3>1. Apart(w)
      BY <2>2 DEF Destroy, saveVars, Apart
    <3> QED  BY <1>1, <3>1, CoveredKept DEF PromisesCovered
  <2>3. CASE Exit(w)
    <3>1. /\ UNCHANGED <<cache, pending, promises, held, calls, exposed>>
          /\ pc'[w] = "gone"
      BY <2>3 DEF Exit, bucketVars, memVars, TypeOK
    <3>2. \A n \in held[w] : InHand(w, n)'
      BY <3>1 DEF InHand, OnTheWay, Saving
    <3> QED  BY <3>1, <3>2 DEF PromisesCovered, CoveredBy, Waiting, Covers
  <2>4. CASE SaveBegin(w) \/ Marshal(w) \/ Stat(w) \/ Put(w) \/ PutLost(w) \/ Fail(w) \/ Reload(w)
    BY <2>4, CoveredSave DEF PromisesCovered
  <2>5. CASE Release(w)
    BY <2>5, CoveredRelease DEF PromisesCovered
  <2>6. CASE Crash(w)
    <3>1. promises'[w] = {} /\ held'[w] = {}
      BY <2>6 DEF Crash, TypeOK
    <3> QED  BY <3>1 DEF CoveredBy
  <2> QED  BY <2>1, <2>2, <2>3, <2>4, <2>5, <2>6 DEF Step, Saver
<1> QED  BY <1>2, <1>3 DEF PromisesCovered

\* An answer "ok" is new only when the running save resolves the promise with it.
LEMMA NewAnswer ==
  ASSUME TypeOK, NEW w \in Writers, Step(w), NEW n \in DOMAIN calls', calls'[n].res = "ok"
  PROVE  /\ n \in DOMAIN calls
         /\ \/ calls[n].res = "ok"
            \/ pc[w] = "release" /\ outcome[w] = "ok" /\ n \in held[w] /\ Release(w)
<1>1. calls \in Seq(CallRecord)
  BY DEF TypeOK, CallRecord
<1>2. CASE \E k \in Keys : Write(w, k)
  BY <1>1, <1>2, LogWrite
<1>3. CASE Release(w)
  <2>1. PICK m \in held[w] : /\ DOMAIN calls' = DOMAIN calls
                             /\ \A x \in DOMAIN calls : x # m => calls'[x] = calls[x]
                             /\ calls'[m].res = outcome[w]
    BY <1>3, LogRelease
  <2> QED  BY <1>3, <2>1 DEF Release
<1>4. CASE Crash(w)
  BY <1>1, <1>4, LogCrash
<1>5. CASE Destroy(w) \/ (Saver(w) /\ ~Release(w))
  BY <1>5, WithinSave DEF Destroy, Saver, Exit, SaveBegin
<1> QED  BY <1>2, <1>3, <1>4, <1>5 DEF Step

\* Every operation keeps the promise of the answers.
LEMMA AckedStep ==
  ASSUME TypeOK, PromisesCovered, AckedStored, NEW w \in Writers, Step(w)
  PROVE  AckedStored'
<1>1. stored \subseteq stored' /\ exposed \subseteq exposed'
  BY StepGrows
<1>2. ASSUME NEW n \in DOMAIN calls', calls'[n].res = "ok", n \notin exposed'
      PROVE  n \in stored'
  <2>1. /\ n \in DOMAIN calls
        /\ \/ calls[n].res = "ok"
           \/ pc[w] = "release" /\ outcome[w] = "ok" /\ n \in held[w]
    BY <1>2, NewAnswer
  <2>2. calls[n].res = "ok" => n \in stored
    BY <1>1, <1>2, <2>1 DEF AckedStored
  <2>3. n \in held[w] /\ pc[w] = "release" /\ outcome[w] = "ok" => n \in stored
    BY <1>1, <1>2 DEF PromisesCovered, CoveredBy, InHand, OnTheWay
  <2> QED  BY <1>1, <2>1, <2>2, <2>3
<1> QED  BY <1>2 DEF AckedStored

\* A Put or Delete that returned without an error was in kv_store.json at some time,
\* or a later one of its process in its place, except calls that were waiting for the
\* next save when the running one met a conflict.
THEOREM AckedWereStored == Spec => []AckedStored
<1> DEFINE Inv == TypeOK /\ SaverWoken /\ PromisesCovered /\ AckedStored
<1>1. Init => Inv
  <2> SUFFICES ASSUME Init
               PROVE  PromisesCovered /\ AckedStored
    BY TypeInit
  <2>1. DOMAIN calls = {} /\ \A w \in Writers : promises[w] = {} /\ held[w] = {}
    BY DEF Init
  <2> QED  BY <2>1 DEF PromisesCovered, CoveredBy, AckedStored
<1>2. Inv /\ [Next]_vars => Inv'
  <2> SUFFICES ASSUME Inv, [Next]_vars
               PROVE  Inv'
    OBVIOUS
  <2>1. TypeOK' /\ SaverWoken'
    BY TypeStep, WokenStep
  <2>2. PromisesCovered' /\ AckedStored'
    <3>1. CASE Next
      <4>1. PICK w \in Writers : Step(w)
        BY <3>1 DEF Next, Step
      <4> QED  BY <4>1, CoveredStep, AckedStep
    <3>2. CASE UNCHANGED vars
      <4>1. /\ \A v \in Writers : Apart(v)
            /\ UNCHANGED <<calls, stored, exposed>>
        BY <3>2 DEF vars, bucketVars, memVars, saveVars, Apart
      <4>2. Grown
        BY <4>1 DEF Grown, TypeOK, CallRecord
      <4>3. PromisesCovered'
        BY <4>1, <4>2, CoveredKept DEF PromisesCovered
      <4> QED  BY <4>1, <4>3 DEF AckedStored
    <3> QED  BY <3>1, <3>2
  <2> QED  BY <2>1, <2>2
<1>3. Inv => AckedStored
  OBVIOUS
<1> QED  BY <1>1, <1>2, <1>3, PTL DEF Spec

-----------------------------------------------------------------------------
(* A process that has the store to itself keeps what it acknowledged.      *)

\* All calls are of process w, and it knows the object of the bucket; its map, and
\* what a save makes of it, are never behind the object nor behind a call in hand.
Only(w) == \A n \in DOMAIN calls : calls[n].by = w
Ahead(w) ==
  /\ etag[w] = object /\ pc[w] # "reload"
  /\ \A k \in Keys :
       /\ cache[w][k] >= Current[k]
       /\ pc[w] = "marshal" => \A v \in window[w][k] : v >= Current[k] /\ v <= cache[w][k]
       /\ pc[w] \in {"stat", "put"} => contents[w][k] >= Current[k] /\ contents[w][k] <= cache[w][k]
Carried(w, n) ==
  /\ pc[w] = "marshal" => \A v \in window[w][calls[n].key] : v >= n
  /\ pc[w] \in {"stat", "put"} => contents[w][calls[n].key] >= n
  /\ pc[w] = "release" /\ outcome[w] = "ok" => Current[calls[n].key] >= n
Kept(n) == calls[n].res = "ok" => Current[calls[n].key] >= n
Alone(w) ==
  /\ Ahead(w)
  /\ \A n \in promises[w] : cache[w][calls[n].key] >= n
  /\ \A n \in held[w] : Carried(w, n)
  /\ \A n \in DOMAIN calls : Kept(n)
Undisturbed(w) == Only(w) /\ spent["lost"] = 0
SoleKept == \A w \in Writers : Undisturbed(w) => Alone(w)

\* A process that has the store to itself had it before.
LEMMA UndisturbedBefore ==
  ASSUME TypeOK, NEW w \in Writers, NEW v \in Writers, Step(v), Undisturbed(w)'
  PROVE  Undisturbed(w) /\ ~PutLost(v)
<1>1. Grown
  BY StepGrows
<1>2. Only(w)
  BY <1>1 DEF Undisturbed, Only, Grown
<1>3. spent["lost"] \in Nat
  BY DEF TypeOK
<1>4. \A what \in {"failures", "lost", "crashes"} :
        Spend(what) => spent'["lost"] = IF what = "lost" THEN spent["lost"] + 1 ELSE spent["lost"]
  BY SpentType DEF TypeOK
<1>5. ~PutLost(v)
  BY <1>3, <1>4 DEF PutLost, Undisturbed
<1>6. UNCHANGED spent \/ Spend("failures") \/ Spend("crashes")
  BY <1>5 DEF Step, Saver, Write, Destroy, Exit, SaveBegin, Marshal, Stat, Put, Fail, Reload,
              Release, Crash
<1>7. spent["lost"] = 0
  BY <1>4, <1>6 DEF Undisturbed
<1> QED  BY <1>2, <1>5, <1>7 DEF Undisturbed

\* The other processes have nothing to save.
LEMMA OthersIdle ==
  ASSUME TypeOK, SaverWoken, NEW w \in Writers, Undisturbed(w), Undisturbed(w)',
         NEW v \in Writers, v # w, Step(v)
  PROVE  UNCHANGED <<object, calls>>
<1>1. calls \in Seq(CallRecord)
  BY DEF TypeOK, CallRecord
<1>2. Outstanding(v) = {}
  BY DEF Undisturbed, Only, Outstanding
<1>3. promises[v] = {} /\ held[v] = {}
  BY <1>2 DEF TypeOK
<1>4. ~armed[v] /\ pc[v] \notin Saving
  BY <1>3 DEF SaverWoken
<1>5. \A k \in Keys : ~Write(v, k)
  BY <1>1, LogWrite DEF Undisturbed, Only
<1>6. CASE Destroy(v) \/ Exit(v)
  BY <1>6 DEF Destroy, Exit, bucketVars
<1>7. CASE Crash(v)
  <2>1. DOMAIN calls' = DOMAIN calls /\ calls' \in Seq(CallRecord) /\ Len(calls') = Len(calls)
        /\ \A m \in DOMAIN calls : calls'[m] = calls[m]
    BY <1>1, <1>2, <1>7, LogCrash DEF Grown
  <2>2. calls' = calls
    BY <1>1, <2>1
  <2> QED  BY <1>7, <2>2 DEF Crash, bucketVars
<1> QED  BY <1>4, <1>5, <1>6, <1>7, WithinSave
         DEF Step, Saver, SaveBegin, Release, Saving

\* What they do does not concern it.
LEMMA AloneOthers ==
  ASSUME TypeOK, SaverWoken, NEW w \in Writers, Undisturbed(w), Undisturbed(w)', Alone(w),
         NEW v \in Writers, v # w, Step(v)
  PROVE  Alone(w)'
<1>1. /\ UNCHANGED <<object, calls>>
      /\ Apart(w) /\ etag'[w] = etag[w]
  BY OthersIdle, OthersApart
<1>2. Current' = Current
  BY <1>1 DEF Current
<1> QED  BY <1>1, <1>2 DEF Alone, Ahead, Carried, Kept, Apart

\* The values and the calls are numbers, in the range of the history.
LEMMA ValueTypes ==
  ASSUME TypeOK, NEW w \in Writers
  PROVE  /\ Len(calls) \in Nat /\ DOMAIN calls = 1 .. Len(calls)
         /\ promises[w] \subseteq DOMAIN calls /\ held[w] \subseteq DOMAIN calls
         /\ \A n \in DOMAIN calls : n \in Nat /\ calls[n].key \in Keys
         /\ \A k \in Keys : /\ cache[w][k] \in 0 .. Len(calls) /\ contents[w][k] \in 0 .. Len(calls)
                            /\ Current[k] \in 0 .. Len(calls)
                            /\ window[w][k] \subseteq 0 .. Len(calls)
<1>1. calls \in Seq(CallRecord)
  BY DEF TypeOK, CallRecord
<1>2. cache[w] \in Content /\ contents[w] \in Content /\ Current \in Content
  BY ContentTypes
<1>3. window[w] \in [Keys -> SUBSET (0 .. Len(calls))]
  BY DEF TypeOK
<1> QED  BY <1>1, <1>2, <1>3, LogType DEF TypeOK, Content

\* Put and Delete put the newest call ahead of all.
LEMMA AloneWrite ==
  ASSUME TypeOK, NEW w \in Writers, Alone(w), NEW k \in Keys, Write(w, k)
  PROVE  Alone(w)'
<1> DEFINE m == Len(calls) + 1
<1>1. calls \in Seq(CallRecord)
  BY DEF TypeOK, CallRecord
<1>2. /\ Len(calls) \in Nat /\ DOMAIN calls = 1 .. Len(calls)
      /\ DOMAIN calls' = DOMAIN calls \cup {m} /\ m \notin DOMAIN calls
      /\ \A n \in DOMAIN calls : calls'[n] = calls[n]
      /\ calls'[m].key = k /\ calls'[m].res = "pending"
  BY <1>1, LogWrite
<1>3. \A v \in 0 .. Len(calls) : v <= m
  BY <1>2
<1>4. m \in Nat
  BY <1>2
<1>5. /\ cache' = [cache EXCEPT ![w][k] = m]
      /\ promises' = [promises EXCEPT ![w] = @ \cup {m}]
      /\ window' = [window EXCEPT ![w][k] = @ \cup {m}]
      /\ UNCHANGED <<object, etag, pc, held, contents, outcome>>
  BY DEF Write, bucketVars
<1> HIDE DEF m
<1>6. Current' = Current
  BY <1>5 DEF Current
<1>7. /\ promises[w] \subseteq DOMAIN calls /\ held[w] \subseteq DOMAIN calls
      /\ \A n \in DOMAIN calls : n \in 0 .. Len(calls) /\ n \in Nat /\ calls[n].key \in Keys
      /\ \A x \in Keys : /\ cache[w][x] \in 0 .. Len(calls) /\ contents[w][x] \in 0 .. Len(calls)
                         /\ Current[x] \in 0 .. Len(calls)
                         /\ window[w][x] \subseteq 0 .. Len(calls)
  BY <1>2, ValueTypes
<1>8. \A x \in Keys : /\ cache'[w][x] = IF x = k THEN m ELSE cache[w][x]
                      /\ window'[w][x] = IF x = k THEN window[w][x] \cup {m} ELSE window[w][x]
  BY <1>5 DEF TypeOK, Content
<1>9. ASSUME NEW x \in Keys
      PROVE  /\ cache'[w][x] >= Current[x] /\ cache'[w][x] >= cache[w][x]
             /\ pc[w] = "marshal" => \A v \in window'[w][x] : v >= Current[x] /\ v <= cache'[w][x]
             /\ pc[w] \in {"stat", "put"} =>
                  contents[w][x] >= Current[x] /\ contents[w][x] <= cache'[w][x]
  <2>1. /\ cache[w][x] >= Current[x]
        /\ pc[w] = "marshal" => \A v \in window[w][x] : v >= Current[x] /\ v <= cache[w][x]
        /\ pc[w] \in {"stat", "put"} => contents[w][x] >= Current[x] /\ contents[w][x] <= cache[w][x]
    BY DEF Alone, Ahead
  <2>2. CASE x # k
    <3>1. cache'[w][x] = cache[w][x] /\ window'[w][x] = window[w][x] /\ cache[w][x] \in Nat
      <4>1. cache'[w][x] = cache[w][x] /\ window'[w][x] = window[w][x]
        BY <1>8, <2>2
      <4>2. cache[w][x] \in 0 .. Len(calls) /\ Len(calls) \in Nat
        BY <1>2, <1>7
      <4> QED  BY <4>1, <4>2
    <3>2. cache[w][x] >= cache[w][x]
      BY <3>1
    <3> QED  BY <2>1, <3>1, <3>2
  <2>3. CASE x = k
    <3>1. cache'[w][x] = m /\ window'[w][x] = window[w][x] \cup {m}
      BY <1>8, <2>3
    <3>2. m >= Current[x] /\ m >= cache[w][x] /\ m >= contents[w][x]
      BY <1>3, <1>4, <1>7
    <3>3. \A v \in window[w][x] : v <= m
      BY <1>3, <1>7
    <3>4. m >= m
      BY <1>4
    <3> QED  BY <2>1, <3>1, <3>2, <3>3, <3>4
  <2> QED  BY <2>2, <2>3
<1>10. ASSUME NEW n \in promises'[w]
       PROVE  cache'[w][calls'[n].key] >= n
  <2>1. n \in promises[w] \/ n = m
    BY <1>5 DEF TypeOK
  <2>2. CASE n = m
    <3>1. calls'[n].key = k /\ cache'[w][k] = m
      BY <1>2, <1>8, <2>2
    <3> QED  BY <1>4, <2>2, <3>1
  <2>3. CASE n \in promises[w]
    <3>1. n \in DOMAIN calls /\ calls'[n].key = calls[n].key /\ calls[n].key \in Keys
      BY <1>2, <1>7, <2>3
    <3>2. cache[w][calls[n].key] >= n
      BY <2>3 DEF Alone
    <3>3. cache'[w][calls[n].key] >= cache[w][calls[n].key]
      BY <1>9, <3>1
    <3>4. /\ n \in Nat /\ cache[w][calls[n].key] \in Nat /\ cache'[w][calls[n].key] \in Nat
      <4>1. n \in Nat /\ cache[w][calls[n].key] \in Nat
        BY <1>2, <1>7, <3>1
      <4> QED  BY <1>4, <1>8, <3>1, <4>1
    <3> QED  BY <3>1, <3>2, <3>3, <3>4
  <2> QED  BY <2>1, <2>2, <2>3
<1>11. ASSUME NEW n \in held[w]
       PROVE  Carried(w, n)'
  <2>1. n \in DOMAIN calls /\ calls'[n].key = calls[n].key /\ calls[n].key \in Keys /\ Carried(w, n)
    BY <1>2, <1>7 DEF Alone
  <2>2. window'[w][calls[n].key] \subseteq window[w][calls[n].key] \cup {m}
    BY <1>8, <2>1
  <2>3. m >= n
    BY <1>3, <1>4, <1>7, <2>1
  <2> QED  BY <1>5, <1>6, <2>1, <2>2, <2>3 DEF Carried
<1>12. \A n \in DOMAIN calls' : Kept(n)'
  BY <1>2, <1>6 DEF Alone, Kept
<1> QED  BY <1>5, <1>6, <1>9, <1>10, <1>11, <1>12 DEF Alone, Ahead

\* Its saves find its own object, and put one in its place that is not behind it.
LEMMA AloneSave ==
  ASSUME TypeOK, NEW w \in Writers, Alone(w),
         SaveBegin(w) \/ Marshal(w) \/ Stat(w) \/ Put(w) \/ Fail(w) \/ Reload(w)
  PROVE  Alone(w)'
<1>1. /\ promises[w] \subseteq DOMAIN calls /\ held[w] \subseteq DOMAIN calls
      /\ \A n \in DOMAIN calls : n \in Nat /\ calls[n].key \in Keys
      /\ \A k \in Keys : /\ cache[w][k] \in Nat /\ contents[w][k] \in Nat /\ Current[k] \in Nat
                         /\ window[w][k] \subseteq Nat
  BY ValueTypes
<1>2. /\ etag[w] = object /\ pc[w] # "reload"
      /\ \A k \in Keys :
           /\ cache[w][k] >= Current[k]
           /\ pc[w] = "marshal" => \A v \in window[w][k] : v >= Current[k] /\ v <= cache[w][k]
           /\ pc[w] \in {"stat", "put"} =>
                contents[w][k] >= Current[k] /\ contents[w][k] <= cache[w][k]
      /\ \A n \in promises[w] : cache[w][calls[n].key] >= n
      /\ \A n \in held[w] : Carried(w, n)
      /\ \A n \in DOMAIN calls : Kept(n)
  BY DEF Alone, Ahead
<1>3. DOMAIN pc = Writers /\ DOMAIN window = Writers /\ DOMAIN contents = Writers
      /\ DOMAIN outcome = Writers /\ DOMAIN etag = Writers
  BY DEF TypeOK
<1>4. CASE SaveBegin(w)
  <2>1. /\ held'[w] = promises[w] /\ promises'[w] = {}
        /\ pc'[w] = "marshal" /\ window'[w] = [k \in Keys |-> {cache[w][k]}]
        /\ UNCHANGED <<object, etag, cache, calls>>
    BY <1>4 DEF SaveBegin, TakePromises, Marshalling, bucketVars, TypeOK
  <2>2. Current' = Current
    BY <2>1 DEF Current
  <2>3. Ahead(w)'
    BY <1>1, <1>2, <2>1, <2>2 DEF Ahead
  <2>4. \A n \in promises[w] : Carried(w, n)'
    BY <1>1, <1>2, <2>1 DEF Carried
  <2> QED  BY <1>2, <2>1, <2>2, <2>3, <2>4 DEF Alone, Kept
<1>5. CASE Marshal(w)
  <2>1. PICK map : contents' = [contents EXCEPT ![w] = map] /\ \A k \in Keys : map[k] \in window[w][k]
    BY <1>5 DEF Marshal
  <2>2. /\ contents'[w] = map /\ pc[w] = "marshal" /\ pc'[w] = "stat"
        /\ UNCHANGED <<object, etag, cache, promises, held, calls>>
    BY <1>3, <1>5, <2>1 DEF Marshal, bucketVars, memVars
  <2>3. Current' = Current
    BY <2>2 DEF Current
  <2>4. Ahead(w)'
    BY <1>2, <2>1, <2>2, <2>3 DEF Ahead
  <2>5. \A n \in held[w] : Carried(w, n)'
    BY <1>1, <1>2, <2>1, <2>2 DEF Carried
  <2> QED  BY <1>2, <2>2, <2>3, <2>4, <2>5 DEF Alone, Kept
<1>6. CASE Stat(w)
  <2>1. StatAgrees(w)
    BY <1>2 DEF StatAgrees
  <2>2. /\ pc[w] = "stat" /\ pc'[w] = "put"
        /\ UNCHANGED <<object, etag, cache, promises, held, calls, contents>>
    BY <1>3, <1>6, <2>1 DEF Stat, bucketVars, memVars
  <2>3. Current' = Current
    BY <2>2 DEF Current
  <2>4. Ahead(w)'
    BY <1>2, <2>2, <2>3 DEF Ahead
  <2>5. \A n \in held[w] : Carried(w, n)'
    BY <1>2, <2>2 DEF Carried
  <2> QED  BY <1>2, <2>2, <2>3, <2>4, <2>5 DEF Alone, Kept
<1>7. CASE Put(w)
  <2>1. /\ object' = contents[w] /\ etag'[w] = contents[w]
        /\ pc[w] = "put" /\ pc'[w] = "release"
        /\ UNCHANGED <<cache, promises, held, calls>>
    BY <1>3, <1>7 DEF Put, Upload, Answer
  <2>2. contents[w] # NoObject
    <3>1. contents[w] \in [Keys -> Nat]
      BY ValueTypes DEF TypeOK, Content
    <3> QED  BY <3>1, S3KVAssumption
  <2>3. Current' = contents[w]
    BY <2>1, <2>2 DEF Current
  <2>4. Ahead(w)'
    BY <1>1, <1>2, <2>1, <2>3 DEF Ahead
  <2>5. \A n \in held[w] : Carried(w, n)'
    BY <1>2, <2>1, <2>3 DEF Carried
  <2>6. ASSUME NEW n \in DOMAIN calls
        PROVE  Kept(n)'
    <3>1. calls[n].key \in Keys /\ n \in Nat
      BY <1>1
    <3>2. contents[w][calls[n].key] >= Current[calls[n].key]
      BY <1>2, <2>1, <3>1
    <3>3. Kept(n)
      BY <1>2
    <3>4. contents[w][calls[n].key] \in Nat /\ Current[calls[n].key] \in Nat
      BY <1>1, <3>1
    <3> QED  BY <2>1, <2>3, <3>1, <3>2, <3>3, <3>4 DEF Kept
  <2> QED  BY <1>2, <2>1, <2>4, <2>5, <2>6 DEF Alone
<1>8. CASE Fail(w)
  <2>1. /\ pc'[w] = "release" /\ outcome'[w] = "err"
        /\ UNCHANGED <<object, etag, cache, promises, held, calls>>
    BY <1>3, <1>8 DEF Fail, Answer, bucketVars, memVars
  <2>2. Current' = Current
    BY <2>1 DEF Current
  <2> QED  BY <1>2, <2>1, <2>2 DEF Alone, Ahead, Carried, Kept
<1>9. CASE Reload(w)
  BY <1>2, <1>9 DEF Reload
<1> QED  BY <1>4, <1>5, <1>6, <1>7, <1>8, <1>9

\* It answers "ok" for what is in the object.
LEMMA AloneRelease ==
  ASSUME TypeOK, NEW w \in Writers, Alone(w), Release(w)
  PROVE  Alone(w)'
<1>1. PICK n \in held[w] :
         /\ DOMAIN calls' = DOMAIN calls /\ Grown
         /\ \A m \in DOMAIN calls : m # n => calls'[m] = calls[m]
         /\ calls'[n].res = outcome[w] /\ n \in DOMAIN calls
         /\ held' = [held EXCEPT ![w] = @ \ {n}]
         /\ pc' = [pc EXCEPT ![w] = IF held[w] = {n} THEN "select" ELSE "release"]
  BY LogRelease
<1>2. /\ UNCHANGED <<object, etag, cache, promises, outcome>>
      /\ pc[w] = "release" /\ pc'[w] \in {"select", "release"} /\ held'[w] \subseteq held[w]
      /\ \A m \in DOMAIN calls : calls'[m].key = calls[m].key
      /\ promises[w] \subseteq DOMAIN calls /\ held[w] \subseteq DOMAIN calls
  BY <1>1 DEF Release, bucketVars, memVars, TypeOK, Grown
<1>3. Current' = Current
  BY <1>2 DEF Current
<1>4. Ahead(w)'
  BY <1>2, <1>3 DEF Alone, Ahead
<1>5. \A m \in held'[w] : Carried(w, m)'
  BY <1>2, <1>3 DEF Alone, Carried
<1>6. ASSUME NEW m \in DOMAIN calls
      PROVE  Kept(m)'
  <2>1. CASE m = n
    <3>1. Carried(w, n)
      BY DEF Alone
    <3> QED  BY <1>1, <1>2, <1>3, <2>1, <3>1 DEF Carried, Kept
  <2>2. CASE m # n
    <3>1. Kept(m)
      BY DEF Alone
    <3> QED  BY <1>1, <1>3, <2>2, <3>1 DEF Kept
  <2> QED  BY <2>1, <2>2
<1> QED  BY <1>1, <1>2, <1>4, <1>5, <1>6 DEF Alone

\* It opens the store with what the object holds.
LEMMA AloneCrash ==
  ASSUME TypeOK, NEW w \in Writers, Alone(w), Crash(w)
  PROVE  Alone(w)'
<1>1. calls \in Seq(CallRecord)
  BY DEF TypeOK, CallRecord
<1>2. /\ Grown /\ DOMAIN calls' = DOMAIN calls
      /\ \A m \in DOMAIN calls : calls'[m].res = "ok" => calls[m].res = "ok"
  BY <1>1, LogCrash
<1>3. /\ cache'[w] = Current /\ etag'[w] = object /\ promises'[w] = {} /\ held'[w] = {}
      /\ pc'[w] = "select" /\ object' = object
  BY DEF Crash, bucketVars, TypeOK
<1>4. Current' = Current
  BY <1>3 DEF Current
<1>5. \A k \in Keys : Current[k] \in Nat
  BY ValueTypes
<1>6. Ahead(w)'
  BY <1>3, <1>4, <1>5 DEF Ahead
<1>7. \A n \in DOMAIN calls' : Kept(n)'
  BY <1>2, <1>4 DEF Alone, Kept, Grown
<1> QED  BY <1>3, <1>6, <1>7 DEF Alone

\* Every operation of any process preserves this.
LEMMA SoleStep ==
  ASSUME TypeOK, SaverWoken, SoleKept, NEW v \in Writers, Step(v)
  PROVE  SoleKept'
<1>1. ASSUME NEW w \in Writers, Undisturbed(w)'
      PROVE  Alone(w)'
  <2>1. Undisturbed(w) /\ ~PutLost(v)
    BY <1>1, UndisturbedBefore
  <2>2. Alone(w)
    BY <2>1 DEF SoleKept
  <2>3. CASE v # w
    BY <1>1, <2>1, <2>2, <2>3, AloneOthers
  <2>4. CASE v = w
    <3>1. CASE \E k \in Keys : Write(w, k)
      BY <2>2, <3>1, AloneWrite
    <3>2. CASE Destroy(w) \/ Exit(w)
      <4>1. /\ UNCHANGED <<object, etag, cache, promises, held, window, contents, outcome, calls>>
            /\ pc'[w] \in {pc[w], "gone"}
        BY <3>2 DEF Destroy, Exit, bucketVars, memVars, saveVars, TypeOK
      <4>2. Current' = Current
        BY <4>1 DEF Current
      <4> QED  BY <2>2, <4>1, <4>2 DEF Alone, Ahead, Carried, Kept
    <3>3. CASE SaveBegin(w) \/ Marshal(w) \/ Stat(w) \/ Put(w) \/ Fail(w) \/ Reload(w)
      BY <2>2, <3>3, AloneSave
    <3>4. CASE Release(w)
      BY <2>2, <3>4, AloneRelease
    <3>5. CASE Crash(w)
      BY <2>2, <3>5, AloneCrash
    <3> QED  BY <2>1, <2>4, <3>1, <3>2, <3>3, <3>4, <3>5 DEF Step, Saver
  <2> QED  BY <2>3, <2>4
<1> QED  BY <1>1 DEF SoleKept

\* As long as one process has the store to itself and learns of its uploads, a Put or
\* Delete that returned without an error is in kv_store.json, unless a later one
\* replaced it.
THEOREM SoleWriterDurable == Spec => []SoleDurable
<1> DEFINE Inv == TypeOK /\ SaverWoken /\ SoleKept
<1>1. Init => Inv
  <2> SUFFICES ASSUME Init
               PROVE  SoleKept
    BY TypeInit
  <2>1. /\ DOMAIN calls = {} /\ Current = Empty
        /\ \A w \in Writers : /\ etag[w] = object /\ pc[w] = "select" /\ cache[w] = Empty
                              /\ promises[w] = {} /\ held[w] = {}
    BY DEF Init, Current
  <2>2. \A k \in Keys : Empty[k] = 0
    BY DEF Empty
  <2> QED  BY <2>1, <2>2 DEF SoleKept, Alone, Ahead
<1>2. Inv /\ [Next]_vars => Inv'
  <2> SUFFICES ASSUME Inv, [Next]_vars
               PROVE  Inv'
    OBVIOUS
  <2>1. TypeOK' /\ SaverWoken'
    BY TypeStep, WokenStep
  <2>2. SoleKept'
    <3>1. CASE Next
      <4>1. PICK w \in Writers : Step(w)
        BY <3>1 DEF Next, Step
      <4> QED  BY <4>1, SoleStep
    <3>2. CASE UNCHANGED vars
      BY <3>2 DEF vars, bucketVars, memVars, saveVars, SoleKept, Undisturbed, Only, Alone, Ahead,
                  Carried, Kept, Current
    <3> QED  BY <3>1, <3>2
  <2> QED  BY <2>1, <2>2
<1>3. Inv => SoleDurable
  <2> SUFFICES ASSUME Inv, \A m, n \in DOMAIN calls : calls[m].by = calls[n].by,
                      spent["lost"] = 0, NEW n \in DOMAIN calls, calls[n].res = "ok"
               PROVE  Current[calls[n].key] >= n
    BY DEF SoleDurable
  <2>1. calls[n].by \in Writers
    BY LogType DEF TypeOK, CallRecord
  <2>2. Alone(calls[n].by)
    BY <2>1 DEF SoleKept, Undisturbed, Only
  <2> QED  BY <2>2 DEF Alone, Kept
<1> QED  BY <1>1, <1>2, <1>3, PTL DEF Spec
=============================================================================
