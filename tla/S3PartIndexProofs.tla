-------------------------- MODULE S3PartIndexProofs --------------------------
(* What was acknowledged by a partition in an object of a bucket, and when  *)
(* a process knows the object, for any processes, files, requests and       *)
(* numbers of calls, conflicts, failures, lost responses and crashes.       *)
EXTENDS S3PartIndex, DataLemmas

-----------------------------------------------------------------------------
(* The history of calls.                                                   *)

CallRecord ==
  [by : Writers, add : SUBSET Paths, rm : SUBSET Paths, queued : BOOLEAN,
   res : {"pending", "ok", "err", "exhausted", "lost"}]

\* The history stays one, and its calls ask for what they asked for.
Grown ==
  /\ calls' \in Seq(CallRecord)
  /\ DOMAIN calls \subseteq DOMAIN calls'
  /\ \A i \in DOMAIN calls : /\ calls'[i].by = calls[i].by /\ calls'[i].queued = calls[i].queued
                             /\ calls'[i].add = calls[i].add /\ calls'[i].rm = calls[i].rm

\* The calls are numbered, and each is of a process and about files.
LEMMA LogType ==
  ASSUME calls \in Seq(CallRecord)
  PROVE  /\ Len(calls) \in Nat /\ DOMAIN calls = 1 .. Len(calls)
         /\ \A i \in DOMAIN calls : /\ i \in Nat /\ calls[i] \in CallRecord /\ calls[i].by \in Writers
                                    /\ calls[i].add \subseteq Paths /\ calls[i].rm \subseteq Paths
<1>1. Len(calls) \in Nat /\ DOMAIN calls = 1 .. Len(calls)
  OBVIOUS
<1>2. \A i \in DOMAIN calls : calls[i] \in CallRecord
  OBVIOUS
<1> QED  BY <1>1, <1>2 DEF CallRecord

\* A call of Batch is added to it.
LEMMA LogBatch ==
  ASSUME calls \in Seq(CallRecord), NEW w \in Writers,
         NEW add \in SUBSET Paths, NEW rm \in SUBSET Paths, Batch(w, add, rm)
  PROVE  /\ Grown
         /\ Len(calls) \in Nat /\ DOMAIN calls = 1 .. Len(calls)
         /\ DOMAIN calls' = DOMAIN calls \cup {Len(calls) + 1}
         /\ Len(calls) + 1 \notin DOMAIN calls
         /\ \A i \in DOMAIN calls : calls'[i] = calls[i] /\ i < Len(calls) + 1
         /\ \E queued \in BOOLEAN : calls'[Len(calls) + 1] = Call(w, add, rm, queued)
<1>1. PICK queued \in BOOLEAN : calls' = Append(calls, Call(w, add, rm, queued))
  BY DEF Batch
<1> DEFINE c == Call(w, add, rm, queued)
<1>2. c \in CallRecord
  BY DEF Call, CallRecord
<1> HIDE DEF c
<1>3. /\ calls' \in Seq(CallRecord) /\ calls'[Len(calls) + 1] = c
      /\ Len(calls) \in Nat /\ DOMAIN calls = 1 .. Len(calls)
      /\ DOMAIN calls' = DOMAIN calls \cup {Len(calls) + 1}
      /\ Len(calls) + 1 \notin DOMAIN calls
      /\ \A i \in DOMAIN calls : calls'[i] = calls[i]
  BY <1>1, <1>2, Appended DEF c
<1>4. Grown
  BY <1>3 DEF Grown
<1>5. \A i \in DOMAIN calls : i < Len(calls) + 1
  BY <1>3
<1> QED  BY <1>3, <1>4, <1>5 DEF c

\* The promises of a flush are answered.
LEMMA LogFlushEnd ==
  ASSUME TypeOK, NEW w \in Writers, FlushEnd(w)
  PROVE  /\ Grown /\ Len(calls') = Len(calls) /\ DOMAIN calls' = DOMAIN calls
         /\ \A i \in DOMAIN calls :
              IF i \in held[w] THEN calls'[i].res = outcome[w] ELSE calls'[i] = calls[i]
<1>1. calls \in Seq(CallRecord) /\ outcome[w] \in {"ok", "err", "exhausted", "lost"}
  BY DEF TypeOK, CallRecord
<1>2. calls' = [i \in DOMAIN calls |->
                  IF i \in held[w] THEN [calls[i] EXCEPT !.res = outcome[w]] ELSE calls[i]]
  BY DEF FlushEnd
<1>3. \A i \in DOMAIN calls : calls[i] \in CallRecord
  BY <1>1
<1>4. ASSUME NEW i \in DOMAIN calls
      PROVE  /\ calls'[i] \in CallRecord
             /\ calls'[i].by = calls[i].by /\ calls'[i].queued = calls[i].queued
             /\ calls'[i].add = calls[i].add /\ calls'[i].rm = calls[i].rm
             /\ IF i \in held[w] THEN calls'[i].res = outcome[w] ELSE calls'[i] = calls[i]
  BY <1>1, <1>2, <1>3 DEF CallRecord
<1>5. DOMAIN calls' = DOMAIN calls /\ calls' = [i \in DOMAIN calls |-> calls'[i]]
  BY <1>2
<1>6. calls' \in Seq(CallRecord) /\ Len(calls') = Len(calls)
  BY <1>1, <1>4, <1>5, Updated
<1>7. Grown
  BY <1>4, <1>5, <1>6 DEF Grown
<1> QED  BY <1>4, <1>5, <1>6, <1>7

\* The waiting calls of a process that crashes are lost.
LEMMA LogCrash ==
  ASSUME calls \in Seq(CallRecord), NEW w \in Writers, Crash(w)
  PROVE  /\ Grown /\ Len(calls') = Len(calls) /\ DOMAIN calls' = DOMAIN calls
         /\ \A i \in DOMAIN calls :
              IF i \in Outstanding(w) THEN calls'[i].res = "lost" ELSE calls'[i] = calls[i]
<1>1. calls' = [i \in DOMAIN calls |->
                  IF i \in Outstanding(w) THEN [calls[i] EXCEPT !.res = "lost"] ELSE calls[i]]
  BY DEF Crash
<1>2. \A i \in DOMAIN calls : calls[i] \in CallRecord
  OBVIOUS
<1>3. ASSUME NEW i \in DOMAIN calls
      PROVE  /\ calls'[i] \in CallRecord
             /\ calls'[i].by = calls[i].by /\ calls'[i].queued = calls[i].queued
             /\ calls'[i].add = calls[i].add /\ calls'[i].rm = calls[i].rm
             /\ IF i \in Outstanding(w) THEN calls'[i].res = "lost" ELSE calls'[i] = calls[i]
  BY <1>1, <1>2 DEF CallRecord
<1>4. DOMAIN calls' = DOMAIN calls /\ calls' = [i \in DOMAIN calls |-> calls'[i]]
  BY <1>1
<1>5. calls' \in Seq(CallRecord) /\ Len(calls') = Len(calls)
  BY <1>3, <1>4, Updated
<1>6. Grown
  BY <1>3, <1>4, <1>5 DEF Grown
<1> QED  BY <1>3, <1>4, <1>5, <1>6

-----------------------------------------------------------------------------
(* The shape of the state.                                                 *)

\* The goroutine of a process is woken only for a promise, and has one in hand while
\* it flushes.
Flushing == {"range", "stat", "put", "reload", "reply"}
FlusherWoken ==
  \A w \in Writers : /\ armed[w] => promises[w] # {}
                     /\ pc[w] \in Flushing => held[w] # {}

\* The steps of a flush between its first and its last.
Within(w) == Serialize(w) \/ Stat(w) \/ Put(w) \/ PutLost(w) \/ Fail(w) \/ Reload(w)

\* They leave the promises and the history alone and go on with the flush.
LEMMA WithinFlush ==
  ASSUME NEW w \in Writers, Within(w)
  PROVE  /\ UNCHANGED <<promises, armed, held, calls, pending, heldChange>>
         /\ pc[w] \in Flushing \ {"reply"}
         /\ \E at \in Flushing : pc' = [pc EXCEPT ![w] = at]
<1>1. CASE Serialize(w) \/ Stat(w)
  BY <1>1 DEF Serialize, Stat, memVars, Flushing
<1>2. CASE Put(w) \/ PutLost(w) \/ Fail(w)
  BY <1>2 DEF Put, PutLost, Fail, Answer, memVars, Flushing
<1>3. CASE Reload(w)
  BY <1>3 DEF Reload, Answer, Ranging, Flushing
<1> QED  BY <1>1, <1>2, <1>3 DEF Within

\* Every step preserves this.
LEMMA WokenStep ==
  ASSUME TypeOK, FlusherWoken, [Next]_vars
  PROVE  FlusherWoken'
<1>1. /\ promises \in [Writers -> SUBSET DOMAIN calls] /\ held \in [Writers -> SUBSET DOMAIN calls]
      /\ armed \in [Writers -> BOOLEAN] /\ DOMAIN pc = Writers
  BY DEF TypeOK
<1>2. ASSUME NEW w \in Writers, NEW r \in Requests, Batch(w, r[1], r[2])
      PROVE  FlusherWoken'
  BY <1>1, <1>2 DEF Batch, memVars, flushVars, FlusherWoken
<1>3. ASSUME NEW w \in Writers, FlushBegin(w)
      PROVE  FlusherWoken'
  BY <1>1, <1>3 DEF FlushBegin, Ranging, FlusherWoken, Flushing
<1>4. ASSUME NEW w \in Writers, Within(w)
      PROVE  FlusherWoken'
  BY <1>1, <1>4, WithinFlush DEF FlusherWoken
<1>5. ASSUME NEW w \in Writers, FlushEnd(w)
      PROVE  FlusherWoken'
  BY <1>1, <1>5 DEF FlushEnd, memVars, FlusherWoken, Flushing
<1>6. CASE Delete
  BY <1>6 DEF Delete, memVars, flushVars, FlusherWoken
<1>7. ASSUME NEW w \in Writers, Crash(w)
      PROVE  FlusherWoken'
  BY <1>1, <1>7 DEF Crash, FlusherWoken, Flushing
<1>8. CASE UNCHANGED vars
  BY <1>8 DEF vars, memVars, flushVars, FlusherWoken
<1> QED  BY <1>2, <1>3, <1>4, <1>5, <1>6, <1>7, <1>8 DEF Next, Flusher, Within

\* A fault is counted.
LEMMA SpentType ==
  ASSUME TypeOK, NEW what \in {"failures", "lost", "deletes", "crashes"}, NEW bound, Spend(what, bound)
  PROVE  /\ spent' \in [{"failures", "lost", "deletes", "crashes"} -> Nat]
         /\ spent' = [spent EXCEPT ![what] = @ + 1]
BY DEF TypeOK, Spend

\* What the bucket holds, and the changes of a flush on top of it, are files and an
\* ETag.
LEMMA BucketTypes ==
  ASSUME TypeOK, NEW w \in Writers
  PROVE  /\ CurrentFiles \subseteq Paths /\ Merged(heldChange[w]) \subseteq Paths
         /\ CurrentETag \in ETags
         /\ object \in {NoObject} \cup [etag : Writers \X Nat, files : SUBSET Paths]
         /\ heldChange[w].add \subseteq Paths /\ heldChange[w].rm \subseteq Paths
<1>1. CurrentFiles \subseteq Paths /\ CurrentETag \in ETags
  BY DEF TypeOK, CurrentFiles, CurrentETag, ETags
<1>2. heldChange[w] \in Change
  BY DEF TypeOK
<1> QED  BY <1>1, <1>2 DEF TypeOK, Change, Merged

\* The upload of a process gives the object an ETag of its own.
LEMMA UploadType ==
  ASSUME TypeOK, NEW w \in Writers, NEW known \in BOOLEAN, Upload(w, known)
  PROVE  /\ object' = [etag |-> <<w, puts[w] + 1>>, files |-> buffer[w]]
         /\ object' \in [etag : Writers \X Nat, files : SUBSET Paths] /\ object' # NoObject
         /\ <<w, puts[w] + 1>> \in ETags
         /\ puts' = [puts EXCEPT ![w] = @ + 1] /\ puts' \in [Writers -> Nat]
         /\ stored' \subseteq stored \cup DOMAIN calls /\ exposed' = exposed
         /\ stored \subseteq stored'
         /\ behind' \in [Writers -> BOOLEAN] /\ met' \in [Writers -> Nat]
<1>1. puts[w] + 1 \in Nat /\ buffer[w] \in SUBSET Paths
  BY DEF TypeOK
<1>2. /\ object' = [etag |-> <<w, puts[w] + 1>>, files |-> buffer[w]]
      /\ puts' = [puts EXCEPT ![w] = @ + 1]
      /\ stored' = stored \cup {i \in DOMAIN calls : Covers(buffer[w], i)} /\ exposed' = exposed
  BY DEF Upload
<1>3. <<w, puts[w] + 1>> \in Writers \X Nat
  BY <1>1
<1>4. object' \in [etag : Writers \X Nat, files : SUBSET Paths]
  BY <1>1, <1>2, <1>3
<1>5. object' # NoObject
  BY <1>4, S3Assumption
<1>6. behind' \in [Writers -> BOOLEAN] /\ met' \in [Writers -> Nat]
  BY DEF TypeOK, Upload
<1> QED  BY <1>1, <1>2, <1>3, <1>4, <1>5, <1>6 DEF TypeOK, ETags

\* The steps of a flush keep the shape.
LEMMA TypeWithin ==
  ASSUME TypeOK, NEW w \in Writers, Within(w)
  PROVE  TypeOK'
<1>1. UNCHANGED <<promises, armed, held, calls, pending, heldChange>>
  BY WithinFlush
<1>2. PICK at \in Flushing : pc' = [pc EXCEPT ![w] = at]
  BY WithinFlush
<1>4. pc' \in [Writers -> {"select", "range", "stat", "put", "reload", "reply"}]
  BY <1>2 DEF TypeOK, Flushing
<1>5. /\ object' \in {NoObject} \cup [etag : Writers \X Nat, files : SUBSET Paths]
      /\ puts' \in [Writers -> Nat]
      /\ files' \in [Writers -> SUBSET Paths]
      /\ etag' \in [Writers -> ETags]
      /\ attempt' \in [Writers -> 0 .. maxFlushRetries - 1]
      /\ window' \in [Writers -> [must : SUBSET Paths, may : SUBSET Paths]]
      /\ buffer' \in [Writers -> SUBSET Paths]
      /\ outcome' \in [Writers -> {"ok", "err", "exhausted"}]
      /\ stored' \cup exposed' \subseteq DOMAIN calls
      /\ behind' \in [Writers -> BOOLEAN] /\ met' \in [Writers -> Nat]
      /\ spent' \in [{"failures", "lost", "deletes", "crashes"} -> Nat]
  <2>1. CASE Serialize(w)
    <3>1. PICK extra \in SUBSET (window[w].may \ window[w].must) :
            buffer' = [buffer EXCEPT ![w] = window[w].must \cup extra]
      BY <2>1 DEF Serialize
    <3>2. window[w].must \cup extra \subseteq Paths
      BY <3>1 DEF TypeOK
    <3> QED  BY <2>1, <3>1, <3>2 DEF Serialize, bucketVars, memVars, historyVars, TypeOK
  <2>2. CASE Stat(w)
    BY <2>2 DEF Stat, bucketVars, memVars, historyVars, TypeOK
  <2>3. CASE Put(w)
    <3>1. Upload(w, TRUE)
      BY <2>3 DEF Put
    <3>2. etag' \in [Writers -> ETags]
      BY <2>3, <3>1, UploadType DEF Put, TypeOK
    <3> QED  BY <2>3, <3>1, <3>2, UploadType DEF Put, Answer, TypeOK
  <2>4. CASE PutLost(w)
    <3>1. Upload(w, FALSE) /\ Spend("lost", MaxSurprises)
      BY <2>4 DEF PutLost, Surprise
    <3>2. spent' \in [{"failures", "lost", "deletes", "crashes"} -> Nat]
      BY <3>1, SpentType
    <3> QED  BY <2>4, <3>1, <3>2, UploadType DEF PutLost, Answer, memVars, TypeOK
  <2>5. CASE Fail(w)
    <3>1. spent' \in [{"failures", "lost", "deletes", "crashes"} -> Nat]
      BY <2>5, SpentType DEF Fail
    <3> QED  BY <2>5, <3>1 DEF Fail, Answer, bucketVars, memVars, historyVars, TypeOK
  <2>6. CASE Reload(w)
    <3> DEFINE merged == Merged(heldChange[w])
    <3>1. /\ etag' = [etag EXCEPT ![w] = CurrentETag] /\ files' = [files EXCEPT ![w] = merged]
          /\ exposed' = exposed \cup promises[w]
          /\ behind' = [behind EXCEPT ![w] = FALSE]
          /\ UNCHANGED <<object, puts, stored, buffer, met, spent>>
      BY <2>6 DEF Reload, AdoptETag
    <3>2. merged \subseteq Paths /\ CurrentETag \in ETags
      BY BucketTypes
    <3>3. /\ attempt' \in [Writers -> 0 .. maxFlushRetries - 1]
          /\ window' \in [Writers -> [must : SUBSET Paths, may : SUBSET Paths]]
          /\ outcome' \in [Writers -> {"ok", "err", "exhausted"}]
      <4>1. CASE attempt[w] + 1 < maxFlushRetries
        <5>1. /\ attempt' = [attempt EXCEPT ![w] = @ + 1] /\ UNCHANGED outcome
              /\ window' = [window EXCEPT ![w] = [must |-> merged, may |-> merged]]
          BY <2>6, <4>1 DEF Reload, Ranging
        <5>2. attempt[w] + 1 \in 0 .. maxFlushRetries - 1
          BY <4>1, S3Assumption DEF TypeOK
        <5> QED  BY <3>2, <5>1, <5>2 DEF TypeOK
      <4>2. CASE ~(attempt[w] + 1 < maxFlushRetries)
        BY <2>6, <4>2 DEF Reload, Answer, TypeOK
      <4> QED  BY <4>1, <4>2
    <3>4. exposed' \subseteq DOMAIN calls
      BY <3>1 DEF TypeOK
    <3> QED  BY <3>1, <3>2, <3>3, <3>4 DEF TypeOK
  <2> QED  BY <2>1, <2>2, <2>3, <2>4, <2>5, <2>6 DEF Within
<1>6. /\ pending' \in [Writers -> Change] /\ heldChange' \in [Writers -> Change]
      /\ armed' \in [Writers -> BOOLEAN]
      /\ promises' \in [Writers -> SUBSET DOMAIN calls] /\ held' \in [Writers -> SUBSET DOMAIN calls]
  BY <1>1 DEF TypeOK
<1>7. ASSUME NEW v \in Writers
      PROVE  promises'[v] \cup held'[v] \subseteq Outstanding(v)' /\ promises'[v] \cap held'[v] = {}
  BY <1>1 DEF TypeOK, Outstanding, CallsOf
<1>8. calls \in Seq(CallRecord)
  BY DEF TypeOK, CallRecord
<1> QED  BY <1>1, <1>4, <1>5, <1>6, <1>7, <1>8 DEF TypeOK, CallRecord

\* What is known of the uploads stays a flag and a number.
LEMMA HistoryType ==
  ASSUME TypeOK, [Next]_vars
  PROVE  behind' \in [Writers -> BOOLEAN] /\ met' \in [Writers -> Nat]
<1>1. behind \in [Writers -> BOOLEAN] /\ met \in [Writers -> Nat]
  BY DEF TypeOK
<1>2. ASSUME NEW w \in Writers, Put(w) \/ PutLost(w)
      PROVE  behind' \in [Writers -> BOOLEAN] /\ met' \in [Writers -> Nat]
  <2>1. \E known \in BOOLEAN : Upload(w, known)
    BY <1>2 DEF Put, PutLost
  <2> QED  BY <2>1, UploadType
<1>3. ASSUME NEW w \in Writers, Reload(w) \/ FlushBegin(w) \/ FlushEnd(w) \/ Crash(w)
      PROVE  behind' \in [Writers -> BOOLEAN] /\ met' \in [Writers -> Nat]
  <2>1. \/ behind' = [behind EXCEPT ![w] = FALSE] \/ UNCHANGED behind
    BY <1>3 DEF Reload, FlushBegin, FlushEnd, Crash
  <2>2. UNCHANGED met \/ \E n \in Nat : met' = [met EXCEPT ![w] = n]
    <3>1. 0 \in Nat /\ (IF behind[w] THEN 1 ELSE 0) \in Nat
      OBVIOUS
    <3> QED  BY <1>3, <3>1 DEF Reload, FlushBegin, FlushEnd, Crash
  <2>3. behind' \in [Writers -> BOOLEAN]
    BY <1>1, <2>1
  <2>4. met' \in [Writers -> Nat]
    BY <1>1, <2>2
  <2> QED  BY <2>3, <2>4
<1>4. ASSUME NEW w \in Writers, Serialize(w) \/ Stat(w) \/ Fail(w)
      PROVE  UNCHANGED historyVars
  BY <1>4 DEF Serialize, Stat, Fail, historyVars
<1>7. UNCHANGED historyVars => behind' = behind /\ met' = met
  BY DEF historyVars
<1>5. ASSUME NEW w \in Writers, NEW r \in Requests, Batch(w, r[1], r[2])
      PROVE  UNCHANGED historyVars
  BY <1>5 DEF Batch, historyVars
<1>6. CASE Delete \/ UNCHANGED vars
  BY <1>1, <1>6 DEF Delete, vars, historyVars
<1> QED  BY <1>1, <1>2, <1>3, <1>4, <1>5, <1>6, <1>7 DEF Next, Flusher

\* Every step preserves the shape of the state.
LEMMA TypeStep ==
  ASSUME TypeOK, [Next]_vars
  PROVE  TypeOK'
<1>1. calls \in Seq(CallRecord)
  BY DEF TypeOK, CallRecord
<1>0. behind' \in [Writers -> BOOLEAN] /\ met' \in [Writers -> Nat]
  BY HistoryType
<1>2. ASSUME NEW w \in Writers, NEW r \in Requests, Batch(w, r[1], r[2])
      PROVE  TypeOK'
  <2> DEFINE m == Len(calls) + 1
             add == r[1]
             rm == r[2]
  <2>1. add \in SUBSET Paths /\ rm \in SUBSET Paths
    BY S3Assumption
  <2>2. /\ Grown /\ DOMAIN calls' = DOMAIN calls \cup {m} /\ m \notin DOMAIN calls
        /\ \A i \in DOMAIN calls : calls'[i] = calls[i]
    BY <1>1, <1>2, <2>1, LogBatch
  <2>3. UNCHANGED <<object, puts, stored, exposed, spent, etag, pc, attempt, held, heldChange,
                    buffer, outcome>>
    BY <1>2 DEF Batch, bucketVars, memVars, flushVars
  <2>4. CASE UNCHANGED <<memVars, flushVars>>
    <3>1. \A v \in Writers : Outstanding(v) \subseteq Outstanding(v)'
      BY <2>2 DEF Outstanding, CallsOf
    <3>2. ASSUME NEW v \in Writers
          PROVE  promises'[v] \cup held'[v] \subseteq Outstanding(v)' /\ promises'[v] \cap held'[v] = {}
      <4>1. Outstanding(v) \subseteq Outstanding(v)'
        BY <2>2 DEF Outstanding, CallsOf
      <4> QED  BY <2>4, <4>1 DEF TypeOK, memVars, flushVars
    <3>3. promises' \in [Writers -> SUBSET DOMAIN calls'] /\ held' \in [Writers -> SUBSET DOMAIN calls']
      BY <2>2, <2>4 DEF TypeOK, memVars, flushVars
    <3> QED  BY <1>0, <2>2, <2>3, <2>4, <3>2, <3>3 DEF TypeOK, Grown, CallRecord, memVars, flushVars
  <2>5. CASE ~UNCHANGED <<memVars, flushVars>>
    <3>1. /\ calls' = Append(calls, Call(w, add, rm, TRUE))
          /\ files' = [files EXCEPT ![w] = (files[w] \cup add) \ rm]
          /\ pending' = [pending EXCEPT ![w] = [add |-> @.add \cup add, rm |-> @.rm \cup rm]]
          /\ promises' = [promises EXCEPT ![w] = @ \cup {m}]
          /\ armed' = [armed EXCEPT ![w] = TRUE]
          /\ window' = [window EXCEPT ![w] = Disturbed(@, add, rm, (files[w] \cup add) \ rm)]
      BY <1>2, <2>5 DEF Batch
    <3>2. calls'[m] = Call(w, add, rm, TRUE)
      <4> DEFINE c == Call(w, add, rm, TRUE)
      <4>1. c \in CallRecord
        BY <2>1 DEF Call, CallRecord
      <4>2. calls' = Append(calls, c)
        BY <3>1
      <4> HIDE DEF c
      <4>3. calls'[Len(calls) + 1] = c
        BY <1>1, <4>1, <4>2, Appended
      <4> QED  BY <4>3 DEF c
    <3> HIDE DEF m
    <3>3. m \in Outstanding(w)'
      BY <2>2, <3>2 DEF Outstanding, CallsOf, Call
    <3>4. /\ files' \in [Writers -> SUBSET Paths] /\ armed' \in [Writers -> BOOLEAN]
          /\ promises' \in [Writers -> SUBSET DOMAIN calls'] /\ held' \in [Writers -> SUBSET DOMAIN calls']
      BY <2>1, <2>2, <2>3, <3>1 DEF TypeOK
    <3>5. pending' \in [Writers -> Change]
      <4>1. pending[w] \in Change
        BY DEF TypeOK
      <4>2. [add |-> pending[w].add \cup add, rm |-> pending[w].rm \cup rm] \in Change
        BY <2>1, <4>1 DEF Change
      <4> QED  BY <3>1, <4>2 DEF TypeOK
    <3>6. window' \in [Writers -> [must : SUBSET Paths, may : SUBSET Paths]]
      <4>1. window[w] \in [must : SUBSET Paths, may : SUBSET Paths]
        BY DEF TypeOK
      <4>2. Disturbed(window[w], add, rm, (files[w] \cup add) \ rm) \in [must : SUBSET Paths, may : SUBSET Paths]
        BY <2>1, <4>1 DEF Disturbed
      <4> QED  BY <3>1, <4>2 DEF TypeOK
    <3>7. ASSUME NEW v \in Writers
          PROVE  promises'[v] \cup held'[v] \subseteq Outstanding(v)' /\ promises'[v] \cap held'[v] = {}
      <4>1. Outstanding(v) \subseteq Outstanding(v)'
        BY <2>2 DEF Outstanding, CallsOf
      <4>2. /\ promises[v] \cup held[v] \subseteq Outstanding(v)
            /\ promises[v] \cap held[v] = {} /\ held[v] \subseteq DOMAIN calls
        BY DEF TypeOK
      <4>3. promises'[v] = IF v = w THEN promises[v] \cup {m} ELSE promises[v]
        BY <3>1 DEF TypeOK
      <4>4. v = w => m \in Outstanding(v)'
        BY <3>3
      <4> QED  BY <2>2, <2>3, <4>1, <4>2, <4>3, <4>4
    <3> QED  BY <1>0, <2>2, <2>3, <3>4, <3>5, <3>6, <3>7 DEF TypeOK, Grown, CallRecord
  <2> QED  BY <2>4, <2>5
<1>3. ASSUME NEW w \in Writers, FlushBegin(w)
      PROVE  TypeOK'
  <2>1. /\ armed' = [armed EXCEPT ![w] = FALSE]
        /\ held' = [held EXCEPT ![w] = promises[w]] /\ promises' = [promises EXCEPT ![w] = {}]
        /\ heldChange' = [heldChange EXCEPT ![w] = pending[w]]
        /\ pending' = [pending EXCEPT ![w] = NoChange]
        /\ attempt' = [attempt EXCEPT ![w] = 0]
        /\ pc' = [pc EXCEPT ![w] = "range"]
        /\ window' = [window EXCEPT ![w] = [must |-> files[w], may |-> files[w]]]
        /\ UNCHANGED <<bucketVars, files, etag, buffer, outcome, calls, spent>>
    BY <1>3 DEF FlushBegin, Ranging
  <2>2. \A v \in Writers : Outstanding(v)' = Outstanding(v)
    BY <2>1 DEF Outstanding, CallsOf
  <2>3. NoChange \in Change /\ [must |-> files[w], may |-> files[w]] \in [must : SUBSET Paths, may : SUBSET Paths]
    BY DEF NoChange, Change, TypeOK
  <2>4. /\ window' \in [Writers -> [must : SUBSET Paths, may : SUBSET Paths]]
        /\ heldChange' \in [Writers -> Change] /\ pending' \in [Writers -> Change]
        /\ attempt' \in [Writers -> 0 .. maxFlushRetries - 1]
        /\ held' \in [Writers -> SUBSET DOMAIN calls] /\ promises' \in [Writers -> SUBSET DOMAIN calls]
    <3>1. 0 \in 0 .. maxFlushRetries - 1
      BY S3Assumption
    <3>2. /\ pending \in [Writers -> Change] /\ heldChange \in [Writers -> Change]
          /\ attempt \in [Writers -> 0 .. maxFlushRetries - 1]
          /\ window \in [Writers -> [must : SUBSET Paths, may : SUBSET Paths]]
          /\ promises \in [Writers -> SUBSET DOMAIN calls] /\ held \in [Writers -> SUBSET DOMAIN calls]
      BY DEF TypeOK
    <3> QED  BY <2>1, <2>3, <3>1, <3>2
  <2>5. \A v \in Writers : /\ promises'[v] \cup held'[v] \subseteq Outstanding(v)
                           /\ promises'[v] \cap held'[v] = {}
    BY <2>1 DEF TypeOK
  <2> QED  BY <1>0, <2>1, <2>2, <2>4, <2>5 DEF TypeOK, bucketVars
<1>4. ASSUME NEW w \in Writers, Within(w)
      PROVE  TypeOK'
  BY <1>4, TypeWithin
<1>5. ASSUME NEW w \in Writers, FlushEnd(w)
      PROVE  TypeOK'
  <2>1. /\ Grown /\ DOMAIN calls' = DOMAIN calls
        /\ \A i \in DOMAIN calls : i \notin held[w] => calls'[i] = calls[i]
    BY <1>5, LogFlushEnd
  <2>2. /\ held' = [held EXCEPT ![w] = {}] /\ pc' = [pc EXCEPT ![w] = "select"]
        /\ UNCHANGED <<bucketVars, memVars, attempt, heldChange, window, buffer, outcome, spent>>
    BY <1>5 DEF FlushEnd
  <2>3. ASSUME NEW v \in Writers
        PROVE  promises'[v] \cup held'[v] \subseteq Outstanding(v)' /\ promises'[v] \cap held'[v] = {}
    <3>1. \A i \in Outstanding(v) \ held[w] : i \in Outstanding(v)'
      BY <2>1 DEF Outstanding, CallsOf
    <3>2. /\ promises[v] \cup held[v] \subseteq Outstanding(v) /\ promises[v] \cap held[v] = {}
          /\ held[w] \subseteq Outstanding(w) /\ promises'[v] = promises[v]
          /\ held'[v] = IF v = w THEN {} ELSE held[v]
      BY <2>2 DEF TypeOK, memVars
    <3>3. v # w => Outstanding(v) \cap Outstanding(w) = {}
      BY DEF Outstanding, CallsOf
    <3> QED  BY <3>1, <3>2, <3>3
  <2> QED  BY <1>0, <2>1, <2>2, <2>3 DEF TypeOK, Grown, CallRecord, bucketVars, memVars
<1>6. CASE Delete
  <2>1. spent' \in [{"failures", "lost", "deletes", "crashes"} -> Nat]
    BY <1>6, SpentType DEF Delete, Surprise
  <2>2. object' = NoObject /\ UNCHANGED <<puts, stored, exposed, calls>>
    BY <1>6 DEF Delete
  <2>3. UNCHANGED memVars /\ UNCHANGED flushVars
    BY <1>6 DEF Delete
  <2>4. \A w \in Writers : Outstanding(w)' = Outstanding(w)
    BY <2>2 DEF Outstanding, CallsOf
  <2> QED  BY <1>0, <2>1, <2>2, <2>3, <2>4 DEF memVars, flushVars, TypeOK
<1>7. ASSUME NEW w \in Writers, Crash(w)
      PROVE  TypeOK'
  <2>1. /\ Grown /\ DOMAIN calls' = DOMAIN calls
        /\ \A i \in DOMAIN calls : i \notin Outstanding(w) => calls'[i] = calls[i]
    BY <1>1, <1>7, LogCrash
  <2>2. /\ files' = [files EXCEPT ![w] = CurrentFiles] /\ etag' = [etag EXCEPT ![w] = CurrentETag]
        /\ pending' = [pending EXCEPT ![w] = NoChange] /\ promises' = [promises EXCEPT ![w] = {}]
        /\ armed' = [armed EXCEPT ![w] = FALSE] /\ pc' = [pc EXCEPT ![w] = "select"]
        /\ held' = [held EXCEPT ![w] = {}]
        /\ UNCHANGED <<bucketVars, attempt, heldChange, window, buffer, outcome>>
    BY <1>7 DEF Crash
  <2>3. spent' \in [{"failures", "lost", "deletes", "crashes"} -> Nat]
    BY <1>7, SpentType DEF Crash
  <2>4. CurrentFiles \subseteq Paths /\ CurrentETag \in ETags /\ NoChange \in Change
    BY BucketTypes DEF NoChange, Change
  <2>5. ASSUME NEW v \in Writers
        PROVE  promises'[v] \cup held'[v] \subseteq Outstanding(v)' /\ promises'[v] \cap held'[v] = {}
    <3>1. CASE v = w
      BY <2>2, <3>1 DEF TypeOK
    <3>2. CASE v # w
      <4>1. promises'[v] = promises[v] /\ held'[v] = held[v]
        BY <2>2, <3>2 DEF TypeOK
      <4>2. Outstanding(v) \subseteq Outstanding(v)'
        BY <2>1, <3>2 DEF Outstanding, CallsOf
      <4> QED  BY <4>1, <4>2 DEF TypeOK
    <3> QED  BY <3>1, <3>2
  <2>6. /\ held' \in [Writers -> SUBSET DOMAIN calls] /\ promises' \in [Writers -> SUBSET DOMAIN calls]
        /\ armed' \in [Writers -> BOOLEAN] /\ files' \in [Writers -> SUBSET Paths]
        /\ etag' \in [Writers -> ETags] /\ pending' \in [Writers -> Change]
        /\ pc' \in [Writers -> {"select", "range", "stat", "put", "reload", "reply"}]
    BY <2>2, <2>4 DEF TypeOK
  <2> QED  BY <1>0, <2>1, <2>2, <2>3, <2>5, <2>6 DEF TypeOK, Grown, CallRecord, bucketVars
<1>8. CASE UNCHANGED vars
  BY <1>0, <1>8 DEF vars, bucketVars, memVars, flushVars, TypeOK, Outstanding, CallsOf
<1> QED  BY <1>2, <1>3, <1>4, <1>5, <1>6, <1>7, <1>8 DEF Next, Flusher, Within

\* The initial state has this shape.
LEMMA TypeInit == Init => TypeOK /\ FlusherWoken
<1> SUFFICES ASSUME Init
             PROVE  TypeOK /\ FlusherWoken
  OBVIOUS
<1>1. calls = <<>> /\ DOMAIN calls = {}
  BY DEF Init
<1>2. FirstETag \in Writers \X Nat
  BY S3Assumption DEF FirstETag
<1>3. object \in {NoObject} \cup [etag : Writers \X Nat, files : SUBSET Paths]
  BY <1>2 DEF Init
<1>4. CurrentFiles \subseteq Paths /\ CurrentETag \in ETags
  BY <1>3 DEF CurrentFiles, CurrentETag, ETags
<1>5. NoChange \in Change /\ calls \in Seq(CallRecord)
  BY <1>1 DEF NoChange, Change
<1> QED  BY <1>1, <1>3, <1>4, <1>5, S3Assumption
            DEF Init, TypeOK, CallRecord, FlusherWoken, Flushing

\* The shape of the state; a promise is waited for, and in one place.
THEOREM TypeCorrect == Spec => []TypeOK
BY TypeInit, TypeStep, PTL DEF Spec

-----------------------------------------------------------------------------
(* Files that reflect a call.                                              *)

\* Of the files a flush may find, those it must find and those it may find: they
\* reflect call i of a history, unless a later call asked for the opposite.
RemovedLater(log, i, p) == \E j \in DOMAIN log : j > i /\ p \in log[j].rm
AddedLater(log, i, p) == \E j \in DOMAIN log : j > i /\ p \in log[j].add
Bounds(log, must, may, i) ==
  /\ \A p \in log[i].add \ log[i].rm : p \in must \/ RemovedLater(log, i, p)
  /\ \A p \in log[i].rm : p \notin may \/ AddedLater(log, i, p)

\* Covers is the case where both are the same.
LEMMA CoversBounds ==
  ASSUME NEW F, NEW i
  PROVE  Covers(F, i) <=> Bounds(calls, F, F, i)
BY DEF Covers, Bounds, RemovedLater, AddedLater

\* Whatever lies between the two reflects the call.
LEMMA BoundsBetween ==
  ASSUME NEW must, NEW may, NEW F, NEW i, NEW log,
         Bounds(log, must, may, i), must \subseteq F, F \subseteq may
  PROVE  Bounds(log, F, F, i)
BY DEF Bounds

\* A call stays reflected when others come.
LEMMA BoundsKept ==
  ASSUME Grown, NEW must, NEW may, NEW i \in DOMAIN calls, Bounds(calls, must, may, i)
  PROVE  Bounds(calls', must, may, i)
<1>1. \A p : RemovedLater(calls, i, p) => RemovedLater(calls', i, p)
  BY DEF Grown, RemovedLater
<1>2. \A p : AddedLater(calls, i, p) => AddedLater(calls', i, p)
  BY DEF Grown, AddedLater
<1> QED  BY <1>1, <1>2 DEF Bounds, Grown

\* A call stays reflected when another one takes away what it removes and brings what
\* it adds.
LEMMA BoundsBatch ==
  ASSUME Grown, NEW m \in DOMAIN calls', NEW i \in DOMAIN calls, m > i,
         NEW must, NEW may, NEW must2, NEW may2, Bounds(calls, must, may, i),
         must \ calls'[m].rm \subseteq must2, may2 \subseteq may \cup calls'[m].add
  PROVE  Bounds(calls', must2, may2, i)
<1>1. Bounds(calls', must, may, i)
  BY BoundsKept
<1>2. \A p \in calls'[m].rm : RemovedLater(calls', i, p)
  BY DEF RemovedLater
<1>3. \A p \in calls'[m].add : AddedLater(calls', i, p)
  BY DEF AddedLater
<1> QED  BY <1>1, <1>2, <1>3 DEF Bounds

\* A flush took the changes of call i, and whatever it took away was asked for.
Noted(change, i) == calls[i].add \subseteq change.add /\ calls[i].rm \subseteq change.rm
Asked(change) == \A p \in change.rm : \E j \in DOMAIN calls : p \in calls[j].rm

\* The object with these changes on top reflects the call, when no earlier call
\* removed what it adds.
LEMMA MergedCovers ==
  ASSUME TypeOK, NEW change \in Change, NEW i \in DOMAIN calls, Noted(change, i), Asked(change), Fresh(i)
  PROVE  Covers(Merged(change), i)
<1>1. DOMAIN calls = 1 .. Len(calls) /\ \A j \in DOMAIN calls : j \in Nat
  BY LogType DEF TypeOK, CallRecord
<1>2. ASSUME NEW p \in calls[i].add \ calls[i].rm
      PROVE  p \in Merged(change) \/ RemovedLater(calls, i, p)
  <2>1. CASE p \notin change.rm
    BY <1>2, <2>1 DEF Noted, Merged
  <2>2. CASE p \in change.rm
    <3>1. PICK j \in DOMAIN calls : p \in calls[j].rm
      BY <2>2 DEF Asked
    <3>2. j # i
      BY <1>2, <3>1
    <3>3. ~(j \in 1 .. i - 1)
      BY <1>2, <3>1 DEF Fresh
    <3>4. j > i
      BY <1>1, <3>2, <3>3
    <3> QED  BY <3>1, <3>4 DEF RemovedLater
  <2> QED  BY <2>1, <2>2
<1>3. \A p \in calls[i].rm : p \notin Merged(change)
  BY DEF Noted, Merged
<1> QED  BY <1>2, <1>3 DEF Covers, RemovedLater

-----------------------------------------------------------------------------
(* An acknowledged call was in the bucket.                                 *)

\* A call in the hands of the running flush is in what it makes of the files.
OnTheWay(w, i) ==
  /\ pc[w] = "range" => Bounds(calls, window[w].must, window[w].may, i)
  /\ pc[w] \in {"stat", "put"} => Covers(buffer[w], i)

\* A call that waits for the next flush is among the changes that wait for it, and
\* in the files in memory unless a conflict took them away.
Waiting(w, i) ==
  /\ Noted(pending[w], i)
  /\ i \in exposed \/ Covers(files[w], i)

\* A call in hand is among the changes the flush took, and on its way to the bucket,
\* unless it met a conflict while it waited or adds a file again.
InHand(w, i) ==
  /\ pc[w] \in Flushing \ {"reply"} => Noted(heldChange[w], i)
  /\ \/ i \in exposed \/ ~Fresh(i)
     \/ /\ OnTheWay(w, i)
        /\ pc[w] = "reply" /\ outcome[w] = "ok" => i \in stored

\* Range visits no more than it may, and must visit only what is there.
WindowKept(w) ==
  pc[w] = "range" => window[w].must \subseteq window[w].may /\ window[w].must \subseteq files[w]

CoveredBy(w) ==
  /\ WindowKept(w)
  /\ Asked(pending[w]) /\ Asked(heldChange[w])
  /\ \A i \in promises[w] : Waiting(w, i)
  /\ \A i \in held[w] : InHand(w, i)
PromisesCovered == \A w \in Writers : CoveredBy(w)

\* An operation of process w, and what it leaves of the process v.
Step(w) == (\E r \in Requests : Batch(w, r[1], r[2])) \/ Flusher(w) \/ Crash(w)
Apart(v) ==
  /\ files'[v] = files[v] /\ pending'[v] = pending[v] /\ promises'[v] = promises[v]
  /\ pc'[v] = pc[v] /\ held'[v] = held[v] /\ heldChange'[v] = heldChange[v]
  /\ window'[v] = window[v] /\ buffer'[v] = buffer[v] /\ outcome'[v] = outcome[v]
  /\ etag'[v] = etag[v] /\ armed'[v] = armed[v]

\* No process touches what another one remembers.
LEMMA OthersApart ==
  ASSUME TypeOK, NEW w \in Writers, NEW v \in Writers, v # w, Step(w)
  PROVE  Apart(v)
<1>1. CASE \E r \in Requests : Batch(w, r[1], r[2])
  <2>1. PICK r \in Requests : Batch(w, r[1], r[2])
    BY <1>1
  <2>2. CASE UNCHANGED <<memVars, flushVars>>
    BY <2>2 DEF memVars, flushVars, Apart
  <2>3. CASE ~UNCHANGED <<memVars, flushVars>>
    <3>1. /\ files' = [files EXCEPT ![w] = (files[w] \cup r[1]) \ r[2]]
          /\ pending' = [pending EXCEPT ![w] = [add |-> @.add \cup r[1], rm |-> @.rm \cup r[2]]]
          /\ promises' = [promises EXCEPT ![w] = @ \cup {Len(calls) + 1}]
          /\ armed' = [armed EXCEPT ![w] = TRUE]
          /\ window' = [window EXCEPT ![w] = Disturbed(@, r[1], r[2], (files[w] \cup r[1]) \ r[2])]
          /\ UNCHANGED <<etag, pc, held, heldChange, buffer, outcome>>
      BY <2>1, <2>3 DEF Batch
    <3> QED  BY <3>1 DEF Apart, TypeOK
  <2> QED  BY <2>2, <2>3
<1>2. CASE FlushBegin(w)
  BY <1>2 DEF FlushBegin, Ranging, Apart, TypeOK
<1>3. CASE Serialize(w) \/ Stat(w)
  BY <1>3 DEF Serialize, Stat, memVars, Apart, TypeOK
<1>4. CASE Put(w) \/ PutLost(w) \/ Fail(w)
  BY <1>4 DEF Put, PutLost, Fail, Answer, memVars, Apart, TypeOK
<1>5. CASE Reload(w)
  <2>1. /\ etag' = [etag EXCEPT ![w] = CurrentETag]
        /\ files' = [files EXCEPT ![w] = Merged(heldChange[w])]
        /\ UNCHANGED <<pending, promises, armed, held, heldChange, buffer>>
    BY <1>5 DEF Reload, AdoptETag
  <2>2. window'[v] = window[v] /\ outcome'[v] = outcome[v] /\ pc'[v] = pc[v]
    <3>1. CASE attempt[w] + 1 < maxFlushRetries
      BY <1>5, <3>1 DEF Reload, Ranging, TypeOK
    <3>2. CASE ~(attempt[w] + 1 < maxFlushRetries)
      BY <1>5, <3>2 DEF Reload, Answer, TypeOK
    <3> QED  BY <3>1, <3>2
  <2> QED  BY <2>1, <2>2 DEF Apart, TypeOK
<1>6. CASE FlushEnd(w)
  BY <1>6 DEF FlushEnd, memVars, Apart, TypeOK
<1>7. CASE Crash(w)
  BY <1>7 DEF Crash, Apart, TypeOK
<1> QED  BY <1>1, <1>2, <1>3, <1>4, <1>5, <1>6, <1>7 DEF Step, Flusher

\* Every operation keeps the calls of the history, what the bucket has seen and the
\* calls that met a conflict.
LEMMA StepGrows ==
  ASSUME TypeOK, NEW w \in Writers, Step(w)
  PROVE  Grown /\ stored \subseteq stored' /\ exposed \subseteq exposed'
<1>1. calls \in Seq(CallRecord)
  BY DEF TypeOK, CallRecord
<1>2. CASE \E r \in Requests : Batch(w, r[1], r[2])
  <2>1. PICK r \in Requests : Batch(w, r[1], r[2])
    BY <1>2
  <2>2. r[1] \in SUBSET Paths /\ r[2] \in SUBSET Paths
    BY S3Assumption
  <2> QED  BY <1>1, <2>1, <2>2, LogBatch DEF Batch, bucketVars
<1>3. CASE FlushEnd(w)
  BY <1>3, LogFlushEnd DEF FlushEnd, bucketVars
<1>4. CASE Crash(w)
  BY <1>1, <1>4, LogCrash DEF Crash, bucketVars
<1>5. CASE FlushBegin(w) \/ Within(w)
  <2>1. UNCHANGED calls
    BY <1>5, WithinFlush DEF FlushBegin
  <2>2. Grown
    BY <1>1, <2>1 DEF Grown
  <2>3. stored \subseteq stored' /\ exposed \subseteq exposed'
    BY <1>5 DEF Within, FlushBegin, Serialize, Stat, Put, PutLost, Fail, Reload, Upload, bucketVars
  <2> QED  BY <2>2, <2>3
<1> QED  BY <1>2, <1>3, <1>4, <1>5 DEF Step, Flusher, Within

\* What the process v remembers covers its calls as long as it stays.
LEMMA CoveredKept ==
  ASSUME TypeOK, Grown, stored \subseteq stored', exposed \subseteq exposed',
         NEW v \in Writers, CoveredBy(v), Apart(v)
  PROVE  CoveredBy(v)'
<1>1. /\ promises[v] \subseteq DOMAIN calls /\ held[v] \subseteq DOMAIN calls
      /\ DOMAIN calls \subseteq DOMAIN calls'
      /\ \A i \in DOMAIN calls : calls'[i].add = calls[i].add /\ calls'[i].rm = calls[i].rm
      /\ DOMAIN calls = 1 .. Len(calls)
  BY LogType DEF TypeOK, Grown, CallRecord
<1>2. ASSUME NEW F, NEW i \in DOMAIN calls, Covers(F, i)
      PROVE  Bounds(calls', F, F, i)
  BY <1>2, BoundsKept, CoversBounds
<1>3. \A change : Asked(change) => \A p \in change.rm : \E j \in DOMAIN calls' : p \in calls'[j].rm
  BY <1>1 DEF Asked
<1>4. ASSUME NEW i \in DOMAIN calls, Fresh(i)'
      PROVE  Fresh(i)
  <2>1. \A j \in 1 .. i - 1 : j \in DOMAIN calls
    BY <1>1, LogType DEF TypeOK, CallRecord
  <2> QED  BY <1>1, <1>4, <2>1 DEF Fresh
<1>5. WindowKept(v)'
  BY DEF CoveredBy, WindowKept, Apart
<1>6. Asked(pending[v])' /\ Asked(heldChange[v])'
  BY <1>3 DEF CoveredBy, Asked, Apart
<1>7. ASSUME NEW i \in promises[v]
      PROVE  Waiting(v, i)'
  <2>1. i \in DOMAIN calls /\ Waiting(v, i)
    BY <1>1 DEF CoveredBy
  <2>2. i \in exposed' \/ Bounds(calls', files[v], files[v], i)
    BY <1>2, <2>1 DEF Waiting
  <2> QED  BY <1>1, <2>1, <2>2 DEF Waiting, Noted, Covers, Bounds, RemovedLater, AddedLater, Apart
<1>8. ASSUME NEW i \in held[v]
      PROVE  InHand(v, i)'
  <2>1. i \in DOMAIN calls /\ InHand(v, i)
    BY <1>1 DEF CoveredBy
  <2>2. pc[v] \in Flushing \ {"reply"} => Noted(heldChange[v], i)'
    BY <1>1, <2>1 DEF InHand, Noted, Apart
  <2>3. ASSUME i \notin exposed', Fresh(i)'
        PROVE  /\ OnTheWay(v, i)'
               /\ pc[v] = "reply" /\ outcome[v] = "ok" => i \in stored'
    <3>1. /\ OnTheWay(v, i)
          /\ pc[v] = "reply" /\ outcome[v] = "ok" => i \in stored
      BY <1>4, <2>1, <2>3 DEF InHand
    <3>2. pc[v] = "range" => Bounds(calls', window[v].must, window[v].may, i)
      BY <2>1, <3>1, BoundsKept DEF OnTheWay
    <3>3. pc[v] \in {"stat", "put"} => Bounds(calls', buffer[v], buffer[v], i)
      BY <1>2, <2>1, <3>1 DEF OnTheWay
    <3> QED  BY <3>1, <3>2, <3>3 DEF OnTheWay, Covers, Bounds, RemovedLater, AddedLater, Apart
  <2> QED  BY <2>2, <2>3 DEF InHand, Apart
<1> QED  BY <1>5, <1>6, <1>7, <1>8 DEF CoveredBy, Apart

\* What a call of Batch does.
LEMMA BatchEffect ==
  ASSUME TypeOK, NEW w \in Writers, NEW r \in Requests, Batch(w, r[1], r[2])
  PROVE  /\ Grown /\ Len(calls) \in Nat /\ DOMAIN calls = 1 .. Len(calls)
         /\ DOMAIN calls' = DOMAIN calls \cup {Len(calls) + 1}
         /\ Len(calls) + 1 \notin DOMAIN calls
         /\ \A i \in DOMAIN calls : calls'[i] = calls[i] /\ i < Len(calls) + 1
         /\ calls'[Len(calls) + 1].add = r[1] /\ calls'[Len(calls) + 1].rm = r[2]
         /\ calls'[Len(calls) + 1].by = w
         /\ UNCHANGED <<object, puts, stored, exposed, spent, etag, pc, attempt, held, heldChange, buffer,
                        outcome>>
         /\ \/ /\ UNCHANGED <<files, pending, promises, armed, window>>
               /\ ~calls'[Len(calls) + 1].queued
            \/ /\ files' = [files EXCEPT ![w] = (files[w] \cup r[1]) \ r[2]]
               /\ pending' = [pending EXCEPT ![w] = [add |-> pending[w].add \cup r[1], rm |-> pending[w].rm \cup r[2]]]
               /\ promises' = [promises EXCEPT ![w] = promises[w] \cup {Len(calls) + 1}]
               /\ armed' = [armed EXCEPT ![w] = TRUE]
               /\ window' = [window EXCEPT ![w] =
                    [must |-> window[w].must \cap ((files[w] \cup r[1]) \ r[2]), may |-> window[w].may \cup r[1]]]
               /\ calls'[Len(calls) + 1].res = "pending"
<1> DEFINE m == Len(calls) + 1
<1>1. calls \in Seq(CallRecord) /\ r[1] \in SUBSET Paths /\ r[2] \in SUBSET Paths
  BY S3Assumption DEF TypeOK, CallRecord
<1>2. /\ Grown /\ Len(calls) \in Nat /\ DOMAIN calls = 1 .. Len(calls)
      /\ DOMAIN calls' = DOMAIN calls \cup {m} /\ m \notin DOMAIN calls
      /\ \A i \in DOMAIN calls : calls'[i] = calls[i] /\ i < m
  BY <1>1, LogBatch
<1>3. \A q \in BOOLEAN : calls' = Append(calls, Call(w, r[1], r[2], q)) => calls'[m] = Call(w, r[1], r[2], q)
  <2> SUFFICES ASSUME NEW q \in BOOLEAN, calls' = Append(calls, Call(w, r[1], r[2], q))
               PROVE  calls'[m] = Call(w, r[1], r[2], q)
    OBVIOUS
  <2> DEFINE c == Call(w, r[1], r[2], q)
  <2>1. c \in CallRecord
    BY <1>1 DEF Call, CallRecord
  <2>2. calls' = Append(calls, c)
    OBVIOUS
  <2> HIDE DEF c
  <2>3. calls'[Len(calls) + 1] = c
    BY <1>1, <2>1, <2>2, Appended
  <2> QED  BY <2>3 DEF c
<1>4. UNCHANGED <<object, puts, stored, exposed, spent, etag, pc, attempt, held, heldChange, buffer, outcome>>
  BY DEF Batch, bucketVars, memVars, flushVars
<1>5. \/ /\ calls' = Append(calls, Call(w, r[1], r[2], FALSE))
         /\ UNCHANGED <<files, pending, promises, armed, window>>
      \/ /\ calls' = Append(calls, Call(w, r[1], r[2], TRUE))
         /\ files' = [files EXCEPT ![w] = (files[w] \cup r[1]) \ r[2]]
         /\ pending' = [pending EXCEPT ![w] = [add |-> pending[w].add \cup r[1], rm |-> pending[w].rm \cup r[2]]]
         /\ promises' = [promises EXCEPT ![w] = promises[w] \cup {m}]
         /\ armed' = [armed EXCEPT ![w] = TRUE]
         /\ window' = [window EXCEPT ![w] =
              [must |-> window[w].must \cap ((files[w] \cup r[1]) \ r[2]), may |-> window[w].may \cup r[1]]]
  BY DEF Batch, Disturbed, memVars, flushVars
<1>6. \A q \in BOOLEAN : LET c == Call(w, r[1], r[2], q)
                         IN /\ c.add = r[1] /\ c.rm = r[2] /\ c.by = w /\ c.queued = q
                            /\ q => c.res = "pending"
  BY DEF Call
<1> QED  BY <1>2, <1>3, <1>4, <1>5, <1>6

\* Earlier calls do not change: a call that adds new files still does.
LEMMA FreshBefore ==
  ASSUME TypeOK, Grown, NEW i \in DOMAIN calls, Fresh(i)'
  PROVE  Fresh(i)
<1>1. Len(calls) \in Nat /\ DOMAIN calls = 1 .. Len(calls) /\ i \in Nat
  BY LogType DEF TypeOK, CallRecord
<1>2. \A j \in 1 .. i - 1 : j \in DOMAIN calls
  BY <1>1
<1> QED  BY <1>2 DEF Fresh, Grown

\* Batch adds a call to what waits for the next flush, and covers what it undoes.
LEMMA CoveredBatch ==
  ASSUME TypeOK, NEW w \in Writers, CoveredBy(w), NEW r \in Requests, Batch(w, r[1], r[2])
  PROVE  CoveredBy(w)'
<1> DEFINE m == Len(calls) + 1
           after == (files[w] \cup r[1]) \ r[2]
<1>1. /\ Grown /\ DOMAIN calls' = DOMAIN calls \cup {m} /\ m \in DOMAIN calls'
      /\ \A i \in DOMAIN calls : calls'[i] = calls[i] /\ m > i
      /\ calls'[m].add = r[1] /\ calls'[m].rm = r[2]
      /\ UNCHANGED <<stored, exposed, pc, held, heldChange, buffer, outcome>>
  BY BatchEffect
<1>2. /\ promises[w] \subseteq DOMAIN calls /\ held[w] \subseteq DOMAIN calls
      /\ DOMAIN files = Writers /\ DOMAIN pending = Writers /\ DOMAIN promises = Writers
      /\ DOMAIN window = Writers
  BY DEF TypeOK
<1>3. CASE UNCHANGED <<files, pending, promises, armed, window>>
  <2>1. Apart(w)
    BY <1>3, BatchEffect DEF Apart
  <2> QED  BY <1>1, <2>1, CoveredKept
<1>4. CASE ~UNCHANGED <<files, pending, promises, armed, window>>
  <2>1. /\ files'[w] = after
        /\ pending'[w] = [add |-> pending[w].add \cup r[1], rm |-> pending[w].rm \cup r[2]]
        /\ promises'[w] = promises[w] \cup {m}
        /\ window'[w] = [must |-> window[w].must \cap after, may |-> window[w].may \cup r[1]]
    <3>1. /\ files' = [files EXCEPT ![w] = after]
          /\ pending' = [pending EXCEPT ![w] = [add |-> pending[w].add \cup r[1], rm |-> pending[w].rm \cup r[2]]]
          /\ promises' = [promises EXCEPT ![w] = promises[w] \cup {m}]
          /\ window' = [window EXCEPT ![w] =
               [must |-> window[w].must \cap after, may |-> window[w].may \cup r[1]]]
      BY <1>4, BatchEffect
    <3> QED  BY <1>2, <3>1
  <2> HIDE DEF m
  <2>2. WindowKept(w) /\ Asked(pending[w]) /\ Asked(heldChange[w])
    BY DEF CoveredBy
  <2>3. WindowKept(w)'
    BY <1>1, <2>1, <2>2 DEF WindowKept
  <2>4. Asked(pending[w])' /\ Asked(heldChange[w])'
    BY <1>1, <2>1, <2>2 DEF Asked
  <2>5. ASSUME NEW i \in promises'[w]
        PROVE  Waiting(w, i)'
    <3>1. CASE i = m
      <4>1. Covers(files[w], i)'
        BY <1>1, <2>1, <3>1 DEF Covers
      <4>2. Noted(pending[w], i)'
        BY <1>1, <2>1, <3>1 DEF Noted
      <4> QED  BY <4>1, <4>2 DEF Waiting
    <3>2. CASE i # m
      <4>1. i \in promises[w] /\ i \in DOMAIN calls /\ Waiting(w, i)
        BY <1>2, <2>1, <3>2 DEF CoveredBy
      <4>2. Covers(files[w], i) => Bounds(calls', after, after, i)
        <5>1. Covers(files[w], i) => Bounds(calls, files[w], files[w], i)
          BY CoversBounds
        <5>2. files[w] \ calls'[m].rm \subseteq after /\ after \subseteq files[w] \cup calls'[m].add
          BY <1>1
        <5> QED  BY <1>1, <4>1, <5>1, <5>2, BoundsBatch
      <4>3. Noted(pending[w], i)'
        BY <1>1, <2>1, <4>1 DEF Waiting, Noted
      <4> QED  BY <1>1, <2>1, <4>1, <4>2, <4>3
               DEF Waiting, Covers, Bounds, RemovedLater, AddedLater
    <3> QED  BY <3>1, <3>2
  <2>6. ASSUME NEW i \in held[w]
        PROVE  InHand(w, i)'
    <3>1. i \in DOMAIN calls /\ InHand(w, i)
      BY <1>2 DEF CoveredBy
    <3>2. pc[w] \in Flushing \ {"reply"} => Noted(heldChange[w], i)'
      BY <1>1, <3>1 DEF InHand, Noted
    <3>3. ASSUME i \notin exposed, Fresh(i)'
          PROVE  /\ OnTheWay(w, i)'
                 /\ pc[w] = "reply" /\ outcome[w] = "ok" => i \in stored
      <4>1. /\ OnTheWay(w, i)
            /\ pc[w] = "reply" /\ outcome[w] = "ok" => i \in stored
        BY <1>1, <3>1, <3>3, FreshBefore DEF InHand
      <4>2. pc[w] = "range" => Bounds(calls', window'[w].must, window'[w].may, i)
        <5> SUFFICES ASSUME pc[w] = "range"
                     PROVE  Bounds(calls', window'[w].must, window'[w].may, i)
          OBVIOUS
        <5>1. Bounds(calls, window[w].must, window[w].may, i) /\ window[w].must \subseteq files[w]
          BY <2>2, <4>1 DEF OnTheWay, WindowKept
        <5>2. /\ window[w].must \ calls'[m].rm \subseteq window'[w].must
              /\ window'[w].may \subseteq window[w].may \cup calls'[m].add
          BY <1>1, <2>1, <5>1
        <5> QED  BY <1>1, <3>1, <5>1, <5>2, BoundsBatch
      <4>3. pc[w] \in {"stat", "put"} => Bounds(calls', buffer[w], buffer[w], i)
        BY <1>1, <3>1, <4>1, BoundsKept, CoversBounds DEF OnTheWay
      <4> QED  BY <1>1, <4>1, <4>2, <4>3 DEF OnTheWay, Covers, Bounds, RemovedLater, AddedLater
    <3> QED  BY <1>1, <3>1, <3>2, <3>3 DEF InHand
  <2> QED  BY <1>1, <2>3, <2>4, <2>5, <2>6 DEF CoveredBy
<1> QED  BY <1>3, <1>4

\* The steps of a flush keep the calls in hand covered.
LEMMA CoveredFlush ==
  ASSUME TypeOK, NEW w \in Writers, CoveredBy(w), FlushBegin(w) \/ Within(w)
  PROVE  CoveredBy(w)'
<1>1. /\ promises[w] \subseteq DOMAIN calls /\ held[w] \subseteq DOMAIN calls
      /\ heldChange[w] \in Change
      /\ DOMAIN pc = Writers /\ DOMAIN window = Writers /\ DOMAIN buffer = Writers
      /\ DOMAIN outcome = Writers /\ DOMAIN files = Writers
  BY DEF TypeOK
<1>2. /\ WindowKept(w) /\ Asked(pending[w]) /\ Asked(heldChange[w])
      /\ \A i \in promises[w] : Waiting(w, i)
      /\ \A i \in held[w] : InHand(w, i)
  BY DEF CoveredBy
<1>3. CASE FlushBegin(w)
  <2>1. /\ held'[w] = promises[w] /\ promises'[w] = {}
        /\ heldChange'[w] = pending[w] /\ pending'[w] = NoChange
        /\ pc'[w] = "range" /\ window'[w] = [must |-> files[w], may |-> files[w]]
        /\ UNCHANGED <<stored, exposed, calls, files>>
    BY <1>3 DEF FlushBegin, Ranging, bucketVars, TypeOK
  <2>2. ASSUME NEW i \in promises[w]
        PROVE  InHand(w, i)'
    <3>1. i \notin exposed => Bounds(calls, files[w], files[w], i)
      BY <1>2, CoversBounds DEF Waiting
    <3> QED  BY <1>2, <2>1, <3>1 DEF InHand, OnTheWay, Waiting, Noted
  <2>3. Asked(pending[w])' /\ Asked(heldChange[w])'
    BY <1>2, <2>1 DEF Asked, NoChange
  <2>4. WindowKept(w)'
    BY <2>1 DEF WindowKept
  <2> QED  BY <2>1, <2>2, <2>3, <2>4 DEF CoveredBy
<1>4. CASE Within(w) /\ ~Reload(w)
  <2>1. /\ UNCHANGED <<files, pending, promises, held, heldChange, calls, exposed>>
        /\ pc[w] \in Flushing \ {"reply"} /\ pc'[w] # "range"
    BY <1>1, <1>4 DEF Within, Serialize, Stat, Put, PutLost, Fail, Upload, Answer, Flushing,
                      bucketVars, memVars
  <2>2. ASSUME NEW i \in held[w], i \notin exposed, Fresh(i)
        PROVE  /\ OnTheWay(w, i)'
               /\ pc'[w] = "reply" /\ outcome'[w] = "ok" => i \in stored'
    <3>1. OnTheWay(w, i) /\ i \in DOMAIN calls
      BY <1>1, <1>2, <2>2 DEF InHand
    <3>2. CASE Serialize(w)
      <4>1. PICK extra \in SUBSET (window[w].may \ window[w].must) :
              buffer' = [buffer EXCEPT ![w] = window[w].must \cup extra]
        BY <3>2 DEF Serialize
      <4>2. pc[w] = "range" /\ pc'[w] = "stat" /\ buffer'[w] = window[w].must \cup extra
        BY <1>1, <3>2, <4>1 DEF Serialize
      <4>3. /\ Bounds(calls, window[w].must, window[w].may, i)
            /\ window[w].must \subseteq buffer'[w] /\ buffer'[w] \subseteq window[w].may
        BY <1>2, <3>1, <4>1, <4>2 DEF OnTheWay, WindowKept
      <4>4. Bounds(calls, buffer'[w], buffer'[w], i)
        BY <4>3, BoundsBetween
      <4> QED  BY <2>1, <4>2, <4>4 DEF OnTheWay, Covers, Bounds, RemovedLater, AddedLater
    <3>3. CASE Stat(w)
      BY <1>1, <2>1, <3>1, <3>3 DEF Stat, OnTheWay, Covers
    <3>4. CASE Put(w) \/ PutLost(w)
      <4>1. Covers(buffer[w], i) /\ pc'[w] = "reply"
        BY <1>1, <3>1, <3>4 DEF Put, PutLost, Answer, OnTheWay
      <4>2. i \in stored'
        BY <3>1, <3>4, <4>1 DEF Put, PutLost, Upload
      <4> QED  BY <4>1, <4>2 DEF OnTheWay
    <3>5. CASE Fail(w)
      BY <1>1, <3>5 DEF Fail, Answer, OnTheWay
    <3> QED  BY <1>4, <3>2, <3>3, <3>4, <3>5 DEF Within
  <2>3. ASSUME NEW i \in held[w]
        PROVE  InHand(w, i)'
    BY <1>2, <2>1, <2>2, <2>3 DEF InHand, Noted, Fresh
  <2>4. WindowKept(w)' /\ Asked(pending[w])' /\ Asked(heldChange[w])'
    BY <1>2, <2>1 DEF WindowKept, Asked
  <2> QED  BY <1>2, <2>1, <2>3, <2>4 DEF CoveredBy, Waiting, Covers, Noted
<1>5. CASE Reload(w)
  <2> DEFINE merged == Merged(heldChange[w])
  <2>1. /\ files'[w] = merged /\ exposed' = exposed \cup promises[w]
        /\ UNCHANGED <<pending, promises, held, heldChange, calls, stored>>
        /\ pc[w] = "reload"
    BY <1>1, <1>5 DEF Reload
  <2>2. \/ /\ pc'[w] = "range" /\ window'[w] = [must |-> merged, may |-> merged]
        \/ pc'[w] = "reply" /\ outcome'[w] = "exhausted"
    <3>1. CASE attempt[w] + 1 < maxFlushRetries
      BY <1>1, <1>5, <3>1 DEF Reload, Ranging
    <3>2. CASE ~(attempt[w] + 1 < maxFlushRetries)
      BY <1>1, <1>5, <3>2 DEF Reload, Answer
    <3> QED  BY <3>1, <3>2
  <2>3. ASSUME NEW i \in held[w]
        PROVE  InHand(w, i)'
    <3>1. Noted(heldChange[w], i) /\ i \in DOMAIN calls
      BY <1>1, <1>2, <2>1 DEF InHand, Flushing
    <3>2. Fresh(i) => Covers(merged, i)
      BY <1>1, <1>2, <3>1, MergedCovers
    <3>3. Fresh(i) => Bounds(calls, merged, merged, i)
      BY <3>2, CoversBounds
    <3>4. Noted(heldChange[w], i)' /\ (Fresh(i)' <=> Fresh(i))
      BY <2>1, <3>1 DEF Noted, Fresh
    <3>5. Fresh(i) => OnTheWay(w, i)'
      <4>1. CASE pc'[w] = "range" /\ window'[w] = [must |-> merged, may |-> merged]
        BY <2>1, <3>3, <4>1 DEF OnTheWay
      <4>2. CASE pc'[w] = "reply"
        BY <4>2 DEF OnTheWay
      <4> QED  BY <2>2, <4>1, <4>2
    <3> QED  BY <2>2, <3>4, <3>5 DEF InHand
  <2>4. WindowKept(w)'
    BY <2>1, <2>2 DEF WindowKept
  <2>5. Asked(pending[w])' /\ Asked(heldChange[w])'
    BY <1>2, <2>1 DEF Asked
  <2> QED  BY <1>2, <2>1, <2>3, <2>4, <2>5 DEF CoveredBy, Waiting, Covers, Noted
<1> QED  BY <1>3, <1>4, <1>5 DEF Within

\* Every operation keeps the calls of every process covered.
LEMMA CoveredStep ==
  ASSUME TypeOK, PromisesCovered, NEW w \in Writers, Step(w)
  PROVE  PromisesCovered'
<1>1. Grown /\ stored \subseteq stored' /\ exposed \subseteq exposed'
  BY StepGrows
<1>2. ASSUME NEW v \in Writers, v # w
      PROVE  CoveredBy(v)'
  BY <1>1, <1>2, OthersApart, CoveredKept DEF PromisesCovered
<1>3. CoveredBy(w)'
  <2>1. CASE \E r \in Requests : Batch(w, r[1], r[2])
    BY <2>1, CoveredBatch DEF PromisesCovered
  <2>2. CASE FlushBegin(w) \/ Within(w)
    BY <2>2, CoveredFlush DEF PromisesCovered
  <2>3. CASE FlushEnd(w)
    <3>1. /\ UNCHANGED <<files, pending, promises, heldChange, exposed>>
          /\ pc'[w] = "select" /\ held'[w] = {}
      BY <2>3 DEF FlushEnd, bucketVars, memVars, TypeOK
    <3>2. /\ DOMAIN calls' = DOMAIN calls
          /\ \A i \in DOMAIN calls : calls'[i].add = calls[i].add /\ calls'[i].rm = calls[i].rm
          /\ promises[w] \subseteq DOMAIN calls
      BY <2>3, LogFlushEnd DEF Grown, TypeOK
    <3>3. \A i \in promises[w] : Waiting(w, i)'
      BY <3>1, <3>2 DEF PromisesCovered, CoveredBy, Waiting, Noted, Covers
    <3>4. Asked(pending[w])' /\ Asked(heldChange[w])'
      BY <3>1, <3>2 DEF PromisesCovered, CoveredBy, Asked
    <3> QED  BY <3>1, <3>3, <3>4 DEF CoveredBy, WindowKept
  <2>4. CASE Crash(w)
    <3>1. /\ promises'[w] = {} /\ held'[w] = {} /\ pc'[w] = "select" /\ pending'[w] = NoChange
          /\ heldChange' = heldChange
      BY <2>4 DEF Crash, TypeOK
    <3>2. Asked(heldChange[w])'
      BY <1>1, <3>1 DEF PromisesCovered, CoveredBy, Asked, Grown
    <3> QED  BY <3>1, <3>2 DEF CoveredBy, WindowKept, Asked, NoChange
  <2> QED  BY <2>1, <2>2, <2>3, <2>4 DEF Step, Flusher, Within
<1> QED  BY <1>2, <1>3 DEF PromisesCovered

\* A call that is acknowledged was, or the running flush resolves its promise now.
LEMMA NewAnswer ==
  ASSUME TypeOK, NEW w \in Writers, Step(w), NEW i \in DOMAIN calls', Acked(i)'
  PROVE  /\ i \in DOMAIN calls
         /\ \/ Acked(i)
            \/ pc[w] = "reply" /\ outcome[w] = "ok" /\ i \in held[w] /\ FlushEnd(w)
<1>1. calls \in Seq(CallRecord)
  BY DEF TypeOK, CallRecord
<1>2. CASE \E r \in Requests : Batch(w, r[1], r[2])
  <2>1. PICK r \in Requests : Batch(w, r[1], r[2])
    BY <1>2
  <2>2. ~calls'[Len(calls) + 1].queued \/ calls'[Len(calls) + 1].res = "pending"
    BY <2>1, BatchEffect
  <2>3. /\ DOMAIN calls' = DOMAIN calls \cup {Len(calls) + 1}
        /\ \A j \in DOMAIN calls : calls'[j] = calls[j]
    BY <2>1, BatchEffect
  <2> QED  BY <2>2, <2>3 DEF Acked
<1>3. CASE FlushEnd(w)
  <2>1. /\ DOMAIN calls' = DOMAIN calls
        /\ \A j \in DOMAIN calls :
             IF j \in held[w] THEN calls'[j].res = outcome[w] ELSE calls'[j] = calls[j]
    BY <1>3, LogFlushEnd
  <2> QED  BY <1>3, <2>1 DEF FlushEnd, Acked
<1>4. CASE Crash(w)
  <2>1. /\ DOMAIN calls' = DOMAIN calls
        /\ \A j \in DOMAIN calls :
             IF j \in Outstanding(w) THEN calls'[j].res = "lost" ELSE calls'[j] = calls[j]
    BY <1>1, <1>4, LogCrash
  <2> QED  BY <2>1 DEF Acked
<1>5. CASE FlushBegin(w) \/ Within(w)
  BY <1>5, WithinFlush DEF FlushBegin, Acked
<1> QED  BY <1>2, <1>3, <1>4, <1>5 DEF Step, Flusher, Within

\* Every operation keeps the promise of the answers.
LEMMA AckedStep ==
  ASSUME TypeOK, PromisesCovered, AckedStored, NEW w \in Writers, Step(w)
  PROVE  AckedStored'
<1>1. Grown /\ stored \subseteq stored' /\ exposed \subseteq exposed'
  BY StepGrows
<1>2. ASSUME NEW i \in DOMAIN calls', Acked(i)', Fresh(i)', i \notin exposed'
      PROVE  i \in stored'
  <2>1. /\ i \in DOMAIN calls
        /\ \/ Acked(i)
           \/ pc[w] = "reply" /\ outcome[w] = "ok" /\ i \in held[w]
    BY <1>2, NewAnswer
  <2>2. Fresh(i)
    BY <1>1, <1>2, <2>1, FreshBefore
  <2>3. Acked(i) => i \in stored
    BY <1>1, <1>2, <2>1, <2>2 DEF AckedStored
  <2>4. i \in held[w] /\ pc[w] = "reply" /\ outcome[w] = "ok" => i \in stored
    BY <1>1, <1>2, <2>2 DEF PromisesCovered, CoveredBy, InHand
  <2> QED  BY <1>1, <2>1, <2>3, <2>4
<1> QED  BY <1>2 DEF AckedStored

\* The object may vanish, what it was stays so.
LEMMA DeleteKeeps ==
  ASSUME TypeOK, Delete \/ UNCHANGED vars
  PROVE  /\ \A v \in Writers : Apart(v)
         /\ UNCHANGED <<calls, stored, exposed, puts>> /\ Grown
<1>1. calls \in Seq(CallRecord)
  BY DEF TypeOK, CallRecord
<1>2. UNCHANGED <<calls, stored, exposed, puts, memVars, flushVars>>
  BY DEF Delete, vars, bucketVars
<1> QED  BY <1>1, <1>2 DEF memVars, flushVars, Apart, Grown

\* A Batch of new files answered without error by a flush was in metadata.json at some
\* time, whatever conflicts the flush met on its way, except the calls that were
\* waiting for the next flush when the running one met a conflict.
THEOREM AckedWereStored == Spec => []AckedStored
<1> DEFINE Inv == TypeOK /\ PromisesCovered /\ AckedStored
<1>1. Init => Inv
  <2> SUFFICES ASSUME Init
               PROVE  PromisesCovered /\ AckedStored
    BY TypeInit
  <2>1. /\ DOMAIN calls = {}
        /\ \A w \in Writers : /\ promises[w] = {} /\ held[w] = {} /\ pc[w] = "select"
                              /\ pending[w] = NoChange /\ heldChange[w] = NoChange
    BY DEF Init
  <2> QED  BY <2>1 DEF PromisesCovered, CoveredBy, WindowKept, Asked, NoChange, AckedStored
<1>2. Inv /\ [Next]_vars => Inv'
  <2> SUFFICES ASSUME Inv, [Next]_vars
               PROVE  Inv'
    OBVIOUS
  <2>1. TypeOK'
    BY TypeStep
  <2>2. PromisesCovered' /\ AckedStored'
    <3>1. CASE \E w \in Writers : Step(w)
      BY <3>1, CoveredStep, AckedStep
    <3>2. CASE Delete \/ UNCHANGED vars
      <4>1. PromisesCovered'
        BY <3>2, DeleteKeeps, CoveredKept DEF PromisesCovered
      <4>2. AckedStored'
        BY <3>2, DeleteKeeps DEF AckedStored, Acked, Fresh
      <4> QED  BY <4>1, <4>2
    <3> QED  BY <3>1, <3>2 DEF Next, Step
  <2> QED  BY <2>1, <2>2
<1>3. Inv => AckedStored
  OBVIOUS
<1> QED  BY <1>1, <1>2, <1>3, PTL DEF Spec

-----------------------------------------------------------------------------
(* A process that has the partition to itself keeps what it acknowledged.  *)

\* All calls are of process w, and it knows the object of the bucket; its files, what
\* a flush makes of them, and the object reflect the calls they have to.
Only(w) == \A i \in DOMAIN calls : calls[i].by = w
Reflected(w, i) == Covers(files[w], i) /\ OnTheWay(w, i)
Alone(w) ==
  /\ etag[w] = CurrentETag /\ pc[w] # "reload" /\ WindowKept(w)
  /\ \A i \in promises[w] : Covers(files[w], i)
  /\ \A i \in held[w] : /\ Reflected(w, i)
                        /\ pc[w] = "reply" /\ outcome[w] = "ok" => Covers(CurrentFiles, i)
  /\ \A i \in DOMAIN calls : Acked(i) => Reflected(w, i) /\ Covers(CurrentFiles, i)
Undisturbed(w) == Only(w) /\ spent["lost"] = 0 /\ spent["deletes"] = 0
SoleKept == \A w \in Writers : Undisturbed(w) => Alone(w)

\* An upload whose response is lost and a deletion of the object are counted.
LEMMA SpentKept ==
  ASSUME TypeOK, [Next]_vars
  PROVE  /\ spent["lost"] \in Nat /\ spent["deletes"] \in Nat
         /\ spent'["lost"] >= spent["lost"] /\ spent'["deletes"] >= spent["deletes"]
         /\ \A w \in Writers : PutLost(w) => spent'["lost"] > spent["lost"]
         /\ Delete => spent'["deletes"] > spent["deletes"]
<1>1. spent["lost"] \in Nat /\ spent["deletes"] \in Nat
  BY DEF TypeOK
<1>2. \A bound : \A what \in {"failures", "lost", "deletes", "crashes"} :
        Spend(what, bound) =>
          /\ spent'["lost"] = IF what = "lost" THEN spent["lost"] + 1 ELSE spent["lost"]
          /\ spent'["deletes"] = IF what = "deletes" THEN spent["deletes"] + 1 ELSE spent["deletes"]
  <2>1. ASSUME NEW bound, NEW what \in {"failures", "lost", "deletes", "crashes"}, Spend(what, bound)
        PROVE  /\ spent'["lost"] = IF what = "lost" THEN spent["lost"] + 1 ELSE spent["lost"]
               /\ spent'["deletes"] = IF what = "deletes" THEN spent["deletes"] + 1 ELSE spent["deletes"]
    <3>1. spent \in [{"failures", "lost", "deletes", "crashes"} -> Nat]
      BY DEF TypeOK
    <3>2. spent' = [spent EXCEPT ![what] = @ + 1]
      BY <2>1 DEF Spend
    <3> QED  BY <3>1, <3>2
  <2> QED  BY <2>1
<1>3. \A w \in Writers : PutLost(w) => Spend("lost", MaxSurprises)
  BY DEF PutLost, Surprise
<1>4. Delete => Spend("deletes", MaxSurprises)
  BY DEF Delete, Surprise
<1>5. \/ UNCHANGED spent \/ (\E w \in Writers : PutLost(w)) \/ Delete
      \/ Spend("failures", MaxFailures) \/ Spend("crashes", MaxCrashes)
  BY DEF Next, Flusher, Batch, FlushBegin, Serialize, Stat, Put, Fail, Reload, FlushEnd, Crash, vars
<1>6. (\E w \in Writers : PutLost(w)) \/ Delete => Spend("lost", MaxSurprises) \/ Spend("deletes", MaxSurprises)
  BY <1>3, <1>4
<1>7. spent'["lost"] >= spent["lost"] /\ spent'["deletes"] >= spent["deletes"]
  BY <1>1, <1>2, <1>5, <1>6
<1>8. \A w \in Writers : PutLost(w) => spent'["lost"] > spent["lost"]
  BY <1>1, <1>2, <1>3
<1>9. Delete => spent'["deletes"] > spent["deletes"]
  BY <1>1, <1>2, <1>4
<1> QED  BY <1>1, <1>7, <1>8, <1>9

\* A process that has the partition to itself had it before.
LEMMA UndisturbedBefore ==
  ASSUME TypeOK, NEW w \in Writers, [Next]_vars, Grown, Undisturbed(w)'
  PROVE  Undisturbed(w) /\ ~Delete /\ \A v \in Writers : ~PutLost(v)
<1>1. Only(w)
  BY DEF Undisturbed, Only, Grown
<1>2. spent'["lost"] = 0 /\ spent'["deletes"] = 0
  BY DEF Undisturbed
<1>3. spent["lost"] = 0 /\ spent["deletes"] = 0
  BY <1>2, SpentKept
<1> QED  BY <1>1, <1>2, <1>3, SpentKept DEF Undisturbed

\* The other processes have nothing to flush.
LEMMA OthersIdle ==
  ASSUME TypeOK, FlusherWoken, NEW w \in Writers, Only(w), Only(w)',
         NEW v \in Writers, v # w, Step(v)
  PROVE  UNCHANGED <<object, calls>>
<1>1. calls \in Seq(CallRecord)
  BY DEF TypeOK, CallRecord
<1>2. Outstanding(v) = {}
  BY DEF Only, Outstanding, CallsOf
<1>3. promises[v] = {} /\ held[v] = {}
  BY <1>2 DEF TypeOK
<1>4. ~armed[v] /\ pc[v] \notin Flushing
  BY <1>3 DEF FlusherWoken
<1>5. \A r \in Requests : ~Batch(v, r[1], r[2])
  BY BatchEffect DEF Only
<1>6. CASE Crash(v)
  <2>1. DOMAIN calls' = DOMAIN calls /\ calls' \in Seq(CallRecord) /\ Len(calls') = Len(calls)
        /\ \A i \in DOMAIN calls : calls'[i] = calls[i]
    BY <1>1, <1>2, <1>6, LogCrash DEF Grown
  <2>2. calls' = calls
    BY <1>1, <2>1
  <2> QED  BY <1>6, <2>2 DEF Crash, bucketVars
<1> QED  BY <1>4, <1>5, <1>6, WithinFlush
         DEF Step, Flusher, Within, FlushBegin, FlushEnd, Flushing

\* What they do does not concern it.
LEMMA AloneOthers ==
  ASSUME NEW w \in Writers, Alone(w), UNCHANGED <<object, calls>>, Apart(w)
  PROVE  Alone(w)'
<1>1. CurrentFiles' = CurrentFiles /\ CurrentETag' = CurrentETag
  BY DEF CurrentFiles, CurrentETag
<1>2. WindowKept(w)'
  BY DEF Alone, WindowKept, Apart
<1>3. \A i : /\ Reflected(w, i)' <=> Reflected(w, i)
             /\ Covers(files[w], i)' <=> Covers(files[w], i)
             /\ Covers(CurrentFiles, i)' <=> Covers(CurrentFiles, i)
             /\ Acked(i)' <=> Acked(i)
  BY <1>1 DEF Reflected, OnTheWay, Covers, Bounds, RemovedLater, AddedLater, Acked, Apart
<1> QED  BY <1>1, <1>2, <1>3 DEF Alone, Apart

\* Batch: the files reflect the new call and those before it.
LEMMA AloneBatch ==
  ASSUME TypeOK, NEW w \in Writers, Alone(w), NEW r \in Requests, Batch(w, r[1], r[2])
  PROVE  Alone(w)'
<1> DEFINE m == Len(calls) + 1
           after == (files[w] \cup r[1]) \ r[2]
<1>1. /\ Grown /\ DOMAIN calls' = DOMAIN calls \cup {m} /\ m \in DOMAIN calls'
      /\ \A i \in DOMAIN calls : calls'[i] = calls[i] /\ m > i
      /\ calls'[m].add = r[1] /\ calls'[m].rm = r[2]
      /\ UNCHANGED <<object, etag, pc, held, buffer, outcome>>
      /\ ~calls'[m].queued \/ calls'[m].res = "pending"
  BY BatchEffect
<1>2. /\ promises[w] \subseteq DOMAIN calls /\ held[w] \subseteq DOMAIN calls
      /\ DOMAIN files = Writers /\ DOMAIN promises = Writers /\ DOMAIN window = Writers
  BY DEF TypeOK
<1>3. \/ UNCHANGED <<files, promises, window>>
      \/ /\ files' = [files EXCEPT ![w] = after]
         /\ promises' = [promises EXCEPT ![w] = promises[w] \cup {m}]
         /\ window' = [window EXCEPT ![w] =
              [must |-> window[w].must \cap after, may |-> window[w].may \cup r[1]]]
  BY BatchEffect
<1>4. \/ files'[w] = files[w] /\ promises'[w] = promises[w] /\ window'[w] = window[w]
      \/ /\ files'[w] = after /\ promises'[w] = promises[w] \cup {m}
         /\ window'[w] = [must |-> window[w].must \cap after, may |-> window[w].may \cup r[1]]
  BY <1>2, <1>3
<1> HIDE DEF m
<1>5. CurrentFiles' = CurrentFiles /\ CurrentETag' = CurrentETag
  BY <1>1 DEF CurrentFiles, CurrentETag
<1>6. WindowKept(w) /\ WindowKept(w)'
  BY <1>1, <1>4 DEF Alone, WindowKept
<1>7. ASSUME NEW i \in DOMAIN calls
      PROVE  /\ Covers(files[w], i) => Bounds(calls', files'[w], files'[w], i)
             /\ Covers(CurrentFiles, i) => Bounds(calls', CurrentFiles, CurrentFiles, i)
  <2>1. files[w] \ calls'[m].rm \subseteq files'[w] /\ files'[w] \subseteq files[w] \cup calls'[m].add
    BY <1>1, <1>4
  <2>2. Covers(files[w], i) => Bounds(calls, files[w], files[w], i)
    BY CoversBounds
  <2>3. Covers(CurrentFiles, i) => Bounds(calls, CurrentFiles, CurrentFiles, i)
    BY CoversBounds
  <2>4. Covers(files[w], i) => Bounds(calls', files'[w], files'[w], i)
    BY <1>1, <2>1, <2>2, BoundsBatch
  <2>5. Covers(CurrentFiles, i) => Bounds(calls', CurrentFiles, CurrentFiles, i)
    BY <1>1, <2>3, BoundsKept
  <2> QED  BY <2>4, <2>5
<1>8. ASSUME NEW i \in DOMAIN calls, OnTheWay(w, i)
      PROVE  OnTheWay(w, i)'
  <2>1. pc[w] = "range" => Bounds(calls', window'[w].must, window'[w].may, i)
    <3> SUFFICES ASSUME pc[w] = "range"
                 PROVE  Bounds(calls', window'[w].must, window'[w].may, i)
      OBVIOUS
    <3>1. Bounds(calls, window[w].must, window[w].may, i) /\ window[w].must \subseteq files[w]
      BY <1>6, <1>8 DEF OnTheWay, WindowKept
    <3>2. /\ window[w].must \ calls'[m].rm \subseteq window'[w].must
          /\ window'[w].may \subseteq window[w].may \cup calls'[m].add
      BY <1>1, <1>4, <3>1
    <3> QED  BY <1>1, <3>1, <3>2, BoundsBatch
  <2>2. pc[w] \in {"stat", "put"} => Bounds(calls', buffer[w], buffer[w], i)
    BY <1>1, <1>8, BoundsKept, CoversBounds DEF OnTheWay
  <2> QED  BY <1>1, <2>1, <2>2 DEF OnTheWay, Covers, Bounds, RemovedLater, AddedLater
<1>9. ASSUME NEW i \in DOMAIN calls
      PROVE  /\ Reflected(w, i) => Reflected(w, i)'
             /\ Covers(CurrentFiles, i) => Covers(CurrentFiles, i)'
             /\ Covers(files[w], i) => Covers(files[w], i)'
  BY <1>5, <1>7, <1>8 DEF Reflected, Covers, Bounds, RemovedLater, AddedLater
<1>10. ASSUME NEW i, i = m, files'[w] = after
       PROVE  Covers(files[w], i)'
  <2>1. /\ \A p \in calls'[i].add \ calls'[i].rm : p \in files'[w]
        /\ \A p \in calls'[i].rm : p \notin files'[w]
    BY <1>1, <1>10
  <2> QED  BY <2>1 DEF Covers
<1>11. ASSUME NEW i \in promises'[w]
       PROVE  Covers(files[w], i)'
  <2>1. CASE i \in promises[w]
    BY <1>2, <1>9, <2>1 DEF Alone
  <2>2. CASE i \notin promises[w]
    <3>1. i = m /\ files'[w] = after
      BY <1>4, <1>11, <2>2
    <3> QED  BY <1>10, <3>1
  <2> QED  BY <2>1, <2>2
<1>12. \A i \in held'[w] : /\ Reflected(w, i)'
                           /\ pc'[w] = "reply" /\ outcome'[w] = "ok" => Covers(CurrentFiles, i)'
  BY <1>1, <1>2, <1>9 DEF Alone
<1>13. \A i \in DOMAIN calls' : Acked(i)' => Reflected(w, i)' /\ Covers(CurrentFiles, i)'
  BY <1>1, <1>9 DEF Alone, Acked
<1> QED  BY <1>1, <1>5, <1>6, <1>11, <1>12, <1>13 DEF Alone

\* The object reflects the calls as long as it and the calls stay.
LEMMA AloneFlush ==
  ASSUME TypeOK, NEW w \in Writers, Alone(w), FlushBegin(w) \/ Within(w), ~PutLost(w)
  PROVE  Alone(w)'
<1>1. /\ promises[w] \subseteq DOMAIN calls /\ held[w] \subseteq DOMAIN calls
      /\ DOMAIN pc = Writers /\ DOMAIN window = Writers /\ DOMAIN buffer = Writers
      /\ DOMAIN outcome = Writers /\ DOMAIN etag = Writers
  BY DEF TypeOK
<1>2. /\ etag[w] = CurrentETag /\ pc[w] # "reload" /\ WindowKept(w)
      /\ \A i \in promises[w] : Covers(files[w], i)
      /\ \A i \in held[w] : /\ Reflected(w, i)
                            /\ pc[w] = "reply" /\ outcome[w] = "ok" => Covers(CurrentFiles, i)
      /\ \A i \in DOMAIN calls : Acked(i) => Reflected(w, i) /\ Covers(CurrentFiles, i)
  BY DEF Alone
<1>3. UNCHANGED <<calls, files>>
  BY <1>2, WithinFlush DEF FlushBegin, Within, Serialize, Stat, Put, Fail, Reload, memVars
<1>4. \A i : (Covers(files[w], i)' <=> Covers(files[w], i)) /\ (Acked(i)' <=> Acked(i))
  BY <1>3 DEF Covers, Acked
<1>5. CASE FlushBegin(w)
  <2>1. /\ held'[w] = promises[w] /\ promises'[w] = {}
        /\ pc'[w] = "range" /\ window'[w] = [must |-> files[w], may |-> files[w]]
        /\ UNCHANGED <<object, etag>>
    BY <1>5 DEF FlushBegin, Ranging, bucketVars, TypeOK
  <2>2. CurrentFiles' = CurrentFiles /\ CurrentETag' = CurrentETag
    BY <2>1 DEF CurrentFiles, CurrentETag
  <2>3. ASSUME NEW i, Covers(files[w], i)
        PROVE  Reflected(w, i)'
    <3>1. Bounds(calls, files[w], files[w], i)
      BY <2>3, CoversBounds
    <3> QED  BY <1>3, <1>4, <2>1, <2>3, <3>1 DEF Reflected, OnTheWay
  <2>4. \A i \in DOMAIN calls : Covers(CurrentFiles, i)' <=> Covers(CurrentFiles, i)
    BY <1>3, <2>2 DEF Covers
  <2>5. \A i \in DOMAIN calls : Acked(i) => Reflected(w, i)' /\ Covers(CurrentFiles, i)'
    BY <1>2, <2>3, <2>4 DEF Reflected
  <2>6. WindowKept(w)'
    BY <1>3, <2>1 DEF WindowKept
  <2> QED  BY <1>2, <1>3, <1>4, <2>1, <2>2, <2>3, <2>5, <2>6 DEF Alone
<1>6. CASE Serialize(w)
  <2>1. PICK extra \in SUBSET (window[w].may \ window[w].must) :
          buffer' = [buffer EXCEPT ![w] = window[w].must \cup extra]
    BY <1>6 DEF Serialize
  <2>2. /\ pc[w] = "range" /\ pc'[w] = "stat" /\ buffer'[w] = window[w].must \cup extra
        /\ UNCHANGED <<object, etag, promises, held>>
    BY <1>1, <1>6, <2>1 DEF Serialize, bucketVars, memVars
  <2>3. CurrentFiles' = CurrentFiles /\ CurrentETag' = CurrentETag
    BY <2>2 DEF CurrentFiles, CurrentETag
  <2>4. ASSUME NEW i, Reflected(w, i)
        PROVE  Reflected(w, i)'
    <3>1. /\ Bounds(calls, window[w].must, window[w].may, i)
          /\ window[w].must \subseteq buffer'[w] /\ buffer'[w] \subseteq window[w].may
      BY <1>2, <2>1, <2>2, <2>4 DEF Reflected, OnTheWay, WindowKept
    <3>2. Bounds(calls, buffer'[w], buffer'[w], i)
      BY <3>1, BoundsBetween
    <3>3. Covers(buffer[w], i)'
      BY <1>3, <3>2 DEF Covers, Bounds, RemovedLater, AddedLater
    <3> QED  BY <1>4, <2>2, <2>4, <3>3 DEF Reflected, OnTheWay
  <2>5. \A i : Covers(CurrentFiles, i)' <=> Covers(CurrentFiles, i)
    BY <1>3, <2>3 DEF Covers
  <2> QED  BY <1>2, <1>3, <1>4, <2>2, <2>3, <2>4, <2>5 DEF Alone, WindowKept
<1>7. CASE Stat(w)
  <2>1. StatAgrees(w)
    BY <1>2, S3Assumption DEF StatAgrees, CurrentETag
  <2>2. /\ pc[w] = "stat" /\ pc'[w] = "put" /\ UNCHANGED <<object, etag, promises, held, buffer>>
    BY <1>1, <1>7, <2>1 DEF Stat, bucketVars, memVars
  <2>3. CurrentFiles' = CurrentFiles /\ CurrentETag' = CurrentETag
    BY <2>2 DEF CurrentFiles, CurrentETag
  <2>4. \A i : Reflected(w, i) => Reflected(w, i)'
    BY <1>3, <2>2 DEF Reflected, OnTheWay, Covers
  <2>5. \A i : Covers(CurrentFiles, i)' <=> Covers(CurrentFiles, i)
    BY <1>3, <2>3 DEF Covers
  <2> QED  BY <1>2, <1>3, <1>4, <2>2, <2>3, <2>4, <2>5 DEF Alone, WindowKept
<1>8. CASE Put(w)
  <2>1. /\ pc[w] = "put" /\ pc'[w] = "reply" /\ etag'[w] = <<w, puts[w] + 1>>
        /\ UNCHANGED <<promises, held>>
    BY <1>1, <1>8 DEF Put, Answer
  <2>2. Upload(w, TRUE)
    BY <1>8 DEF Put
  <2>3. CurrentFiles' = buffer[w] /\ CurrentETag' = <<w, puts[w] + 1>>
    <3>1. object' = [etag |-> <<w, puts[w] + 1>>, files |-> buffer[w]] /\ object' # NoObject
      BY <2>2, UploadType
    <3>2. object'.files = buffer[w] /\ object'.etag = <<w, puts[w] + 1>>
      BY <3>1
    <3> QED  BY <3>1, <3>2 DEF CurrentFiles, CurrentETag
  <2>4. ASSUME NEW i, Reflected(w, i)
        PROVE  Reflected(w, i)' /\ Covers(CurrentFiles, i)'
    <3>1. Covers(buffer[w], i)
      BY <2>1, <2>4 DEF Reflected, OnTheWay
    <3>2. Covers(CurrentFiles, i)'
      BY <1>3, <2>3, <3>1 DEF Covers
    <3> QED  BY <1>4, <2>1, <2>4, <3>2 DEF Reflected, OnTheWay
  <2> QED  BY <1>2, <1>3, <1>4, <2>1, <2>3, <2>4 DEF Alone, WindowKept
<1>9. CASE Fail(w)
  <2>1. /\ pc'[w] = "reply" /\ outcome'[w] = "err" /\ UNCHANGED <<object, etag, promises, held>>
    BY <1>1, <1>9 DEF Fail, Answer, bucketVars, memVars
  <2>2. CurrentFiles' = CurrentFiles /\ CurrentETag' = CurrentETag
    BY <2>1 DEF CurrentFiles, CurrentETag
  <2>3. \A i : Reflected(w, i) => Reflected(w, i)'
    BY <1>4, <2>1 DEF Reflected, OnTheWay
  <2>4. \A i : Covers(CurrentFiles, i)' <=> Covers(CurrentFiles, i)
    BY <1>3, <2>2 DEF Covers
  <2> QED  BY <1>2, <1>3, <1>4, <2>1, <2>2, <2>3, <2>4 DEF Alone, WindowKept
<1>10. CASE Reload(w)
  BY <1>2, <1>10 DEF Reload
<1> QED  BY <1>5, <1>6, <1>7, <1>8, <1>9, <1>10 DEF Within

\* A flush answers "ok" for what is in the object.
LEMMA AloneFlushEnd ==
  ASSUME TypeOK, NEW w \in Writers, Alone(w), FlushEnd(w)
  PROVE  Alone(w)'
<1>1. /\ UNCHANGED <<object, etag, files, promises, buffer, window>>
      /\ pc[w] = "reply" /\ pc'[w] = "select" /\ held'[w] = {}
  BY DEF FlushEnd, bucketVars, memVars, TypeOK
<1>2. CurrentFiles' = CurrentFiles /\ CurrentETag' = CurrentETag
  BY <1>1 DEF CurrentFiles, CurrentETag
<1>3. /\ Grown /\ DOMAIN calls' = DOMAIN calls
      /\ promises[w] \subseteq DOMAIN calls /\ held[w] \subseteq DOMAIN calls
  BY LogFlushEnd DEF TypeOK
<1>4. \A i \in DOMAIN calls : /\ Covers(files[w], i)' <=> Covers(files[w], i)
                              /\ Covers(CurrentFiles, i)' <=> Covers(CurrentFiles, i)
  BY <1>1, <1>2, <1>3 DEF Covers, Grown
<1>5. \A i : OnTheWay(w, i)'
  BY <1>1 DEF OnTheWay
<1>6. ASSUME NEW i \in DOMAIN calls', Acked(i)'
      PROVE  Reflected(w, i)' /\ Covers(CurrentFiles, i)'
  <2>1. \/ Acked(i)
        \/ pc[w] = "reply" /\ outcome[w] = "ok" /\ i \in held[w]
    BY <1>6, NewAnswer DEF Step, Flusher
  <2>2. Reflected(w, i) /\ Covers(CurrentFiles, i)
    BY <1>3, <1>6, <2>1 DEF Alone
  <2> QED  BY <1>3, <1>4, <1>5, <1>6, <2>2 DEF Reflected
<1> QED  BY <1>1, <1>2, <1>3, <1>4, <1>6 DEF Alone, WindowKept

\* A process opens the partition with what the object holds.
LEMMA AloneCrash ==
  ASSUME TypeOK, NEW w \in Writers, Alone(w), Crash(w)
  PROVE  Alone(w)'
<1>1. /\ files'[w] = CurrentFiles /\ etag'[w] = CurrentETag /\ promises'[w] = {} /\ held'[w] = {}
      /\ pc'[w] = "select" /\ object' = object
  BY DEF Crash, bucketVars, TypeOK
<1>2. CurrentFiles' = CurrentFiles /\ CurrentETag' = CurrentETag
  BY <1>1 DEF CurrentFiles, CurrentETag
<1>3. Grown /\ DOMAIN calls' = DOMAIN calls
  BY LogCrash DEF TypeOK, CallRecord
<1>4. ASSUME NEW i \in DOMAIN calls', Acked(i)'
      PROVE  Reflected(w, i)' /\ Covers(CurrentFiles, i)'
  <2>1. Acked(i)
    <3>1. \A j \in DOMAIN calls :
            IF j \in Outstanding(w) THEN calls'[j].res = "lost" ELSE calls'[j] = calls[j]
      BY LogCrash DEF TypeOK, CallRecord
    <3> QED  BY <1>3, <1>4, <3>1 DEF Acked
  <2>2. Covers(CurrentFiles, i)
    BY <1>3, <1>4, <2>1 DEF Alone
  <2>3. Covers(CurrentFiles, i)'
    BY <1>2, <1>3, <1>4, <2>2 DEF Covers, Grown
  <2>4. Covers(files[w], i)'
    BY <1>1, <1>2, <2>3 DEF Covers
  <2> QED  BY <1>1, <2>3, <2>4 DEF Reflected, OnTheWay
<1> QED  BY <1>1, <1>2, <1>4 DEF Alone, WindowKept

\* Every step preserves this.
LEMMA SoleStep ==
  ASSUME TypeOK, FlusherWoken, SoleKept, [Next]_vars
  PROVE  SoleKept'
<1>1. Grown
  <2>1. CASE \E v \in Writers : Step(v)
    BY <2>1, StepGrows
  <2>2. CASE Delete \/ UNCHANGED vars
    BY <2>2, DeleteKeeps
  <2> QED  BY <2>1, <2>2 DEF Next, Step
<1>2. ASSUME NEW w \in Writers, Undisturbed(w)'
      PROVE  Alone(w)'
  <2>1. Undisturbed(w) /\ ~Delete /\ \A v \in Writers : ~PutLost(v)
    BY <1>1, <1>2, UndisturbedBefore
  <2>2. Alone(w) /\ Only(w) /\ Only(w)'
    BY <1>2, <2>1 DEF SoleKept, Undisturbed
  <2>3. ASSUME NEW v \in Writers, v # w, Step(v)
        PROVE  Alone(w)'
    <3>1. Apart(w)
      BY <2>3, OthersApart
    <3>2. UNCHANGED <<object, calls>>
      BY <2>2, <2>3, OthersIdle
    <3> QED  BY <2>2, <3>1, <3>2, AloneOthers
  <2>4. ASSUME Step(w)
        PROVE  Alone(w)'
    <3>1. CASE \E r \in Requests : Batch(w, r[1], r[2])
      BY <2>2, <3>1, AloneBatch
    <3>2. CASE FlushBegin(w) \/ Within(w)
      BY <2>1, <2>2, <3>2, AloneFlush
    <3>3. CASE FlushEnd(w)
      BY <2>2, <3>3, AloneFlushEnd
    <3>4. CASE Crash(w)
      BY <2>2, <3>4, AloneCrash
    <3> QED  BY <2>4, <3>1, <3>2, <3>3, <3>4 DEF Step, Flusher, Within
  <2>5. CASE UNCHANGED vars
    <3>1. Apart(w) /\ UNCHANGED <<object, calls>>
      BY <2>5, DeleteKeeps DEF vars, bucketVars
    <3> QED  BY <2>2, <3>1, AloneOthers
  <2>6. Delete \/ (\E v \in Writers : Step(v)) \/ UNCHANGED vars
    BY DEF Next, Step
  <2> QED  BY <2>1, <2>3, <2>4, <2>5, <2>6
<1> QED  BY <1>2 DEF SoleKept

\* In the initial state nothing was asked for, and every process knows the object.
LEMMA SoleInit == Init => SoleKept
<1> SUFFICES ASSUME Init, NEW w \in Writers
             PROVE  Alone(w)
  BY DEF SoleKept
<1>1. /\ DOMAIN calls = {} /\ etag[w] = CurrentETag /\ pc[w] = "select"
      /\ promises[w] = {} /\ held[w] = {}
  BY DEF Init
<1> QED  BY <1>1 DEF Alone, WindowKept

\* While one process has the partition to itself, learns of its uploads and nobody
\* deletes the object, AckedDurable holds.
SoleDurable ==
  (\A i, j \in DOMAIN calls : calls[i].by = calls[j].by) /\ spent["lost"] = 0 /\ spent["deletes"] = 0
    => AckedDurable

\* One of the two follows from the other.
LEMMA SoleKeptDurable ==
  ASSUME TypeOK, SoleKept
  PROVE  SoleDurable
<1> SUFFICES ASSUME \A i, j \in DOMAIN calls : calls[i].by = calls[j].by,
                    spent["lost"] = 0, spent["deletes"] = 0,
                    NEW i \in DOMAIN calls, Acked(i)
             PROVE  Covers(CurrentFiles, i)
  BY DEF SoleDurable, AckedDurable
<1>1. calls[i].by \in Writers
  BY LogType DEF TypeOK, CallRecord
<1>2. Alone(calls[i].by)
  BY <1>1 DEF SoleKept, Undisturbed, Only
<1> QED  BY <1>2 DEF Alone

\* A Batch answered without error by a flush is in metadata.json until a later Batch
\* undoes it, as long as one process uses the partition, no upload happens although it
\* reports an error and nobody deletes the object: failing requests, crashes and
\* entries that come and go while they are serialized take nothing back.
THEOREM SoleWriterDurable == Spec => []SoleDurable
<1> DEFINE Inv == TypeOK /\ FlusherWoken /\ SoleKept
<1>1. Init => Inv
  BY TypeInit, SoleInit
<1>2. Inv /\ [Next]_vars => Inv'
  BY TypeStep, WokenStep, SoleStep
<1>3. Inv => SoleDurable
  BY SoleKeptDurable
<1> QED  BY <1>1, <1>2, <1>3, PTL DEF Spec

\* The same of a partition that only one process opened, in a bucket without surprises.
THEOREM SingleWriterDurable ==
  ASSUME NEW w, Writers = {w}, MaxSurprises = 0
  PROVE  Spec => []AckedDurable
<1> DEFINE Inv == TypeOK /\ spent["lost"] = 0 /\ spent["deletes"] = 0
<1>1. Init => Inv
  BY TypeInit DEF Init
<1>2. Inv /\ [Next]_vars => Inv'
  <2> SUFFICES ASSUME Inv, [Next]_vars
               PROVE  spent'["lost"] = 0 /\ spent'["deletes"] = 0
    BY TypeStep
  <2>1. ~Delete /\ \A v \in Writers : ~PutLost(v)
    BY DEF Delete, PutLost, Surprise
  <2>2. UNCHANGED spent \/ Spend("failures", MaxFailures) \/ Spend("crashes", MaxCrashes)
    BY <2>1 DEF Next, Flusher, Batch, FlushBegin, Serialize, Stat, Put, Fail, Reload, FlushEnd,
                Crash, vars
  <2> QED  BY <2>2, SpentType DEF TypeOK
<1>3. Inv /\ SoleDurable => AckedDurable
  <2> SUFFICES ASSUME Inv, SoleDurable
               PROVE  AckedDurable
    OBVIOUS
  <2>1. \A i \in DOMAIN calls : calls[i].by = w
    BY LogType DEF TypeOK, CallRecord
  <2> QED  BY <2>1 DEF SoleDurable
<1> QED  BY <1>1, <1>2, <1>3, SoleWriterDurable, PTL DEF Spec

-----------------------------------------------------------------------------
(* What an idle process holds.                                             *)

\* Every ETag that is known was given, so that the next one is new.
Issued(e) == e = NoETag \/ e[2] <= puts[e[1]]
Versions == Issued(CurrentETag) /\ \A w \in Writers : Issued(etag[w])

\* From the beginning of a flush on, as long as nobody calls Batch, the flush works on
\* the files of the process; when it is over they are those of the version it wrote.
Same(w) == etag[w] # NoETag /\ etag[w] = CurrentETag
Follows(w) ==
  ~armed[w] /\ Unhurt(w) =>
    /\ pc[w] = "select" /\ Same(w) => files[w] = CurrentFiles
    /\ pc[w] = "range" => window[w].must = files[w] /\ window[w].may = files[w]
    /\ pc[w] \in {"stat", "put"} => buffer[w] = files[w]
    /\ pc[w] = "reply" /\ outcome[w] = "ok" /\ Same(w) => files[w] = CurrentFiles
InSync == Versions /\ \A w \in Writers : Follows(w)

\* A call that failed has failed for ever.
LEMMA UnhurtBefore ==
  ASSUME TypeOK, NEW w \in Writers, Step(w), NEW v \in Writers, Unhurt(v)'
  PROVE  Unhurt(v)
<1>1. calls \in Seq(CallRecord) /\ Grown
  BY StepGrows DEF TypeOK, CallRecord
<1>2. \A i \in DOMAIN calls : calls[i].res # "pending" => calls'[i].res = calls[i].res
  <2>1. CASE \E r \in Requests : Batch(w, r[1], r[2])
    BY <2>1, BatchEffect
  <2>2. CASE FlushEnd(w)
    <3>1. \A i \in held[w] : calls[i].res = "pending"
      BY DEF TypeOK, Outstanding
    <3> QED  BY <2>2, <3>1, LogFlushEnd
  <2>3. CASE Crash(w)
    BY <1>1, <2>3, LogCrash DEF Outstanding
  <2>4. CASE FlushBegin(w) \/ Within(w)
    BY <2>4, WithinFlush DEF FlushBegin
  <2> QED  BY <2>1, <2>2, <2>3, <2>4 DEF Step, Flusher, Within
<1> QED  BY <1>1, <1>2 DEF Unhurt, CallsOf, Grown

\* An upload gives the object an ETag that nobody knows yet.
LEMMA UploadIssues ==
  ASSUME TypeOK, Versions, NEW w \in Writers, NEW known \in BOOLEAN, Upload(w, known)
  PROVE  /\ CurrentETag' = <<w, puts[w] + 1>> /\ CurrentFiles' = buffer[w]
         /\ \A v \in Writers : etag[v] # CurrentETag'
         /\ \A e \in ETags : Issued(e) => Issued(e)'
         /\ Issued(CurrentETag)'
<1>1. /\ object' = [etag |-> <<w, puts[w] + 1>>, files |-> buffer[w]] /\ object' # NoObject
      /\ <<w, puts[w] + 1>> \in ETags /\ puts' = [puts EXCEPT ![w] = @ + 1]
  BY UploadType
<1>2. object'.files = buffer[w] /\ object'.etag = <<w, puts[w] + 1>>
  BY <1>1
<1>3. CurrentETag' = <<w, puts[w] + 1>> /\ CurrentFiles' = buffer[w]
  BY <1>1, <1>2 DEF CurrentFiles, CurrentETag
<1>4. puts \in [Writers -> Nat]
  BY DEF TypeOK
<1>5. <<w, puts[w] + 1>> # NoETag
  BY <1>4, S3Assumption
<1>6. ASSUME NEW v \in Writers, etag[v] = <<w, puts[w] + 1>>
      PROVE  FALSE
  <2>1. puts[w] + 1 <= puts[w]
    BY <1>5, <1>6 DEF Versions, Issued
  <2> QED  BY <1>4, <2>1
<1>7. ASSUME NEW e \in ETags, Issued(e)
      PROVE  Issued(e)'
  <2>1. CASE e = NoETag
    BY <2>1 DEF Issued
  <2>2. CASE e # NoETag
    <3>1. e[1] \in Writers /\ e[2] \in Nat /\ e[2] <= puts[e[1]]
      BY <1>7, <2>2 DEF ETags, Issued
    <3>2. puts[e[1]] \in Nat /\ puts'[e[1]] = IF e[1] = w THEN puts[e[1]] + 1 ELSE puts[e[1]]
      BY <1>1, <1>4, <3>1
    <3>3. e[2] <= puts'[e[1]]
      BY <3>1, <3>2
    <3> QED  BY <3>3 DEF Issued
  <2> QED  BY <2>1, <2>2
<1>8. puts'[w] = puts[w] + 1 /\ puts[w] \in Nat
  BY <1>1, <1>4
<1>9. Issued(CurrentETag)'
  BY <1>3, <1>8 DEF Issued
<1> QED  BY <1>3, <1>6, <1>7, <1>9

\* Every step keeps the ETags that are known among those that were given.
LEMMA VersionsStep ==
  ASSUME TypeOK, Versions, [Next]_vars
  PROVE  Versions'
<1>1. etag \in [Writers -> ETags] /\ CurrentETag \in ETags
  BY DEF TypeOK, CurrentETag, ETags
<1>2. ASSUME NEW w \in Writers, NEW known \in BOOLEAN, Upload(w, known),
             UNCHANGED etag \/ etag' = [etag EXCEPT ![w] = <<w, puts[w] + 1>>]
      PROVE  Versions'
  <2>1. \A v \in Writers : etag'[v] = etag[v] \/ etag'[v] = CurrentETag'
    BY <1>1, <1>2, UploadIssues
  <2>2. ASSUME NEW v \in Writers
        PROVE  Issued(etag[v])'
    <3>1. Issued(CurrentETag)' /\ (Issued(etag[v]) => etag[v] = NoETag \/ etag[v][2] <= puts'[etag[v][1]])
      BY <1>1, <1>2, UploadIssues DEF Issued
    <3> QED  BY <2>1, <3>1 DEF Versions, Issued
  <2> QED  BY <1>2, <2>2, UploadIssues DEF Versions
<1>3. ASSUME NEW w \in Writers, UNCHANGED <<object, puts>>,
             UNCHANGED etag \/ etag' = [etag EXCEPT ![w] = CurrentETag]
      PROVE  Versions'
  <2>1. CurrentETag' = CurrentETag
    BY <1>3 DEF CurrentETag
  <2>2. \A v \in Writers : etag'[v] = etag[v] \/ etag'[v] = CurrentETag
    BY <1>1, <1>3
  <2> QED  BY <1>3, <2>1, <2>2 DEF Versions, Issued
<1>4. CASE Delete \/ UNCHANGED vars
  <2>1. UNCHANGED <<puts, etag>> /\ CurrentETag' \in {NoETag, CurrentETag}
    BY <1>4 DEF Delete, memVars, vars, bucketVars, CurrentETag
  <2> QED  BY <2>1 DEF Versions, Issued
<1>5. ASSUME NEW w \in Writers, Step(w)
      PROVE  Versions'
  <2>1. CASE Put(w) \/ PutLost(w)
    <3>1. \E known \in BOOLEAN : Upload(w, known) /\ (UNCHANGED etag \/ etag' = [etag EXCEPT ![w] = <<w, puts[w] + 1>>])
      BY <2>1 DEF Put, PutLost, memVars
    <3> QED  BY <1>2, <3>1
  <2>2. CASE ~(Put(w) \/ PutLost(w))
    <3>1. UNCHANGED <<object, puts>> /\ (UNCHANGED etag \/ etag' = [etag EXCEPT ![w] = CurrentETag])
      BY <1>5, <2>2 DEF Step, Flusher, Batch, FlushBegin, Serialize, Stat, Fail, Reload, AdoptETag, FlushEnd,
                        Crash, bucketVars, memVars
    <3> QED  BY <1>3, <3>1
  <2> QED  BY <2>1, <2>2
<1> QED  BY <1>4, <1>5 DEF Next, Step

\* Whatever the process v does not do leaves it as it was, or it sees a new ETag.
LEMMA FollowsApart ==
  ASSUME NEW v \in Writers, Follows(v), Apart(v), Unhurt(v)' => Unhurt(v),
         etag[v] # NoETag /\ etag[v] = CurrentETag' => etag[v] = CurrentETag /\ CurrentFiles' = CurrentFiles
  PROVE  Follows(v)'
<1>1. Same(v)' => Same(v) /\ CurrentFiles' = CurrentFiles
  BY DEF Same, Apart
<1> QED  BY <1>1 DEF Follows, Apart

\* The steps of the process itself.
LEMMA FollowsOwn ==
  ASSUME TypeOK, FlusherWoken, Versions, NEW w \in Writers, Follows(w), Step(w), Unhurt(w)' => Unhurt(w)
  PROVE  Follows(w)'
<1>1. /\ DOMAIN pc = Writers /\ DOMAIN window = Writers /\ DOMAIN buffer = Writers
      /\ DOMAIN outcome = Writers /\ DOMAIN etag = Writers /\ DOMAIN files = Writers
      /\ DOMAIN armed = Writers /\ DOMAIN held = Writers
  BY DEF TypeOK
<1>2. CASE \E r \in Requests : Batch(w, r[1], r[2])
  <2>1. PICK r \in Requests : Batch(w, r[1], r[2])
    BY <1>2
  <2>2. UNCHANGED <<object, pc, etag, buffer, outcome>>
    BY <2>1, BatchEffect
  <2>3. CASE armed' = [armed EXCEPT ![w] = TRUE]
    BY <1>1, <2>3 DEF Follows
  <2>4. CASE UNCHANGED <<files, window, armed>>
    <3>1. CurrentFiles' = CurrentFiles /\ CurrentETag' = CurrentETag
      BY <2>2 DEF CurrentFiles, CurrentETag
    <3> QED  BY <2>2, <2>4, <3>1 DEF Follows, Same
  <2> QED  BY <2>1, <2>3, <2>4, BatchEffect
<1>3. CASE FlushBegin(w)
  <2>1. pc'[w] = "range" /\ window'[w] = [must |-> files[w], may |-> files[w]] /\ files' = files
    BY <1>1, <1>3 DEF FlushBegin, Ranging
  <2> QED  BY <2>1 DEF Follows
<1>4. CASE Serialize(w)
  <2>1. PICK extra \in SUBSET (window[w].may \ window[w].must) :
          buffer' = [buffer EXCEPT ![w] = window[w].must \cup extra]
    BY <1>4 DEF Serialize
  <2>2. pc[w] = "range" /\ pc'[w] = "stat" /\ UNCHANGED <<files, armed>>
    BY <1>1, <1>4 DEF Serialize, memVars
  <2>3. ~armed[w] /\ Unhurt(w) => buffer'[w] = files[w]
    BY <1>1, <2>1, <2>2 DEF Follows
  <2> QED  BY <2>2, <2>3 DEF Follows
<1>5. CASE Stat(w)
  <2>1. pc[w] = "stat" /\ pc'[w] \in {"put", "reload"} /\ UNCHANGED <<files, armed, buffer>>
    BY <1>1, <1>5 DEF Stat, memVars
  <2> QED  BY <2>1 DEF Follows
<1>6. CASE Put(w)
  <2>1. pc[w] = "put" /\ pc'[w] = "reply" /\ UNCHANGED <<files, armed>> /\ Upload(w, TRUE)
    BY <1>1, <1>6 DEF Put, Answer
  <2>2. CurrentFiles' = buffer[w]
    BY <2>1, UploadIssues
  <2> QED  BY <2>1, <2>2 DEF Follows
<1>7. CASE PutLost(w) \/ Fail(w)
  <2>1. pc'[w] = "reply" /\ outcome'[w] = "err"
    BY <1>1, <1>7 DEF PutLost, Fail, Answer
  <2> QED  BY <2>1 DEF Follows
<1>8. CASE Reload(w)
  <2> DEFINE merged == Merged(heldChange[w])
  <2>1. files'[w] = merged
    BY <1>1, <1>8 DEF Reload
  <2>2. \/ pc'[w] = "range" /\ window'[w] = [must |-> merged, may |-> merged]
        \/ pc'[w] = "reply" /\ outcome'[w] = "exhausted"
    <3>1. CASE attempt[w] + 1 < maxFlushRetries
      BY <1>1, <1>8, <3>1 DEF Reload, Ranging
    <3>2. CASE ~(attempt[w] + 1 < maxFlushRetries)
      BY <1>1, <1>8, <3>2 DEF Reload, Answer
    <3> QED  BY <3>1, <3>2
  <2> HIDE DEF merged
  <2> QED  BY <2>1, <2>2 DEF Follows
<1>9. CASE FlushEnd(w)
  <2>1. /\ pc[w] = "reply" /\ pc'[w] = "select"
        /\ UNCHANGED <<object, files, etag, armed>>
    BY <1>1, <1>9 DEF FlushEnd, bucketVars, memVars
  <2>2. CurrentFiles' = CurrentFiles /\ CurrentETag' = CurrentETag
    BY <2>1 DEF CurrentFiles, CurrentETag
  <2>3. Unhurt(w)' => outcome[w] = "ok"
    <3>1. PICK i \in held[w] : TRUE
      BY <2>1 DEF FlusherWoken, Flushing
    <3>2. i \in DOMAIN calls /\ calls[i].by = w
      BY <3>1 DEF TypeOK, Outstanding, CallsOf
    <3>3. i \in DOMAIN calls' /\ calls'[i].by = w /\ calls'[i].res = outcome[w]
      BY <1>9, <3>1, <3>2, LogFlushEnd DEF Grown
    <3>4. outcome[w] \in {"ok", "err", "exhausted"}
      BY DEF TypeOK
    <3>5. Unhurt(w)' => calls'[i].res \in {"pending", "ok", "lost"}
      BY <3>3 DEF Unhurt, CallsOf
    <3> QED  BY <3>3, <3>4, <3>5
  <2> QED  BY <2>1, <2>2, <2>3 DEF Follows, Same
<1>10. CASE Crash(w)
  <2>1. files'[w] = CurrentFiles /\ pc'[w] = "select" /\ object' = object
    BY <1>1, <1>10 DEF Crash, bucketVars
  <2>2. CurrentFiles' = CurrentFiles
    BY <2>1 DEF CurrentFiles
  <2> QED  BY <2>1, <2>2 DEF Follows
<1> QED  BY <1>2, <1>3, <1>4, <1>5, <1>6, <1>7, <1>8, <1>9, <1>10 DEF Step, Flusher

\* Every step preserves this.
LEMMA InSyncStep ==
  ASSUME TypeOK, FlusherWoken, InSync, [Next]_vars
  PROVE  InSync'
<1>1. Versions'
  BY VersionsStep DEF InSync
<1>2. ASSUME NEW w \in Writers, Step(w), NEW v \in Writers
      PROVE  Follows(v)'
  <2>1. Unhurt(v)' => Unhurt(v)
    BY <1>2, UnhurtBefore
  <2>2. CASE v = w
    BY <1>2, <2>1, <2>2, FollowsOwn DEF InSync
  <2>3. CASE v # w
    <3>1. Apart(v)
      BY <1>2, <2>3, OthersApart
    <3>2. CASE Put(w) \/ PutLost(w)
      <4>1. etag[v] # CurrentETag'
        BY <3>2, UploadIssues DEF Put, PutLost, InSync
      <4> QED  BY <2>1, <3>1, <4>1, FollowsApart DEF InSync
    <3>3. CASE ~(Put(w) \/ PutLost(w))
      <4>1. UNCHANGED object
        BY <1>2, <3>3 DEF Step, Flusher, Batch, FlushBegin, Serialize, Stat, Fail, Reload, FlushEnd, Crash,
                          bucketVars
      <4>2. CurrentFiles' = CurrentFiles /\ CurrentETag' = CurrentETag
        BY <4>1 DEF CurrentFiles, CurrentETag
      <4> QED  BY <2>1, <3>1, <4>2, FollowsApart DEF InSync
    <3> QED  BY <3>2, <3>3
  <2> QED  BY <2>2, <2>3
<1>3. CASE Delete \/ UNCHANGED vars
  <2>1. /\ \A v \in Writers : Apart(v)
        /\ UNCHANGED calls
    BY <1>3, DeleteKeeps
  <2>2. \/ CurrentETag' = NoETag
        \/ CurrentFiles' = CurrentFiles /\ CurrentETag' = CurrentETag
    BY <1>3 DEF Delete, vars, bucketVars, CurrentFiles, CurrentETag
  <2>3. \A v \in Writers : Unhurt(v)' => Unhurt(v)
    BY <2>1 DEF Unhurt, CallsOf
  <2>4. \A v \in Writers : Follows(v)'
    BY <2>1, <2>2, <2>3, FollowsApart DEF InSync
  <2> QED  BY <1>1, <2>4 DEF InSync
<1> QED  BY <1>1, <1>2, <1>3 DEF Next, Step, InSync

\* A process that is idle, that nobody has woken and whose flushes all succeeded holds
\* the files of the version it read or wrote last: when its ETag agrees with the
\* object's, the next upload cannot drop a file it does not know.
THEOREM IdleKnowsObject == Spec => []IdleInSync
<1> DEFINE Inv == TypeOK /\ FlusherWoken /\ InSync
<1>1. Init => Inv
  <2> SUFFICES ASSUME Init
               PROVE  InSync
    BY TypeInit
  <2>1. \A w \in Writers : etag[w] = CurrentETag /\ files[w] = CurrentFiles /\ pc[w] = "select"
    BY DEF Init
  <2>2. Issued(CurrentETag)
    <3>1. FirstETag[1] \in Writers /\ FirstETag[2] = 0
      BY S3Assumption DEF FirstETag
    <3>2. puts[FirstETag[1]] = 0
      BY <3>1 DEF Init
    <3>3. CurrentETag \in {NoETag, FirstETag}
      BY DEF Init, CurrentETag
    <3> QED  BY <3>1, <3>2, <3>3 DEF Issued
  <2> QED  BY <2>1, <2>2 DEF InSync, Versions, Follows, Issued
<1>2. Inv /\ [Next]_vars => Inv'
  BY TypeStep, WokenStep, InSyncStep
<1>3. Inv => IdleInSync
  BY DEF InSync, Follows, Same, IdleInSync
<1> QED  BY <1>1, <1>2, <1>3, PTL DEF Spec

-----------------------------------------------------------------------------
(* Giving up.                                                              *)

\* A process whose ETag is not the object's is behind; each attempt of a flush that
\* has failed, and the one that has to fail because the process is behind, is an upload
\* the flush met.
Pressed(w) ==
  /\ object # NoObject /\ etag[w] \notin {NoETag, CurrentETag} => behind[w]
  /\ pc[w] = "reload" => behind[w]
  /\ pc[w] \in {"range", "stat", "put", "reload"} =>
       met[w] >= attempt[w] + (IF behind[w] THEN 1 ELSE 0)
  /\ pc[w] = "reply" /\ outcome[w] = "exhausted" => met[w] >= maxFlushRetries
Contended == \A w \in Writers : Pressed(w)

\* The numbers and flags of a process.
LEMMA CountsType ==
  ASSUME TypeOK, NEW w \in Writers
  PROVE  /\ met[w] \in Nat /\ behind[w] \in BOOLEAN /\ attempt[w] \in Nat
         /\ attempt[w] < maxFlushRetries /\ maxFlushRetries \in Nat
<1>1. attempt[w] \in 0 .. maxFlushRetries - 1 /\ maxFlushRetries \in Nat
  BY S3Assumption DEF TypeOK
<1> QED  BY <1>1 DEF TypeOK

\* What Pressed says of process w does not change, except for the object.
Untouched(w) ==
  UNCHANGED <<etag[w], attempt[w], pc[w], outcome[w]>>

\* The steps of another process: its uploads leave w behind and are met by its flush,
\* the rest leaves the object alone.
LEMMA PressedByOther ==
  ASSUME TypeOK, NEW w \in Writers, Pressed(w), NEW v \in Writers \ {w}, Flusher(v) \/ Crash(v)
  PROVE  Pressed(w)'
<1>1. Untouched(w)
  <2>1. CASE FlushBegin(v) \/ FlushEnd(v) \/ Crash(v)
    BY <2>1 DEF TypeOK, Untouched, FlushBegin, FlushEnd, Crash, Ranging, memVars
  <2>2. CASE Serialize(v) \/ Stat(v) \/ Fail(v)
    BY <2>2 DEF TypeOK, Untouched, Serialize, Stat, Fail, Answer, memVars
  <2>3. CASE Put(v) \/ PutLost(v)
    BY <2>3 DEF TypeOK, Untouched, Put, PutLost, Answer, memVars
  <2>4. CASE Reload(v)
    BY <2>4 DEF TypeOK, Untouched, Reload, Ranging, Answer, AdoptETag
  <2> QED  BY <2>1, <2>2, <2>3, <2>4 DEF Flusher
<1>2. CASE Put(v) \/ PutLost(v)
  <2>1. \E known \in BOOLEAN : Upload(v, known)
    BY <1>2 DEF Put, PutLost
  <2>2. /\ behind'[w] = TRUE
        /\ met'[w] = IF pc[w] \in {"select", "reply"} THEN met[w] ELSE met[w] + 1
    BY <2>1 DEF Upload
  <2> QED  BY <1>1, <2>2, CountsType DEF Pressed, Untouched
<1>3. CASE ~(Put(v) \/ PutLost(v))
  <2>1. UNCHANGED object /\ behind'[w] = behind[w] /\ met'[w] = met[w]
    BY <1>3 DEF TypeOK, Flusher, FlushBegin, Serialize, Stat, Fail, Reload, FlushEnd, Crash,
                bucketVars, historyVars
  <2> QED  BY <1>1, <2>1 DEF Pressed, Untouched, CurrentETag
<1> QED  BY <1>2, <1>3

\* The steps of the flush of the process itself.
LEMMA PressedByFlush ==
  ASSUME TypeOK, NEW w \in Writers, Pressed(w), Flusher(w)
  PROVE  Pressed(w)'
<1>1. /\ met[w] \in Nat /\ behind[w] \in BOOLEAN /\ attempt[w] \in Nat
      /\ attempt[w] < maxFlushRetries /\ maxFlushRetries \in Nat
  BY CountsType
<1>2. CASE Put(w)
  <2>1. Upload(w, TRUE)
    BY <1>2 DEF Put
  <2>2. etag'[w] = CurrentETag' /\ pc'[w] = "reply" /\ outcome'[w] = "ok"
    <3>1. object' \in [etag : Writers \X Nat, files : SUBSET Paths] /\ object'.etag = etag'[w]
      BY <1>2 DEF TypeOK, Put, Upload
    <3>2. object' # NoObject
      BY <3>1, S3Assumption
    <3> QED  BY <1>2, <3>1, <3>2 DEF TypeOK, Put, Answer, CurrentETag
  <2> QED  BY <2>2 DEF Pressed
<1>3. CASE PutLost(w)
  <2>1. behind'[w] = TRUE
    BY <1>3 DEF PutLost, Upload
  <2>2. pc'[w] = "reply" /\ outcome'[w] = "err"
    BY <1>3 DEF TypeOK, PutLost, Answer
  <2> QED  BY <2>1, <2>2 DEF Pressed
<1>4. CASE FlushBegin(w)
  <2>1. /\ attempt'[w] = 0 /\ UNCHANGED <<object, etag, behind>> /\ pc'[w] = "range"
        /\ met'[w] = IF behind[w] THEN 1 ELSE 0
    BY <1>4 DEF TypeOK, FlushBegin, Ranging, bucketVars
  <2> QED  BY <1>1, <2>1 DEF Pressed, CurrentETag
<1>5. CASE Serialize(w) \/ Stat(w)
  <2>1. /\ UNCHANGED <<object, etag, attempt, behind, met, outcome>>
        /\ pc[w] \in {"range", "stat"} /\ pc'[w] \in {"stat", "put", "reload"}
        /\ pc'[w] = "reload" => object # NoObject /\ etag[w] \notin {NoETag, CurrentETag}
    BY <1>5 DEF TypeOK, Serialize, Stat, StatAgrees, CurrentETag, bucketVars, memVars, historyVars
  <2> QED  BY <2>1 DEF Pressed, CurrentETag
<1>6. CASE Fail(w) \/ FlushEnd(w)
  <2>1. /\ UNCHANGED <<object, etag, behind>>
        /\ \/ pc'[w] = "select"
           \/ pc'[w] = "reply" /\ outcome'[w] = "err"
    BY <1>6 DEF TypeOK, Fail, FlushEnd, Answer, bucketVars, memVars, historyVars
  <2> QED  BY <2>1 DEF Pressed, CurrentETag
<1>7. CASE Reload(w)
  <2>1. /\ UNCHANGED <<object, met>> /\ etag'[w] = CurrentETag /\ behind'[w] = FALSE
        /\ CurrentETag' = CurrentETag
    BY <1>7 DEF TypeOK, Reload, AdoptETag, CurrentETag
  <2>2. met[w] >= attempt[w] + 1
    BY <1>7 DEF Reload, Pressed
  <2>3. CASE attempt[w] + 1 < maxFlushRetries
    <3>1. attempt'[w] = attempt[w] + 1 /\ pc'[w] = "range"
      BY <1>7, <2>3 DEF TypeOK, Reload, Ranging
    <3> QED  BY <1>1, <2>1, <2>2, <3>1 DEF Pressed
  <2>4. CASE ~(attempt[w] + 1 < maxFlushRetries)
    <3>1. pc'[w] = "reply"
      BY <1>7, <2>4 DEF TypeOK, Reload, Answer
    <3>2. met[w] >= maxFlushRetries
      BY <1>1, <2>2, <2>4
    <3> QED  BY <2>1, <3>1, <3>2 DEF Pressed
  <2> QED  BY <2>3, <2>4
<1> QED  BY <1>2, <1>3, <1>4, <1>5, <1>6, <1>7 DEF Flusher

\* A process that opens the partition anew knows the object.
LEMMA PressedByCrash ==
  ASSUME TypeOK, NEW w \in Writers, Crash(w)
  PROVE  Pressed(w)'
<1>1. etag'[w] = CurrentETag' /\ pc'[w] = "select"
  BY DEF TypeOK, Crash, CurrentETag, bucketVars
<1> QED  BY <1>1 DEF Pressed

\* At the beginning every process knows the object, and no step changes the balance.
LEMMA ContendedInit == Init => Contended
<1> SUFFICES ASSUME Init, NEW w \in Writers PROVE Pressed(w)
  BY DEF Contended
<1>1. etag[w] = CurrentETag /\ pc[w] = "select"
  BY DEF Init
<1> QED  BY <1>1 DEF Pressed

\* The same after a step of anybody.
LEMMA ContendedStep == TypeOK /\ Contended /\ [Next]_vars => Contended'
<1> SUFFICES ASSUME TypeOK, Contended, [Next]_vars, NEW w \in Writers PROVE Pressed(w)'
  BY DEF Contended
<1>1. Pressed(w)
  BY DEF Contended
<1>2. CASE \E v \in Writers : Flusher(v) \/ Crash(v)
  <2>1. PICK v \in Writers : Flusher(v) \/ Crash(v)
    BY <1>2
  <2>2. CASE v = w
    BY <1>1, <2>1, <2>2, PressedByFlush, PressedByCrash
  <2>3. CASE v # w
    BY <1>1, <2>1, <2>3, PressedByOther
  <2> QED  BY <2>2, <2>3
<1>3. CASE \/ \E v \in Writers, r \in Requests : Batch(v, r[1], r[2])
           \/ Delete
           \/ UNCHANGED vars
  <2>1. Untouched(w) /\ UNCHANGED <<behind, met>>
    BY <1>3 DEF Untouched, Batch, Delete, vars, memVars, flushVars, historyVars
  <2>2. UNCHANGED object \/ object' = NoObject
    BY <1>3 DEF Batch, Delete, vars, bucketVars
  <2> QED  BY <1>1, <2>1, <2>2 DEF Pressed, Untouched, CurrentETag
<1> QED  BY <1>2, <1>3 DEF Next

\* A flush gives up only if it met maxFlushRetries uploads it did not know of, of which
\* at most one happened before it began: for any number of processes, the loop over
\* checkAndPut and reloadAndMerge is never exhausted by what the flush did itself.
THEOREM OnlyContentionExhausts == Spec => []GivesUpOnlyUnderContention
<1> DEFINE Inv == TypeOK /\ Contended
<1>1. Init => Inv
  BY TypeInit, ContendedInit
<1>2. Inv /\ [Next]_vars => Inv'
  BY TypeStep, ContendedStep
<1>3. Inv => GivesUpOnlyUnderContention
  BY DEF Contended, Pressed, GivesUpOnlyUnderContention
<1> QED  BY <1>1, <1>2, <1>3, PTL DEF Spec
=============================================================================
