-------------------------- MODULE JsonKVStoreProofs --------------------------
(* The key-value store in a JSON file implements the contract of key-value  *)
(* stores and can be opened after every crash, for any keys and any number  *)
(* of calls, failures and crashes.                                          *)
EXTENDS JsonKVStore, DataLemmas

-----------------------------------------------------------------------------
(* The shape of the state.                                                 *)

CallRecord == [key : Keys, res : {"pending", "ok", "err", "lost"}]

\* What a call of Put or Delete does to the history of calls.
LEMMA LogWrite ==
  ASSUME calls \in Seq(CallRecord), NEW k \in Keys, Write(k)
  PROVE  /\ calls' \in Seq(CallRecord)
         /\ Len(calls) \in Nat /\ Len(calls') = Len(calls) + 1
         /\ DOMAIN calls = 1 .. Len(calls)
         /\ DOMAIN calls' = DOMAIN calls \cup {Len(calls) + 1}
         /\ Len(calls) + 1 \notin DOMAIN calls
         /\ \A n \in DOMAIN calls : calls'[n] = calls[n]
         /\ calls'[Len(calls) + 1].key = k /\ calls'[Len(calls) + 1].res = "pending"
<1> DEFINE c == [key |-> k, res |-> "pending"]
<1>1. c \in CallRecord
  BY DEF CallRecord
<1>2. calls' = Append(calls, c)
  BY DEF Write
<1> HIDE DEF c
<1>3. calls' \in Seq(CallRecord) /\ calls'[Len(calls) + 1] = c
      /\ Len(calls) \in Nat /\ Len(calls') = Len(calls) + 1
      /\ DOMAIN calls = 1 .. Len(calls)
      /\ DOMAIN calls' = DOMAIN calls \cup {Len(calls) + 1}
      /\ Len(calls) + 1 \notin DOMAIN calls
      /\ \A n \in DOMAIN calls : calls'[n] = calls[n]
  BY <1>1, <1>2, Appended
<1>4. c.key = k /\ c.res = "pending"
  BY DEF c
<1> QED  BY <1>3, <1>4

\* What the answer of one call does to it.
LEMMA LogRelease ==
  ASSUME TypeOK, Release
  PROVE  \E n \in held :
           /\ held' = held \ {n} /\ n \in DOMAIN calls
           /\ calls' \in Seq(CallRecord) /\ Len(calls') = Len(calls)
           /\ DOMAIN calls' = DOMAIN calls
           /\ \A m \in DOMAIN calls : m # n => calls'[m] = calls[m]
           /\ calls[n].res = "pending" /\ calls' = [calls EXCEPT ![n].res = outcome]
           /\ calls'[n].res = outcome /\ \A m \in DOMAIN calls : calls'[m].key = calls[m].key
           /\ pc' = IF held = {n} THEN "select" ELSE "release"
<1> DEFINE n == Min(held)
<1>1. held \subseteq Nat /\ held # {}
  BY DEF TypeOK, Release, Outstanding
<1>2. n \in held
  BY <1>1, MinIn
<1>3. /\ calls' = [calls EXCEPT ![n].res = outcome]
      /\ held' = held \ {n} /\ pc' = IF held = {n} THEN "select" ELSE "release"
  BY DEF Release
<1> HIDE DEF n
<1>4. calls \in Seq(CallRecord) /\ outcome \in {"ok", "err"}
  BY DEF TypeOK, CallRecord
<1>5. n \in DOMAIN calls /\ calls[n].res = "pending"
  BY <1>2 DEF TypeOK, Outstanding
<1>6. \A m \in DOMAIN calls : calls[m] \in CallRecord
  BY <1>4
<1>7. DOMAIN calls' = DOMAIN calls /\ calls' = [m \in DOMAIN calls |-> calls'[m]]
      /\ \A m \in DOMAIN calls : m # n => calls'[m] = calls[m]
  BY <1>3
<1>8. calls'[n] = [calls[n] EXCEPT !.res = outcome]
  BY <1>3, <1>5
<1>9. calls'[n] \in CallRecord /\ calls'[n].res = outcome /\ calls'[n].key = calls[n].key
  BY <1>4, <1>5, <1>6, <1>8 DEF CallRecord
<1>10. \A m \in DOMAIN calls : calls'[m] \in CallRecord /\ calls'[m].key = calls[m].key
  BY <1>6, <1>7, <1>9
<1>11. calls' \in Seq(CallRecord) /\ Len(calls') = Len(calls)
  BY <1>4, <1>7, <1>10, Updated
<1> QED  BY <1>2, <1>3, <1>5, <1>7, <1>9, <1>10, <1>11

\* What a crash does to it.
LEMMA LogCrash ==
  ASSUME calls \in Seq(CallRecord), Crash
  PROVE  /\ calls' \in Seq(CallRecord) /\ Len(calls') = Len(calls)
         /\ DOMAIN calls' = DOMAIN calls
         /\ \A m \in DOMAIN calls : calls'[m].key = calls[m].key
<1>1. calls' = [n \in DOMAIN calls |->
                  IF n \in Outstanding THEN [calls[n] EXCEPT !.res = "lost"] ELSE calls[n]]
  BY DEF Crash
<1>2. \A m \in DOMAIN calls : calls[m] \in CallRecord
  OBVIOUS
<1>3. ASSUME NEW m \in DOMAIN calls
      PROVE  calls'[m] \in CallRecord /\ calls'[m].key = calls[m].key
  BY <1>1, <1>2 DEF CallRecord
<1>4. DOMAIN calls' = DOMAIN calls /\ calls' = [n \in DOMAIN calls |-> calls'[n]]
  BY <1>1
<1>5. calls' \in Seq(CallRecord) /\ Len(calls') = Len(calls)
  BY <1>3, <1>4, Updated
<1> QED  BY <1>3, <1>4, <1>5

\* The goroutine is woken only for a promise, and has one in hand while it saves.
Saving == {"marshal", "create", "write", "rename", "release"}
SaverWoken ==
  /\ armed => promises # {}
  /\ pc \in Saving => held # {}

\* A failure or a crash is counted.
LEMMA SpentType ==
  ASSUME TypeOK, NEW what \in {"failures", "crashes"}, NEW bound, Spend(what, bound)
  PROVE  spent' \in [{"failures", "crashes"} -> Nat]
BY DEF TypeOK, Spend

\* Every step preserves this.
LEMMA SaverStep ==
  ASSUME TypeOK, SaverWoken, [Next]_vars
  PROVE  SaverWoken'
<1>1. ASSUME NEW k \in Keys, Write(k)
      PROVE  SaverWoken'
  BY <1>1 DEF Write, SaverWoken, Saving
<1>2. CASE Load \/ CreateFile \/ WriteEmpty \/ Destroy \/ Exit \/ SaveBegin \/ Marshal
  BY <1>2 DEF Load, CreateFile, WriteEmpty, Destroy, Exit, SaveBegin, Marshal, Opened,
              memVars, saveVars, SaverWoken, Saving
<1>3. CASE CreateTmp \/ WriteTmp \/ Rename \/ Fail \/ Crash
  BY <1>3 DEF CreateTmp, WriteTmp, Rename, Fail, Crash, memVars, saveVars, SaverWoken, Saving
<1>4. CASE Release
  BY <1>4, LogRelease DEF Release, memVars, SaverWoken, Saving
<1>5. CASE UNCHANGED vars
  BY <1>5 DEF vars, memVars, saveVars, SaverWoken, Saving
<1> QED  BY <1>1, <1>2, <1>3, <1>4, <1>5 DEF Next, Saver

\* Every step preserves the shape of the state.
LEMMA TypeStep ==
  ASSUME TypeOK, SaverWoken, [Next]_vars
  PROVE  TypeOK'
<1> USE DEF CallRecord
<1>1. /\ calls \in Seq(CallRecord) /\ Len(calls) \in Nat /\ DOMAIN calls = 1 .. Len(calls)
      /\ cache \in Content /\ contents \in Content /\ Empty \in Content
  <2>1. calls \in Seq(CallRecord)
    BY DEF TypeOK
  <2>2. Len(calls) \in Nat /\ DOMAIN calls = 1 .. Len(calls)
    BY <2>1
  <2> QED  BY <2>1, <2>2 DEF TypeOK, Empty, Content
<1> HIDE DEF CallRecord
<1>2. CASE Load
  BY <1>2, <1>1 DEF Load, Opened, saveVars, TypeOK, Content, Outstanding
<1>3. CASE CreateFile
  BY <1>3 DEF CreateFile, memVars, saveVars, TypeOK, Content, Outstanding
<1>4. CASE WriteEmpty
  BY <1>4, <1>1 DEF WriteEmpty, Opened, saveVars, TypeOK, Content, Outstanding
<1>5. ASSUME NEW k \in Keys, Write(k)
      PROVE  TypeOK'
  <2> DEFINE m == Len(calls) + 1
  <2>1. /\ calls' \in Seq(CallRecord) /\ Len(calls') = m
        /\ DOMAIN calls' = DOMAIN calls \cup {m} /\ m \notin DOMAIN calls
        /\ \A n \in DOMAIN calls : calls'[n] = calls[n]
        /\ calls'[m].res = "pending"
    BY <1>1, <1>5, LogWrite
  <2>2. /\ cache' = [cache EXCEPT ![k] = m] /\ promises' = promises \cup {m}
        /\ alive' = alive \cup {m} /\ window' = [window EXCEPT ![k] = @ \cup {m}]
        /\ armed' = TRUE
        /\ UNCHANGED <<file, tmp, destroyed, pc, held, contents, outcome, spent>>
    BY <1>5 DEF Write, Signal
  <2>3. 0 .. Len(calls) \subseteq 0 .. Len(calls') /\ m \in 0 .. Len(calls')
    BY <1>1, <2>1
  <2>4. Outstanding' = Outstanding \cup {m}
    BY <2>1 DEF Outstanding
  <2>5. Content \subseteq Content'
    BY <2>3 DEF Content
  <2>6. cache' \in Content' /\ window' \in [Keys -> SUBSET (0 .. Len(calls'))]
    BY <2>2, <2>3, <2>5 DEF TypeOK, Content
  <2>7. promises \cup held \subseteq Outstanding /\ m \notin promises \cup held
    BY <2>1 DEF TypeOK, Outstanding
  <2>8. alive' \subseteq DOMAIN calls'
    BY <2>1, <2>2 DEF TypeOK
  <2> HIDE DEF m
  <2> QED  BY <2>1, <2>2, <2>4, <2>5, <2>6, <2>7, <2>8 DEF TypeOK, CallRecord
<1>6. CASE Destroy
  BY <1>6 DEF Destroy, saveVars, TypeOK, Content, Outstanding
<1>7. CASE Exit
  BY <1>7 DEF Exit, memVars, saveVars, TypeOK, Content, Outstanding
<1>8. CASE SaveBegin
  <2>1. window' \in [Keys -> SUBSET (0 .. Len(calls))]
    BY <1>8, <1>1 DEF SaveBegin, Content
  <2> QED  BY <1>8, <2>1 DEF SaveBegin, TypeOK, Content, Outstanding
<1>9. CASE Marshal
  <2>1. contents' \in Content
    BY <1>9, <1>1 DEF Marshal, TypeOK, Content
  <2> QED  BY <1>9, <2>1 DEF Marshal, memVars, TypeOK, Content, Outstanding
<1>10. CASE CreateTmp
  BY <1>10 DEF CreateTmp, memVars, saveVars, TypeOK, Content, Outstanding
<1>11. CASE WriteTmp
  BY <1>11 DEF WriteTmp, memVars, saveVars, TypeOK, Content, Outstanding
<1>12. CASE Rename \/ Fail
  <2>1. spent' \in [{"failures", "crashes"} -> Nat]
    BY <1>12, SpentType DEF Rename, Fail, TypeOK
  <2>2. held # {} /\ pc' = "release" /\ outcome' \in {"ok", "err"}
        /\ file' \in {file, tmp} /\ tmp' \in {tmp, NoFile}
        /\ UNCHANGED <<memVars, held, window, contents, calls, alive>>
    BY <1>12 DEF Rename, Fail, SaverWoken, Saving
  <2> QED  BY <2>1, <2>2 DEF memVars, TypeOK, Content, Outstanding
<1>13. CASE Release
  <2>1. PICK n \in held :
           /\ held' = held \ {n} /\ n \in DOMAIN calls
           /\ calls' \in Seq(CallRecord) /\ Len(calls') = Len(calls)
           /\ DOMAIN calls' = DOMAIN calls
           /\ \A m \in DOMAIN calls : m # n => calls'[m] = calls[m]
           /\ pc' = IF held = {n} THEN "select" ELSE "release"
    BY <1>13, LogRelease
  <2>2. Content' = Content
    BY <2>1 DEF Content
  <2>3. n \notin promises /\ promises \cup (held \ {n}) \subseteq Outstanding'
    BY <2>1 DEF TypeOK, Outstanding
  <2> QED  BY <1>13, <2>1, <2>2, <2>3 DEF Release, memVars, TypeOK, CallRecord
<1>14. CASE Crash
  <2>1. /\ calls' \in Seq(CallRecord) /\ Len(calls') = Len(calls)
    BY <1>1, <1>14, LogCrash
  <2>2. Content' = Content
    BY <2>1 DEF Content
  <2>3. spent' \in [{"failures", "crashes"} -> Nat]
    BY <1>14, SpentType DEF Crash
  <2>4. /\ pc' = "closed" /\ cache' = Empty /\ promises' = {} /\ held' = {} /\ alive' = {}
        /\ armed' = FALSE /\ destroyed' = FALSE
        /\ UNCHANGED <<file, tmp, window, contents, outcome>>
    BY <1>14 DEF Crash
  <2> QED  BY <1>1, <2>1, <2>2, <2>3, <2>4 DEF TypeOK, CallRecord
<1>15. CASE UNCHANGED vars
  BY <1>15 DEF vars, memVars, saveVars, TypeOK, Content, Outstanding
<1> QED
  BY <1>2, <1>3, <1>4, <1>5, <1>6, <1>7, <1>8, <1>9, <1>10, <1>11, <1>12, <1>13, <1>14, <1>15
     DEF Next, Saver

\* The initial state has this shape.
LEMMA TypeInit == Init => TypeOK /\ SaverWoken
<1> SUFFICES ASSUME Init
             PROVE  TypeOK /\ SaverWoken
  OBVIOUS
<1>1. calls = <<>> /\ Len(calls) = 0 /\ DOMAIN calls = {}
  BY DEF Init
<1>2. calls \in Seq(CallRecord)
  BY <1>1
<1>3. Empty \in Content
  BY <1>1 DEF Empty, Content
<1> QED  BY <1>1, <1>2, <1>3 DEF Init, TypeOK, CallRecord, Outstanding, SaverWoken, Saving

\* The shape of the state; a promise is waited for, and in one place.
THEOREM TypeCorrect == Spec => []TypeOK
<1>1. TypeOK /\ SaverWoken /\ [Next]_vars => TypeOK' /\ SaverWoken'
  BY TypeStep, SaverStep
<1> QED  BY <1>1, TypeInit, PTL DEF Spec

-----------------------------------------------------------------------------
(* The file.                                                               *)

\* Only a store that was never written to has a file that is not yet JSON.
FileWhole == Loadable /\ (pc = "created" => file = Torn /\ calls = <<>>)

\* What a save in progress will leave in the file, if it is renamed, is whole.
TmpWritten == pc = "rename" => tmp = contents

\* A map of numbers is a content of the file, and not one of the two marks.
LEMMA ContentParses ==
  ASSUME TypeOK, NEW map \in Content
  PROVE  map \notin {NoFile, Torn}
<1>1. map \in [Keys -> Nat]
  BY DEF TypeOK, Content
<1> QED  BY <1>1, JsonKVAssumption

\* Every step keeps the file whole, and the file the store will rename to it.
LEMMA FileStep ==
  ASSUME TypeOK, TypeOK', FileWhole, TmpWritten, [Next]_vars
  PROVE  FileWhole' /\ TmpWritten'
<1> USE DEF FileWhole, TmpWritten, Loadable, Closed
<1>1. CASE Load
  BY <1>1 DEF Load, Opened
<1>2. CASE CreateFile
  BY <1>2 DEF CreateFile
<1>3. CASE WriteEmpty
  <2>1. Empty \in Content
    BY DEF TypeOK, Empty, Content
  <2>2. Empty \notin {NoFile, Torn}
    BY <2>1, ContentParses
  <2> QED  BY <1>3, <2>2 DEF WriteEmpty, Opened
<1>4. ASSUME NEW k \in Keys, Write(k)
      PROVE  FileWhole' /\ TmpWritten'
  BY <1>4 DEF Write
<1>5. CASE Destroy \/ Exit \/ SaveBegin \/ Marshal
  BY <1>5 DEF Destroy, Exit, SaveBegin, Marshal, memVars, saveVars
<1>6. CASE CreateTmp \/ WriteTmp \/ Fail
  BY <1>6 DEF CreateTmp, WriteTmp, Fail, memVars, saveVars
<1>7. CASE Rename
  <2>1. tmp = contents /\ contents \notin {NoFile, Torn}
    BY <1>7, ContentParses DEF Rename, TypeOK
  <2> QED  BY <1>7, <2>1 DEF Rename, memVars
<1>8. CASE Release
  <2>1. pc' \in {"select", "release"} /\ UNCHANGED file
    BY <1>8, LogRelease DEF Release
  <2> QED  BY <1>8, <2>1 DEF Release
<1>9. CASE Crash
  <2>1. calls = <<>> => calls' = <<>>
    BY <1>9 DEF Crash
  <2>2. calls # <<>> \/ ~Closed \/ pc = "created"
    BY <1>9 DEF Crash
  <2>3. calls' = <<>> => calls = <<>>
    <3>1. calls \in Seq(CallRecord)
      BY DEF TypeOK, CallRecord
    <3>2. DOMAIN calls' = DOMAIN calls /\ Len(calls') = Len(calls)
      BY <1>9, <3>1, LogCrash
    <3> QED  BY <3>1, <3>2
  <2> QED  BY <1>9, <2>1, <2>2, <2>3 DEF Crash
<1>10. CASE UNCHANGED vars
  BY <1>10 DEF vars, memVars, saveVars
<1> QED
  BY <1>1, <1>2, <1>3, <1>4, <1>5, <1>6, <1>7, <1>8, <1>9, <1>10 DEF Next, Saver

\* Once the store has been opened its file can be loaded, at whatever moment the
\* process dies and whatever system call fails.
THEOREM FileLoads == Spec => []Loadable
<1>1. Init => FileWhole /\ TmpWritten
  BY DEF Init, FileWhole, TmpWritten, Loadable, Closed
<1>2. TypeOK /\ TypeOK' /\ FileWhole /\ TmpWritten /\ [Next]_vars => FileWhole' /\ TmpWritten'
  BY FileStep
<1>3. FileWhole => Loadable
  BY DEF FileWhole
<1> QED  BY <1>1, <1>2, <1>3, TypeCorrect, PTL DEF Spec

-----------------------------------------------------------------------------
(* What is on its way to the file.                                         *)

\* A value that may replace that of key k in the file: it is the one there, or that
\* of a later call about k.
Ahead(v, k) == v = Parsed[k] \/ (v \in alive /\ calls[v].key = k /\ v > Parsed[k])

Writing == {"create", "write", "rename"}

\* Memory is ahead of the file, and what a save found in it is between the two.
MapsAhead ==
  /\ ~Closed => \A k \in Keys : Ahead(cache[k], k)
  /\ pc = "marshal" => \A k \in Keys : \A v \in window[k] : Ahead(v, k) /\ v <= cache[k]
  /\ pc \in Writing => \A k \in Keys : Ahead(contents[k], k) /\ contents[k] <= cache[k]

\* A promise that waits is one whose change is in memory; a promise in the hands of
\* a save is one whose change is in what the save has found so far, and in the file
\* before the answer is that it is.
PromisesCovered ==
  /\ Closed => promises = {} /\ held = {}
  /\ \A n \in promises : cache[calls[n].key] >= n
  /\ \A n \in held :
       /\ pc = "marshal" => \A v \in window[calls[n].key] : v >= n
       /\ pc \in Writing => contents[calls[n].key] >= n
       /\ pc = "release" /\ outcome = "ok" => Parsed[calls[n].key] >= n

StoreInv == TypeOK /\ SaverWoken /\ FileWhole /\ TmpWritten /\ MapsAhead /\ PromisesCovered

\* The values of the maps are numbers, and every call is about a key.
LEMMA Numbers ==
  ASSUME TypeOK
  PROVE  /\ Len(calls) \in Nat /\ DOMAIN calls = 1 .. Len(calls)
         /\ \A k \in Keys : /\ cache[k] \in 0 .. Len(calls) /\ contents[k] \in 0 .. Len(calls)
                            /\ Parsed[k] \in 0 .. Len(calls)
                            /\ window[k] \subseteq 0 .. Len(calls)
         /\ \A n \in DOMAIN calls : calls[n].key \in Keys
         /\ promises \subseteq DOMAIN calls /\ held \subseteq DOMAIN calls
<1>1. calls \in Seq(CallRecord)
  BY DEF TypeOK, CallRecord
<1>2. Len(calls) \in Nat /\ DOMAIN calls = 1 .. Len(calls)
  BY <1>1
<1>3. \A n \in DOMAIN calls : calls[n].key \in Keys
  <2>1. \A n \in DOMAIN calls : calls[n] \in CallRecord
    BY <1>1
  <2> QED  BY <2>1 DEF CallRecord
<1>4. Parsed \in Content
  BY <1>2 DEF TypeOK, Parsed, Empty, Content
<1> QED  BY <1>2, <1>3, <1>4 DEF TypeOK, Content, Outstanding

\* A step that leaves the maps alone.
LEMMA Untouched ==
  ASSUME StoreInv,
         UNCHANGED <<cache, promises, calls, alive>>, Parsed' = Parsed,
         held' = held, window' = window, contents' = contents,
         \/ pc' = pc /\ outcome' = outcome
         \/ pc \in Writing /\ pc' \in Writing
         \/ ~Closed /\ pc' \in {"select", "gone"}
         \/ ~Closed /\ pc' = "release" /\ outcome' = "err"
  PROVE  MapsAhead' /\ PromisesCovered'
BY DEF StoreInv, MapsAhead, PromisesCovered, Ahead, Closed, Writing

\* A call of Put or Delete puts its key ahead.
LEMMA WriteAhead ==
  ASSUME StoreInv, NEW k \in Keys, Write(k)
  PROVE  MapsAhead' /\ PromisesCovered'
<1> DEFINE m == Len(calls) + 1
<1>1. TypeOK /\ calls \in Seq(CallRecord)
  BY DEF StoreInv, TypeOK, CallRecord
<1>2. /\ DOMAIN calls' = DOMAIN calls \cup {m} /\ m \notin DOMAIN calls
      /\ \A n \in DOMAIN calls : calls'[n] = calls[n]
      /\ calls'[m].key = k
  BY <1>1, LogWrite
<1>3. /\ cache' = [cache EXCEPT ![k] = m] /\ promises' = promises \cup {m}
      /\ alive' = alive \cup {m} /\ window' = [window EXCEPT ![k] = @ \cup {m}]
      /\ UNCHANGED <<file, pc, held, contents, outcome>> /\ ~Closed
  BY DEF Write
<1>4. Parsed' = Parsed /\ ~Closed'
  BY <1>3 DEF Parsed, Empty, Closed
<1>5. alive \subseteq DOMAIN calls /\ cache \in [Keys -> 0 .. Len(calls)]
      /\ window \in [Keys -> SUBSET (0 .. Len(calls))]
  BY <1>1 DEF TypeOK, Content
<1>6. /\ Len(calls) \in Nat /\ DOMAIN calls = 1 .. Len(calls)
      /\ \A j \in Keys : Parsed[j] \in 0 .. Len(calls) /\ cache[j] \in 0 .. Len(calls)
                          /\ contents[j] \in 0 .. Len(calls) /\ window[j] \subseteq 0 .. Len(calls)
      /\ promises \subseteq DOMAIN calls /\ held \subseteq DOMAIN calls
      /\ \A n \in DOMAIN calls : calls[n].key \in Keys
  BY <1>1, Numbers
<1>7. m > Len(calls) /\ m \in Nat
  BY <1>6
<1> HIDE DEF m
<1>8. ASSUME NEW j \in Keys, NEW v, Ahead(v, j)
      PROVE  v = Parsed'[j] \/ (v \in alive' /\ calls'[v].key = j /\ v > Parsed'[j])
  BY <1>2, <1>3, <1>4, <1>5, <1>8 DEF Ahead
<1>9. m \in alive' /\ calls'[m].key = k /\ m > Parsed'[k]
  BY <1>2, <1>3, <1>4, <1>6, <1>7
<1>10. \A j \in Keys : j # k => cache'[j] = cache[j] /\ window'[j] = window[j]
  BY <1>3, <1>5
<1>11. cache'[k] = m /\ window'[k] = window[k] \cup {m}
  BY <1>3, <1>5
<1>12. \A j \in Keys : cache'[j] \in Nat /\ cache[j] \in Nat /\ cache'[j] >= cache[j]
  <2> TAKE j \in Keys
  <2>1. cache[j] \in Nat /\ cache[j] <= Len(calls)
    BY <1>6
  <2> QED  BY <1>6, <1>7, <1>10, <1>11, <2>1
<1>13. ASSUME NEW j \in Keys, NEW v \in 0 .. Len(calls), v <= cache[j]
      PROVE  v <= cache'[j]
  <2>1. cache'[j] >= cache[j] /\ cache'[j] \in Nat /\ cache[j] \in Nat
    BY <1>12
  <2>2. v \in Nat
    BY <1>6, <1>13
  <2> QED  BY <1>13, <2>1, <2>2
<1>14. MapsAhead'
  <2>1. \A j \in Keys : cache'[j] = Parsed'[j] \/ (cache'[j] \in alive' /\ calls'[cache'[j]].key = j /\ cache'[j] > Parsed'[j])
    BY <1>3, <1>8, <1>9, <1>10 DEF StoreInv, MapsAhead
  <2>2. ASSUME pc = "marshal", NEW j \in Keys, NEW v \in window'[j]
        PROVE  /\ v = Parsed'[j] \/ (v \in alive' /\ calls'[v].key = j /\ v > Parsed'[j])
               /\ v <= cache'[j]
    <3>1. CASE v \in window[j]
      <4>1. Ahead(v, j) /\ v <= cache[j] /\ v \in 0 .. Len(calls)
        BY <1>6, <2>2, <3>1 DEF StoreInv, MapsAhead
      <4>2. v <= cache'[j]
        BY <1>13, <4>1
      <4> QED  BY <1>8, <4>1, <4>2
    <3>2. CASE j = k /\ v = m
      BY <1>7, <1>9, <1>11, <3>2
    <3> QED  BY <1>10, <1>11, <2>2, <3>1, <3>2
  <2>3. ASSUME pc \in Writing, NEW j \in Keys
        PROVE  /\ contents[j] = Parsed'[j]
                    \/ (contents[j] \in alive' /\ calls'[contents[j]].key = j /\ contents[j] > Parsed'[j])
               /\ contents[j] <= cache'[j]
    <3>1. Ahead(contents[j], j) /\ contents[j] <= cache[j]
      BY <2>3 DEF StoreInv, MapsAhead
    <3>2. contents[j] <= cache'[j]
      BY <1>6, <1>13, <3>1
    <3> QED  BY <1>8, <3>1, <3>2
  <2> QED  BY <1>3, <2>1, <2>2, <2>3 DEF MapsAhead, Ahead, Writing
<1>15. PromisesCovered'
  <2>1. ASSUME NEW n \in promises'
        PROVE  cache'[calls'[n].key] >= n
    <3>1. CASE n \in promises
      <4>1. cache[calls[n].key] >= n /\ calls'[n] = calls[n] /\ calls[n].key \in Keys /\ n \in Nat
        BY <1>2, <1>6, <3>1 DEF StoreInv, PromisesCovered
      <4>2. cache[calls[n].key] \in 0 .. Len(calls) /\ cache'[calls[n].key] \in Nat
        BY <1>6, <1>12, <4>1
      <4>3. cache'[calls[n].key] >= cache[calls[n].key] /\ cache[calls[n].key] \in Nat
        BY <1>12, <4>1
      <4> QED  BY <4>1, <4>2, <4>3
    <3>2. CASE n = m
      BY <1>2, <1>7, <1>11, <3>2
    <3> QED  BY <1>3, <2>1, <3>1, <3>2
  <2>2. ASSUME NEW n \in held
        PROVE  /\ calls'[n].key = calls[n].key /\ calls[n].key \in Keys /\ n <= Len(calls)
               /\ pc = "marshal" => \A v \in window'[calls[n].key] : v >= n
    <3>1. calls'[n] = calls[n] /\ calls[n].key \in Keys /\ n \in 1 .. Len(calls)
      BY <1>2, <1>6
    <3>2. pc = "marshal" => \A v \in window[calls[n].key] : v >= n
      BY DEF StoreInv, PromisesCovered
    <3>3. m >= n
      BY <1>6, <1>7, <3>1
    <3> QED  BY <1>6, <1>10, <1>11, <3>1, <3>2, <3>3
  <2> QED  BY <1>3, <1>4, <2>1, <2>2 DEF StoreInv, PromisesCovered, Closed, Writing
<1> QED  BY <1>14, <1>15

\* Every step keeps the maps ahead of each other and the promises covered.
LEMMA AheadStep ==
  ASSUME StoreInv, TypeOK', [Next]_vars
  PROVE  MapsAhead' /\ PromisesCovered'
<1>1. /\ TypeOK /\ SaverWoken /\ FileWhole /\ TmpWritten
      /\ MapsAhead /\ PromisesCovered
  BY DEF StoreInv
<1>2. CASE Load
  <2>1. /\ Closed /\ Parsed = file /\ cache' = file /\ pc' = "select"
        /\ Parsed' = Parsed /\ UNCHANGED <<promises, held, calls>>
    BY <1>2 DEF Load, Opened, saveVars, Closed, Parsed, Empty
  <2>2. promises' = {} /\ held' = {}
    BY <1>1, <2>1 DEF PromisesCovered
  <2> QED  BY <2>1, <2>2 DEF MapsAhead, PromisesCovered, Ahead, Closed, Writing
<1>3. CASE CreateFile
  <2>1. Closed /\ Closed' /\ pc' = "created" /\ UNCHANGED <<promises, held>>
    BY <1>3 DEF CreateFile, Closed, memVars, saveVars
  <2>2. promises' = {} /\ held' = {}
    BY <1>1, <2>1 DEF PromisesCovered
  <2> QED  BY <2>1, <2>2 DEF MapsAhead, PromisesCovered, Writing
<1>4. CASE WriteEmpty
  <2>1. /\ Closed /\ cache' = Empty /\ pc' = "select" /\ Parsed' = Empty
        /\ UNCHANGED <<promises, held>>
    BY <1>4 DEF WriteEmpty, Opened, saveVars, Closed, Parsed, Empty
  <2>2. promises' = {} /\ held' = {}
    BY <1>1, <2>1 DEF PromisesCovered
  <2> QED  BY <2>1, <2>2 DEF MapsAhead, PromisesCovered, Ahead, Closed, Writing
<1>5. ASSUME NEW k \in Keys, Write(k)
      PROVE  MapsAhead' /\ PromisesCovered'
  BY <1>5, WriteAhead
<1>6. CASE Destroy \/ Exit \/ CreateTmp \/ WriteTmp \/ Fail
  <2>1. UNCHANGED <<file, cache, promises, calls, alive, held, window, contents>>
    BY <1>6 DEF Destroy, Exit, CreateTmp, WriteTmp, Fail, memVars, saveVars
  <2>2. Parsed' = Parsed
    BY <2>1 DEF Parsed, Empty
  <2>3. \/ pc' = pc /\ outcome' = outcome
        \/ pc \in Writing /\ pc' \in Writing
        \/ ~Closed /\ pc' \in {"select", "gone"}
        \/ ~Closed /\ pc' = "release" /\ outcome' = "err"
    BY <1>6 DEF Destroy, Exit, CreateTmp, WriteTmp, Fail, saveVars, Writing, Closed
  <2> QED  BY <2>1, <2>2, <2>3, Untouched
<1>7. CASE SaveBegin
  <2>1. /\ pc = "select" /\ pc' = "marshal" /\ held' = promises /\ promises' = {}
        /\ window' = [k \in Keys |-> {cache[k]}]
        /\ UNCHANGED <<file, cache, calls, alive>> /\ ~Closed
    BY <1>7 DEF SaveBegin, Closed
  <2>2. Parsed' = Parsed
    BY <2>1 DEF Parsed, Empty
  <2>3. /\ \A k \in Keys : cache[k] \in 0 .. Len(calls)
        /\ \A n \in promises : calls[n].key \in Keys
    BY <1>1, Numbers
  <2>4. \A k \in Keys : \A v \in window'[k] : v = cache[k] /\ v <= cache[k]
    BY <2>1, <2>3
  <2> QED  BY <1>1, <2>1, <2>2, <2>3, <2>4
              DEF MapsAhead, PromisesCovered, Ahead, Closed, Writing
<1>8. CASE Marshal
  <2>1. /\ pc = "marshal" /\ pc' = "create" /\ \A k \in Keys : contents'[k] \in window[k]
        /\ UNCHANGED <<file, cache, promises, held, window, calls, alive>>
    BY <1>8 DEF Marshal, memVars
  <2>2. Parsed' = Parsed
    BY <2>1 DEF Parsed, Empty
  <2>3. \A n \in held : calls[n].key \in Keys
    BY <1>1, Numbers
  <2> QED  BY <1>1, <2>1, <2>2, <2>3 DEF MapsAhead, PromisesCovered, Ahead, Closed, Writing
<1>9. CASE Rename
  <2>1. /\ pc \in Writing /\ pc' = "release" /\ file' = contents
        /\ UNCHANGED <<cache, promises, held, calls, alive, contents>>
    BY <1>1, <1>9 DEF Rename, TmpWritten, memVars, Writing
  <2>2. Parsed' = contents
    BY <1>1, <2>1, ContentParses DEF Parsed, TypeOK
  <2>3. ASSUME NEW k \in Keys
        PROVE  \/ cache[k] = contents[k]
               \/ cache[k] \in alive /\ calls[cache[k]].key = k /\ cache[k] > contents[k]
    <3>1. /\ Ahead(cache[k], k) /\ Ahead(contents[k], k) /\ contents[k] <= cache[k]
      BY <1>1, <2>1 DEF MapsAhead, Writing, Closed
    <3>2. cache[k] \in Nat /\ contents[k] \in Nat /\ Parsed[k] \in Nat
      BY <1>1, Numbers
    <3> QED  BY <3>1, <3>2 DEF Ahead
  <2> QED  BY <1>1, <2>1, <2>2, <2>3 DEF MapsAhead, PromisesCovered, Ahead, Closed, Writing
<1>10. CASE Release
  <2>1. PICK n \in held :
           /\ held' = held \ {n} /\ \A m \in DOMAIN calls : calls'[m].key = calls[m].key
           /\ pc' = IF held = {n} THEN "select" ELSE "release"
    BY <1>1, <1>10, LogRelease
  <2>2. /\ UNCHANGED <<file, cache, promises, alive, outcome>> /\ pc = "release"
    BY <1>10 DEF Release, memVars
  <2>3. Parsed' = Parsed
    BY <2>2 DEF Parsed, Empty
  <2>4. alive \subseteq DOMAIN calls /\ promises \subseteq DOMAIN calls /\ held \subseteq DOMAIN calls
    BY <1>1, Numbers DEF TypeOK
  <2> QED  BY <1>1, <2>1, <2>2, <2>3, <2>4
              DEF MapsAhead, PromisesCovered, Ahead, Closed, Writing
<1>11. CASE Crash
  <2>1. pc' = "closed" /\ promises' = {} /\ held' = {}
    BY <1>11 DEF Crash
  <2> QED  BY <2>1 DEF MapsAhead, PromisesCovered, Closed, Writing
<1>12. CASE UNCHANGED vars
  <2>1. Parsed' = Parsed
    BY <1>12 DEF vars, Parsed, Empty
  <2> QED  BY <1>12, <2>1, Untouched DEF vars, memVars, saveVars
<1> QED
  BY <1>2, <1>3, <1>4, <1>5, <1>6, <1>7, <1>8, <1>9, <1>10, <1>11, <1>12 DEF Next, Saver

\* The invariant of the store.
LEMMA StoreInvariant == Spec => []StoreInv
<1>1. Init => StoreInv
  BY TypeInit DEF Init, StoreInv, FileWhole, TmpWritten, Loadable, Closed, MapsAhead,
                  PromisesCovered, Writing
<1>2. StoreInv /\ [Next]_vars => StoreInv'
  BY TypeStep, SaverStep, FileStep, AheadStep DEF StoreInv
<1> QED  BY <1>1, <1>2, PTL DEF Spec

-----------------------------------------------------------------------------
(* The contract.                                                           *)

\* Every step is a step of the contract or changes nothing in it.
LEMMA Refines ==
  ASSUME StoreInv, StoreInv', [Next]_vars
  PROVE  [KV!Next]_KV!vars
<1> DEFINE mapped == IF Closed THEN Parsed ELSE cache
<1>1. TypeOK /\ FileWhole /\ TmpWritten /\ MapsAhead /\ PromisesCovered
  BY DEF StoreInv
<1>2. CASE Load \/ CreateFile \/ WriteEmpty
  <2>1. Closed /\ UNCHANGED <<calls, alive>>
    BY <1>2 DEF Load, CreateFile, WriteEmpty, Opened, Closed, memVars, saveVars
  <2>2. Parsed' = Parsed
    BY <1>1, <1>2 DEF Load, CreateFile, WriteEmpty, Opened, FileWhole, Parsed, Empty
  <2>3. Closed' \/ cache' = Parsed
    BY <1>1, <1>2 DEF Load, CreateFile, WriteEmpty, Opened, FileWhole, Parsed, Empty, Closed,
                      memVars
  <2> QED  BY <2>1, <2>2, <2>3 DEF KV!vars
<1>3. ASSUME NEW k \in Keys, Write(k)
      PROVE  KV!Write(k)
  <2>1. Parsed' = Parsed /\ ~Closed /\ ~Closed'
    BY <1>3 DEF Write, Parsed, Empty, Closed
  <2> QED  BY <1>3, <2>1 DEF Write, KV!Write
<1>4. CASE Destroy \/ Exit \/ SaveBegin \/ Marshal \/ CreateTmp \/ WriteTmp \/ Fail
  <2>1. /\ ~Closed /\ ~Closed' /\ UNCHANGED <<file, cache, calls, alive>>
    BY <1>4 DEF Destroy, Exit, SaveBegin, Marshal, CreateTmp, WriteTmp, Fail, memVars, saveVars,
                Closed
  <2>2. Parsed' = Parsed
    BY <2>1 DEF Parsed, Empty
  <2> QED  BY <2>1, <2>2 DEF KV!vars
<1>5. CASE Rename
  <2>1. /\ ~Closed /\ ~Closed' /\ file' = contents /\ UNCHANGED <<cache, calls, alive>>
        /\ pc \in Writing
    BY <1>1, <1>5 DEF Rename, TmpWritten, memVars, Closed, Writing
  <2>2. Parsed' = contents /\ contents \in [Keys -> 0 .. Len(calls)]
    BY <1>1, <2>1, ContentParses DEF Parsed, TypeOK, Content
  <2>3. \A k \in Keys : contents[k] \in {Parsed[k]} \cup KV!Later(k)
    BY <1>1, <2>1 DEF MapsAhead, Ahead, KV!Later
  <2> QED  BY <2>1, <2>2, <2>3 DEF KV!Save, KV!Next
<1>6. CASE Release
  <2>1. PICK n \in held : /\ n \in DOMAIN calls /\ calls[n].res = "pending"
                          /\ calls' = [calls EXCEPT ![n].res = outcome]
                          /\ pc' = IF held = {n} THEN "select" ELSE "release"
    BY <1>1, <1>6, LogRelease
  <2>2. ~Closed /\ ~Closed' /\ UNCHANGED <<file, cache, alive>> /\ pc = "release"
    BY <1>6, <2>1 DEF Release, memVars, Closed
  <2>3. Parsed' = Parsed
    BY <2>2 DEF Parsed, Empty
  <2>4. outcome \in {"ok", "err"} /\ (outcome = "ok" => Parsed[calls[n].key] >= n)
    BY <1>1, <2>2 DEF TypeOK, PromisesCovered
  <2>5. KV!Answer(n)
    BY <2>1, <2>2, <2>3, <2>4 DEF KV!Answer
  <2> QED  BY <2>1, <2>5 DEF KV!Next
<1>7. CASE Crash
  <2>1. /\ Closed' /\ alive' = {} /\ UNCHANGED file
        /\ calls' = [n \in DOMAIN calls |->
                       IF n \in Outstanding THEN [calls[n] EXCEPT !.res = "lost"] ELSE calls[n]]
    BY <1>7 DEF Crash, Closed
  <2>2. Parsed' = Parsed
    BY <2>1 DEF Parsed, Empty
  <2>3. calls' = [n \in DOMAIN calls |->
                    IF calls[n].res = "pending" THEN [calls[n] EXCEPT !.res = "lost"] ELSE calls[n]]
    BY <2>1 DEF Outstanding
  <2> QED  BY <2>1, <2>2, <2>3 DEF KV!Crash, KV!Next
<1>8. CASE UNCHANGED vars
  BY <1>8 DEF vars, memVars, saveVars, KV!vars, Parsed, Empty, Closed
<1> QED
  BY <1>2, <1>3, <1>4, <1>5, <1>6, <1>7, <1>8 DEF Next, Saver, KV!Next

\* The store keeps the promise of the contract: its file is the store of KVStore, so
\* that what was answered without an error is in it, through failed saves, crashes
\* and the map that changes while it is written.
THEOREM JsonImplementsKVStore == Spec => ImplementsKVStore
<1>1. Init => KV!Init
  BY DEF Init, KV!Init, Parsed, Closed, Empty
<1>2. StoreInv /\ StoreInv' /\ [Next]_vars => [KV!Next]_KV!vars
  BY Refines
<1> QED  BY <1>1, <1>2, StoreInvariant, PTL DEF Spec, ImplementsKVStore, KV!Spec

-----------------------------------------------------------------------------
(* What follows from the contract.                                         *)

\* What the contract needs of the shape of its state.
ContractShape ==
  calls \in Seq(CallRecord) /\ Parsed \in [Keys -> Nat] /\ alive \subseteq DOMAIN calls

\* No call that a crash took away counts as alive.
AliveInv == \A n \in alive : calls[n].res # "lost"

\* What a step of the contract does to the history of calls.
ContractLog ==
  /\ calls' \in Seq(CallRecord) /\ DOMAIN calls \subseteq DOMAIN calls'
  /\ \A n \in DOMAIN calls : calls'[n].key = calls[n].key

\* Put and Delete.
LEMMA ContractWrite ==
  ASSUME ContractShape, NEW k \in Keys, KV!Write(k)
  PROVE  /\ ContractLog
         /\ DOMAIN calls' = DOMAIN calls \cup {Len(calls) + 1}
         /\ \A n \in DOMAIN calls : calls'[n] = calls[n]
         /\ calls'[Len(calls) + 1].res = "pending"
         /\ Parsed' = Parsed /\ alive' = alive \cup {Len(calls) + 1}
         /\ Len(calls) + 1 \notin DOMAIN calls
<1> DEFINE c == [key |-> k, res |-> "pending"]
<1>1. c \in CallRecord /\ c.res = "pending"
  BY DEF CallRecord
<1>2. calls' = Append(calls, c) /\ Parsed' = Parsed /\ alive' = alive \cup {Len(calls) + 1}
  BY DEF KV!Write
<1> HIDE DEF c
<1>3. /\ calls' \in Seq(CallRecord) /\ DOMAIN calls' = DOMAIN calls \cup {Len(calls) + 1}
      /\ Len(calls) + 1 \notin DOMAIN calls
      /\ \A n \in DOMAIN calls : calls'[n] = calls[n]
      /\ calls'[Len(calls) + 1] = c
  BY <1>1, <1>2, Appended DEF ContractShape
<1> QED  BY <1>1, <1>2, <1>3 DEF ContractLog

\* An answer.
LEMMA ContractAnswer ==
  ASSUME ContractShape, NEW n \in DOMAIN calls, KV!Answer(n)
  PROVE  /\ ContractLog /\ DOMAIN calls' = DOMAIN calls
         /\ \A m \in DOMAIN calls : m # n => calls'[m] = calls[m]
         /\ calls'[n].res \in {"ok", "err"}
         /\ calls'[n].res = "ok" => Parsed[calls[n].key] >= n
         /\ Parsed' = Parsed /\ alive' = alive
<1>1. PICK res \in {"ok", "err"} :
        /\ res = "ok" => Parsed[calls[n].key] >= n
        /\ calls' = [calls EXCEPT ![n].res = res]
  BY DEF KV!Answer
<1>2. calls \in Seq(CallRecord) /\ \A m \in DOMAIN calls : calls[m] \in CallRecord
  BY DEF ContractShape
<1>3. DOMAIN calls' = DOMAIN calls /\ calls' = [m \in DOMAIN calls |-> calls'[m]]
      /\ \A m \in DOMAIN calls : m # n => calls'[m] = calls[m]
  BY <1>1
<1>4. calls'[n] = [calls[n] EXCEPT !.res = res]
  BY <1>1
<1>5. calls'[n] \in CallRecord /\ calls'[n].key = calls[n].key /\ calls'[n].res = res
  BY <1>2, <1>4 DEF CallRecord
<1>6. calls' \in Seq(CallRecord)
  BY <1>2, <1>3, <1>5, Updated
<1>7. ContractLog
  BY <1>3, <1>5, <1>6 DEF ContractLog
<1> QED  BY <1>1, <1>3, <1>5, <1>7 DEF KV!Answer

\* A crash.
LEMMA ContractCrash ==
  ASSUME ContractShape, KV!Crash
  PROVE  /\ ContractLog /\ DOMAIN calls' = DOMAIN calls
         /\ \A m \in DOMAIN calls : calls'[m].res = "ok" => calls[m].res = "ok"
         /\ Parsed' = Parsed /\ alive' = {}
<1>1. calls' = [n \in DOMAIN calls |->
                  IF calls[n].res = "pending" THEN [calls[n] EXCEPT !.res = "lost"]
                  ELSE calls[n]]
  BY DEF KV!Crash
<1>2. calls \in Seq(CallRecord) /\ \A m \in DOMAIN calls : calls[m] \in CallRecord
  BY DEF ContractShape
<1>3. ASSUME NEW m \in DOMAIN calls
      PROVE  /\ calls'[m] \in CallRecord /\ calls'[m].key = calls[m].key
             /\ calls'[m].res = "ok" => calls[m].res = "ok"
  BY <1>1, <1>2 DEF CallRecord
<1>4. DOMAIN calls' = DOMAIN calls /\ calls' = [n \in DOMAIN calls |-> calls'[n]]
  BY <1>1
<1>5. calls' \in Seq(CallRecord)
  BY <1>2, <1>3, <1>4, Updated
<1>6. ContractLog
  BY <1>3, <1>4, <1>5 DEF ContractLog
<1> QED  BY <1>3, <1>4, <1>6 DEF KV!Crash

\* A save: the values of the store only grow.
LEMMA ContractSave ==
  ASSUME ContractShape, KV!Save
  PROVE  /\ UNCHANGED <<calls, alive>>
         /\ Parsed' \in [Keys -> Nat]
         /\ \A k \in Keys : Parsed'[k] >= Parsed[k] /\ Parsed'[k] \in {Parsed[k]} \cup KV!Later(k)
<1>1. /\ UNCHANGED <<calls, alive>> /\ Parsed' \in [Keys -> 0 .. Len(calls)]
      /\ \A k \in Keys : Parsed'[k] \in {Parsed[k]} \cup KV!Later(k)
  BY DEF KV!Save
<1>2. Parsed' \in [Keys -> Nat] /\ Parsed \in [Keys -> Nat]
  BY <1>1 DEF ContractShape
<1>3. ASSUME NEW k \in Keys
      PROVE  Parsed'[k] >= Parsed[k]
  BY <1>1, <1>2 DEF KV!Later
<1> QED  BY <1>1, <1>2, <1>3

\* A key whose value is a call about it keeps one when the history grows.
InMemory == IF Closed THEN Parsed ELSE cache
About(k, n) == n # 0 => n \in DOMAIN calls /\ calls[n].key = k
LEMMA ContractType ==
  ASSUME KV!TypeOK
  PROVE  /\ ContractShape /\ InMemory \in [Keys -> Nat]
         /\ \A k \in Keys : About(k, InMemory[k]) /\ About(k, Parsed[k])
BY DEF KV!TypeOK, KV!CallRecord, CallRecord, ContractShape, InMemory, About

LEMMA ContractTypeNext ==
  ASSUME ContractShape', InMemory' \in [Keys -> Nat],
         \A k \in Keys : About(k, InMemory[k])' /\ About(k, Parsed[k])'
  PROVE  KV!TypeOK'
BY DEF KV!TypeOK, KV!CallRecord, CallRecord, ContractShape, InMemory, About

LEMMA ContractTypeStep ==
  ASSUME KV!TypeOK, [KV!Next]_KV!vars
  PROVE  KV!TypeOK'
<1>1. /\ ContractShape /\ InMemory \in [Keys -> Nat]
      /\ \A k \in Keys : About(k, InMemory[k]) /\ About(k, Parsed[k])
  BY ContractType
<1>2. ASSUME ContractLog, NEW k \in Keys, NEW n, About(k, n)
      PROVE  n # 0 => n \in DOMAIN calls' /\ calls'[n].key = k
  BY <1>2 DEF ContractLog, About
<1>3. ASSUME NEW k \in Keys, KV!Write(k)
      PROVE  KV!TypeOK'
  <2>1. InMemory' = [InMemory EXCEPT ![k] = Len(calls) + 1]
    BY <1>3 DEF KV!Write, InMemory
  <2>2. /\ ContractLog /\ DOMAIN calls' = DOMAIN calls \cup {Len(calls) + 1}
        /\ Parsed' = Parsed /\ alive' = alive \cup {Len(calls) + 1}
    BY <1>1, <1>3, ContractWrite
  <2>3. Len(calls) + 1 \in Nat /\ calls'[Len(calls) + 1].key = k
    <3>1. calls' = Append(calls, [key |-> k, res |-> "pending"]) /\ calls \in Seq(CallRecord)
      BY <1>1, <1>3 DEF KV!Write, ContractShape
    <3>2. [key |-> k, res |-> "pending"] \in CallRecord
      BY DEF CallRecord
    <3> QED  BY <3>1, <3>2, Appended
  <2>4. ContractShape' /\ InMemory' \in [Keys -> Nat]
    BY <1>1, <2>1, <2>2, <2>3 DEF ContractShape, ContractLog
  <2>5. ASSUME NEW j \in Keys
        PROVE  About(j, InMemory[j])' /\ About(j, Parsed[j])'
    <3>1. About(j, Parsed[j])'
      BY <1>1, <1>2, <2>2 DEF About
    <3>2. CASE j = k
      BY <1>1, <2>1, <2>2, <2>3, <3>1, <3>2 DEF About
    <3>3. CASE j # k
      BY <1>1, <1>2, <2>1, <2>2, <3>1, <3>3 DEF About
    <3> QED  BY <3>2, <3>3
  <2> QED  BY <2>4, <2>5, ContractTypeNext
<1>4. ASSUME KV!Save
      PROVE  KV!TypeOK'
  <2>1. InMemory' = InMemory
    BY <1>4 DEF KV!Save, InMemory
  <2>2. /\ UNCHANGED <<calls, alive>> /\ Parsed' \in [Keys -> Nat]
        /\ \A k \in Keys : Parsed'[k] \in {Parsed[k]} \cup KV!Later(k)
    BY <1>1, <1>4, ContractSave
  <2>3. \A k \in Keys : About(k, Parsed[k])'
    BY <1>1, <2>2 DEF About, KV!Later, ContractShape
  <2>4. \A k \in Keys : About(k, InMemory[k])'
    BY <1>1, <2>1, <2>2 DEF About
  <2>5. ContractShape' /\ InMemory' \in [Keys -> Nat]
    BY <1>1, <2>1, <2>2 DEF ContractShape
  <2> QED  BY <2>3, <2>4, <2>5, ContractTypeNext
<1>5. ASSUME ContractLog, Parsed' = Parsed, InMemory' \in {InMemory, Parsed},
             alive' \in {alive, {}}
      PROVE  KV!TypeOK'
  <2>1. ContractShape' /\ InMemory' \in [Keys -> Nat]
    BY <1>1, <1>5 DEF ContractShape, ContractLog
  <2>2. \A k \in Keys : About(k, InMemory[k])' /\ About(k, Parsed[k])'
    BY <1>1, <1>2, <1>5 DEF About
  <2> QED  BY <2>1, <2>2, ContractTypeNext
<1>6. ASSUME NEW n \in DOMAIN calls, KV!Answer(n)
      PROVE  KV!TypeOK'
  <2>1. InMemory' = InMemory
    BY <1>6 DEF KV!Answer, InMemory
  <2> QED  BY <1>1, <1>5, <1>6, <2>1, ContractAnswer
<1>7. ASSUME KV!Crash
      PROVE  KV!TypeOK'
  <2>1. InMemory' = Parsed
    BY <1>7 DEF KV!Crash, InMemory
  <2> QED  BY <1>1, <1>5, <1>7, <2>1, ContractCrash
<1>8. ASSUME UNCHANGED KV!vars
      PROVE  KV!TypeOK'
  <2>1. calls' = calls /\ alive' = alive /\ Parsed' = Parsed /\ InMemory' = InMemory
    BY <1>8 DEF KV!vars, InMemory
  <2>2. ContractLog
    BY <1>1, <2>1 DEF ContractLog, ContractShape
  <2> QED  BY <1>5, <2>1, <2>2
<1> QED  BY <1>3, <1>4, <1>6, <1>7, <1>8 DEF KV!Next

\* Every step of the contract keeps what is acknowledged, and no change that a crash
\* took away counts as alive afterwards.
ContractInv == KV!TypeOK /\ KV!Durable /\ AliveInv
LEMMA ContractStep ==
  ASSUME ContractInv, [KV!Next]_KV!vars
  PROVE  ContractInv'
<1> DEFINE Goal == KV!Durable' /\ AliveInv'
<1>1. ContractShape /\ KV!Durable /\ AliveInv
  BY ContractType DEF ContractInv
<1>2. calls \in Seq(CallRecord) /\ Parsed \in [Keys -> Nat] /\ alive \subseteq DOMAIN calls
      /\ \A n \in DOMAIN calls : n \in Nat /\ calls[n] \in CallRecord
  BY <1>1 DEF ContractShape
<1>3. \A n \in DOMAIN calls : calls[n].key \in Keys
  BY <1>2 DEF CallRecord
<1>4. ASSUME NEW k \in Keys, KV!Write(k)
      PROVE  Goal
  BY <1>1, <1>2, <1>4, ContractWrite DEF ContractShape, ContractLog, AliveInv, KV!Durable
<1>5. ASSUME KV!Save
      PROVE  Goal
  <2>1. /\ UNCHANGED <<calls, alive>> /\ Parsed' \in [Keys -> Nat]
        /\ \A k \in Keys : Parsed'[k] >= Parsed[k]
    BY <1>1, <1>5, ContractSave
  <2>2. ASSUME NEW n \in DOMAIN calls, calls[n].res = "ok"
        PROVE  Parsed'[calls[n].key] >= n
    BY <1>1, <1>2, <1>3, <2>1, <2>2 DEF KV!Durable
  <2> QED  BY <1>1, <2>1, <2>2 DEF ContractShape, AliveInv, KV!Durable
<1>6. ASSUME NEW n \in DOMAIN calls, KV!Answer(n)
      PROVE  Goal
  BY <1>1, <1>2, <1>6, ContractAnswer
     DEF ContractShape, ContractLog, AliveInv, KV!Durable
<1>7. ASSUME KV!Crash
      PROVE  Goal
  BY <1>1, <1>2, <1>7, ContractCrash
     DEF ContractShape, ContractLog, AliveInv, KV!Durable
<1>8. ASSUME UNCHANGED KV!vars
      PROVE  Goal
  BY <1>1, <1>8 DEF KV!vars, ContractShape, AliveInv, KV!Durable
<1>9. Goal
  BY <1>4, <1>5, <1>6, <1>7, <1>8 DEF KV!Next
<1> QED  BY <1>9, ContractTypeStep DEF ContractInv

LEMMA ContractKept == KV!Spec => []ContractInv
<1>1. KV!Init => ContractInv
  BY DEF KV!Init, ContractInv, KV!TypeOK, AliveInv, KV!Durable
<1> QED  BY <1>1, ContractStep, PTL DEF KV!Spec

\* The contract implies that what is acknowledged stays in the store, until a later call
\* about its key replaces it, through every later save and crash ...
LEMMA ContractAcknowledged == KV!Spec => []KV!Durable
<1>1. ContractInv => KV!Durable
  BY DEF ContractInv
<1> QED  BY <1>1, ContractKept, PTL

\* ... and that a change which a crash took away does not reach the store later.
LEMMA ContractLost == KV!Spec => KV!LostStaysLost
<1>1. ASSUME ContractInv, [KV!Next]_KV!vars, NEW k \in Keys, Parsed'[k] # Parsed[k]
      PROVE  calls'[Parsed'[k]].res # "lost"
  <2>1. ContractShape /\ AliveInv
    BY <1>1, ContractType DEF ContractInv
  <2>2. KV!Save
    BY <1>1, <2>1, ContractWrite, ContractAnswer, ContractCrash DEF KV!Next, KV!vars
  <2>3. Parsed'[k] \in KV!Later(k) /\ calls' = calls
    BY <1>1, <2>1, <2>2, ContractSave
  <2> QED  BY <2>1, <2>3 DEF KV!Later, AliveInv
<1>2. ContractInv /\ [KV!Next]_KV!vars =>
        [\A k \in Keys :
           Parsed'[k] # Parsed[k] /\ Parsed'[k] # 0 => calls'[Parsed'[k]].res # "lost"]_KV!vars
  BY <1>1
<1> QED  BY <1>2, ContractKept, PTL DEF KV!Spec, KV!LostStaysLost

\* The value of a key, in memory and in the file, is a call about that key.
THEOREM ValuesAboutKeys == Spec => []KV!TypeOK
<1>1. ContractInv => KV!TypeOK
  BY DEF ContractInv
<1> QED  BY <1>1, JsonImplementsKVStore, ContractKept, PTL DEF ImplementsKVStore

\* A Put or Delete that returned without an error is in the file of the store, until
\* a later one about its key replaces it there, whatever fails or dies afterwards.
THEOREM AcknowledgedInFile == Spec => []KV!Durable
BY JsonImplementsKVStore, ContractAcknowledged, PTL DEF ImplementsKVStore

\* A Put or Delete that a crash took away, which its caller may have repeated, does not
\* reach the file later.
THEOREM LostNotInFile == Spec => KV!LostStaysLost
BY JsonImplementsKVStore, ContractLost, PTL DEF ImplementsKVStore
=============================================================================
