------------------------ MODULE RedisTaskQueueProofs ------------------------
(* Theorems about a task queue of the Redis index, for every set of files   *)
(* and workers, every queue and every bound.                                *)
EXTENDS RedisTaskQueue, TLAPS

-----------------------------------------------------------------------------
(* Sequences.                                                              *)

\* The tail of a sequence.
LEMMA TailFacts ==
  ASSUME NEW S, NEW q \in Seq(S), q # <<>>
  PROVE  /\ Tail(q) \in Seq(S)
         /\ Head(q) \in S /\ Head(q) = q[1] /\ 1 \in DOMAIN q
         /\ \A i \in DOMAIN Tail(q) : i + 1 \in DOMAIN q /\ Tail(q)[i] = q[i + 1]
         /\ \A j \in DOMAIN q : j # 1 => j - 1 \in DOMAIN Tail(q)
OBVIOUS

\* A sequence with one more element.
LEMMA AppendFacts ==
  ASSUME NEW S, NEW q \in Seq(S), NEW x \in S
  PROVE  /\ Append(q, x) \in Seq(S)
         /\ DOMAIN Append(q, x) = DOMAIN q \cup {Len(q) + 1}
         /\ Len(q) + 1 \notin DOMAIN q
         /\ \A i \in DOMAIN q : Append(q, x)[i] = q[i]
         /\ Append(q, x)[Len(q) + 1] = x
OBVIOUS

\* A sequence without its i-th element.
LEMMA RemoveAtFacts ==
  ASSUME NEW S, NEW q \in Seq(S), NEW i \in DOMAIN q
  PROVE  /\ RemoveAt(q, i) \in Seq(S)
         /\ DOMAIN RemoveAt(q, i) = 1 .. Len(q) - 1
         /\ \A j \in DOMAIN RemoveAt(q, i) :
              RemoveAt(q, i)[j] = q[IF j < i THEN j ELSE j + 1]
<1>1. i \in 1 .. Len(q) /\ Len(q) \in Nat
  OBVIOUS
<1>2. /\ SubSeq(q, 1, i - 1) \in Seq(S)
      /\ Len(SubSeq(q, 1, i - 1)) = i - 1
      /\ \A j \in 1 .. i - 1 : SubSeq(q, 1, i - 1)[j] = q[j]
  BY <1>1
<1>3. /\ SubSeq(q, i + 1, Len(q)) \in Seq(S)
      /\ Len(SubSeq(q, i + 1, Len(q))) = Len(q) - i
      /\ \A j \in 1 .. Len(q) - i : SubSeq(q, i + 1, Len(q))[j] = q[j + i]
  BY <1>1
<1> DEFINE a == SubSeq(q, 1, i - 1)
           b == SubSeq(q, i + 1, Len(q))
<1>4. RemoveAt(q, i) = a \o b
  BY DEF RemoveAt
<1> HIDE DEF a, b
<1>5. a \in Seq(S) /\ b \in Seq(S) /\ Len(a) = i - 1 /\ Len(b) = Len(q) - i
  BY <1>2, <1>3 DEF a, b
<1>6. a \o b \in Seq(S) /\ Len(a \o b) = Len(q) - 1
  BY <1>1, <1>5
<1>7. DOMAIN (a \o b) = 1 .. Len(q) - 1
  BY <1>6
<1>8. ASSUME NEW j \in 1 .. Len(q) - 1
      PROVE  (a \o b)[j] = q[IF j < i THEN j ELSE j + 1]
  <2>1. CASE j < i
    <3>1. (a \o b)[j] = a[j]
      BY <1>1, <1>5, <2>1
    <3>2. a[j] = q[j]
      BY <1>1, <1>2, <2>1 DEF a
    <3> QED  BY <2>1, <3>1, <3>2
  <2>2. CASE ~(j < i)
    <3>1. (a \o b)[j] = b[j - (i - 1)]
      <4>1. j \in 1 .. Len(a) + Len(b) /\ ~(j <= Len(a))
        BY <1>1, <1>5, <2>2
      <4>2. a \in Seq(S) /\ b \in Seq(S)
        BY <1>5
      <4>3. (a \o b)[j] = b[j - Len(a)]
        BY <4>1, <4>2, SMTT(30)
      <4> QED  BY <1>5, <4>3
    <3>2. j - (i - 1) \in 1 .. Len(q) - i /\ j - (i - 1) + i = j + 1
      BY <1>1, <2>2
    <3>3. b[j - (i - 1)] = q[j + 1]
      BY <1>3, <3>2 DEF b
    <3> QED  BY <2>2, <3>1, <3>3
  <2> QED  BY <2>1, <2>2
<1> QED  BY <1>4, <1>6, <1>7, <1>8

\* A sequence whose last element is replaced.
LEMMA SetLastFacts ==
  ASSUME NEW S, NEW q \in Seq(S), q # <<>>, NEW x \in S
  PROVE  /\ [q EXCEPT ![Len(q)] = x] \in Seq(S)
         /\ DOMAIN [q EXCEPT ![Len(q)] = x] = DOMAIN q
         /\ Len(q) \in DOMAIN q
         /\ \A i \in DOMAIN q :
              [q EXCEPT ![Len(q)] = x][i] = IF i = Len(q) THEN x ELSE q[i]
OBVIOUS

-----------------------------------------------------------------------------
(* The steps, element by element.                                          *)

\* A file joins the last idle task, or is pushed with a task of its own.
LEMMA AddFileFacts ==
  ASSUME TypeOK, NEW f \in Files, AddFile(f)
  PROVE  \/ /\ idle' \in Seq(Task) /\ DOMAIN idle' = DOMAIN idle
            /\ queue.maxPlan > 0
            /\ Len(idle) \in DOMAIN idle
            /\ \A i \in DOMAIN idle :
                 /\ idle'[i].id = idle[i].id
                 /\ idle'[i].left = idle[i].left
                 /\ idle'[i].files = IF i = Len(idle) THEN idle[i].files \cup {f} 
                                                      ELSE idle[i].files
            /\ made' = made
         \/ /\ idle' \in Seq(Task') /\ DOMAIN idle' = DOMAIN idle \cup {Len(idle) + 1}
            /\ Len(idle) + 1 \notin DOMAIN idle
            /\ \A i \in DOMAIN idle : idle'[i] = idle[i]
            /\ idle'[Len(idle) + 1] = [id |-> made + 1, files |-> {f}, left |-> queue.delay[f]]
            /\ made' = made + 1
<1>1. idle \in Seq(Task) /\ made \in Nat /\ queue \in Queues
  BY DEF TypeOK
<1>2. CASE Fits(idle, f)
  <2> DEFINE x == [idle[Len(idle)] EXCEPT !.files = @ \cup {f}]
  <2>1. idle # <<>> /\ queue.maxPlan > 0 /\ made' = made
        /\ idle' = [idle EXCEPT ![Len(idle)].files = @ \cup {f}]
    BY <1>2 DEF AddFile, Fits
  <2>2. idle[Len(idle)] \in Task
    BY <1>1, <2>1
  <2>3. x \in Task /\ x.id = idle[Len(idle)].id /\ x.left = idle[Len(idle)].left
        /\ x.files = idle[Len(idle)].files \cup {f}
    BY <2>2 DEF Task
  <2>4. idle' = [idle EXCEPT ![Len(idle)] = x]
    BY <2>1
  <2> HIDE DEF x
  <2>5. /\ idle' \in Seq(Task) /\ DOMAIN idle' = DOMAIN idle
        /\ Len(idle) \in DOMAIN idle
        /\ \A i \in DOMAIN idle : idle'[i] = IF i = Len(idle) THEN x ELSE idle[i]
    <3>1. idle \in Seq(Task) /\ idle # <<>> /\ x \in Task
      BY <1>1, <2>1, <2>3
    <3>2. /\ [idle EXCEPT ![Len(idle)] = x] \in Seq(Task)
          /\ DOMAIN [idle EXCEPT ![Len(idle)] = x] = DOMAIN idle
          /\ Len(idle) \in DOMAIN idle
          /\ \A i \in DOMAIN idle :
               [idle EXCEPT ![Len(idle)] = x][i] = IF i = Len(idle) THEN x ELSE idle[i]
      BY <3>1, SetLastFacts, Zenon
    <3> QED  BY <2>4, <3>2, Zenon
  <2> QED  BY <2>1, <2>3, <2>5
<1>3. CASE ~Fits(idle, f)
  <2> DEFINE x == [id |-> made + 1, files |-> {f}, left |-> queue.delay[f]]
  <2>1. idle' = Append(idle, x) /\ made' = made + 1
    BY <1>3 DEF AddFile
  <2>2. queue.delay[f] \in Nat \cup {NoTime}
    BY <1>1, TaskQueueAssumption
  <2>3. x \in Task'
    BY <1>1, <2>1, <2>2 DEF Task
  <2>4. idle \in Seq(Task')
    <3>1. Task \subseteq Task'
      BY <1>1, <2>1 DEF Task
    <3> QED  BY <1>1, <3>1
  <2> HIDE DEF x
  <2>5. /\ idle' \in Seq(Task') /\ DOMAIN idle' = DOMAIN idle \cup {Len(idle) + 1}
        /\ Len(idle) + 1 \notin DOMAIN idle
        /\ \A i \in DOMAIN idle : idle'[i] = idle[i]
        /\ idle'[Len(idle) + 1] = x
    BY <2>1, <2>3, <2>4, AppendFacts
  <2> QED  BY <2>1, <2>5 DEF x
<1> QED  BY <1>2, <1>3

\* Sequence r is sequence q without some of its elements.
Thin(r, q) ==
  \E g \in [DOMAIN r -> DOMAIN q] :
    /\ \A i, j \in DOMAIN r : i # j => g[i] # g[j]
    /\ \A i \in DOMAIN r : r[i] = q[g[i]]

\* A sequence without its head is thinner.
LEMMA ThinTail ==
  ASSUME NEW S, NEW q \in Seq(S), q # <<>>
  PROVE  Thin(Tail(q), q)
<1> DEFINE g == [i \in DOMAIN Tail(q) |-> i + 1]
<1>1. g \in [DOMAIN Tail(q) -> DOMAIN q] /\ \A i \in DOMAIN Tail(q) : Tail(q)[i] = q[g[i]]
  BY TailFacts
<1>2. DOMAIN Tail(q) \subseteq Nat
  OBVIOUS
<1>3. \A i, j \in DOMAIN Tail(q) : i # j => g[i] # g[j]
  BY <1>2
<1> HIDE DEF g
<1> QED  BY <1>1, <1>3 DEF Thin

\* A sequence without one element is thinner.
LEMMA ThinRemoveAt ==
  ASSUME NEW S, NEW q \in Seq(S), NEW k \in DOMAIN q
  PROVE  Thin(RemoveAt(q, k), q)
<1> DEFINE r == RemoveAt(q, k)
           g == [i \in DOMAIN r |-> IF i < k THEN i ELSE i + 1]
<1>1. DOMAIN r = 1 .. Len(q) - 1 /\ \A i \in DOMAIN r : r[i] = q[g[i]]
  BY RemoveAtFacts
<1>2. DOMAIN q = 1 .. Len(q) /\ Len(q) \in Nat /\ k \in 1 .. Len(q)
  OBVIOUS
<1> HIDE DEF r
<1>3. g \in [DOMAIN r -> DOMAIN q] /\ \A i, j \in DOMAIN r : i # j => g[i] # g[j]
  BY <1>1, <1>2
<1> HIDE DEF g
<1> QED  BY <1>1, <1>3 DEF Thin, r

\* The processing list after LREM: the same, or without a task of this id.
LEMMA RemovedFacts ==
  ASSUME TypeOK, NEW w \in Workers
  PROVE  /\ Removed(w) \in Seq(Task)
         /\ Thin(Removed(w), processing)
         /\ \A j \in DOMAIN processing :
              \/ processing[j].id = job[w].id
              \/ \E i \in DOMAIN Removed(w) : Removed(w)[i] = processing[j]
<1>1. processing \in Seq(Task)
  BY DEF TypeOK
<1>2. CASE Removed(w) = processing
  <2>1. Thin(processing, processing)
    <3> DEFINE g == [i \in DOMAIN processing |-> i]
    <3>1. /\ g \in [DOMAIN processing -> DOMAIN processing]
          /\ \A i, j \in DOMAIN processing : i # j => g[i] # g[j]
          /\ \A i \in DOMAIN processing : processing[i] = processing[g[i]]
      OBVIOUS
    <3> QED  BY <3>1 DEF Thin
  <2> QED  BY <1>1, <1>2, <2>1
<1>3. CASE Removed(w) # processing
  <2> DEFINE k == CHOOSE i \in DOMAIN processing : processing[i].id = job[w].id
  <2>1. /\ k \in DOMAIN processing /\ processing[k].id = job[w].id
        /\ Removed(w) = RemoveAt(processing, k)
    BY <1>3 DEF Removed
  <2> HIDE DEF k
  <2>2. /\ Removed(w) \in Seq(Task)
        /\ DOMAIN Removed(w) = 1 .. Len(processing) - 1
        /\ \A j \in DOMAIN Removed(w) : Removed(w)[j] = processing[IF j < k THEN j ELSE j + 1]
    BY <1>1, <2>1, RemoveAtFacts
  <2>3. Thin(Removed(w), processing)
    BY <1>1, <2>1, ThinRemoveAt
  <2>4. ASSUME NEW j \in DOMAIN processing, processing[j].id # job[w].id
        PROVE  \E i \in DOMAIN Removed(w) : Removed(w)[i] = processing[j]
    <3>1. /\ DOMAIN processing = 1 .. Len(processing) /\ Len(processing) \in Nat
          /\ j # k /\ j \in 1 .. Len(processing) /\ k \in 1 .. Len(processing)
      BY <1>1, <2>1, <2>4
    <3>2. CASE j < k
      <4>1. j \in DOMAIN Removed(w) /\ Removed(w)[j] = processing[j]
        BY <2>2, <3>1, <3>2
      <4> QED  BY <4>1
    <3>3. CASE j > k
      <4>1. j - 1 \in DOMAIN Removed(w) /\ ~(j - 1 < k) /\ (j - 1) + 1 = j
        BY <2>2, <3>1, <3>3
      <4>2. Removed(w)[j - 1] = processing[j]
        BY <2>2, <4>1
      <4> QED  BY <4>1, <4>2
    <3> QED  BY <3>1, <3>2, <3>3
  <2> QED  BY <2>2, <2>3, <2>4
<1> QED  BY <1>2, <1>3

\* Time passes: every element stays, with no more time left.
LEMMA OlderFacts ==
  ASSUME NEW q \in Seq(Task)
  PROVE  /\ Older(q) \in Seq(Task)
         /\ DOMAIN Older(q) = DOMAIN q
         /\ \A i \in DOMAIN q :
              /\ Older(q)[i].id = q[i].id
              /\ Older(q)[i].files = q[i].files
              /\ Older(q)[i].left = IF q[i].left \in {0, NoTime} THEN q[i].left
                                                                 ELSE q[i].left - 1
<1>1. \A i \in DOMAIN q : q[i] \in Task
  OBVIOUS
<1>2. Older(q) = [i \in DOMAIN q |->
                    IF q[i].left \in {0, NoTime} THEN q[i]
                    ELSE [q[i] EXCEPT !.left = q[i].left - 1]]
  BY DEF Older
<1>3. \A i \in DOMAIN q :
        /\ Older(q)[i] \in Task
        /\ Older(q)[i].id = q[i].id
        /\ Older(q)[i].files = q[i].files
        /\ Older(q)[i].left = IF q[i].left \in {0, NoTime} THEN q[i].left ELSE q[i].left - 1
  <2> TAKE i \in DOMAIN q
  <2>1. q[i] \in Task
    BY <1>1
  <2>2. /\ q[i].id \in 1 .. made /\ q[i].files \in (SUBSET Files) \ {{}}
        /\ q[i].left \in Nat \cup {NoTime}
        /\ q[i] = [id |-> q[i].id, files |-> q[i].files, left |-> q[i].left]
    BY <2>1 DEF Task
  <2>3. CASE q[i].left \in {0, NoTime}
    <3>1. Older(q)[i] = q[i]
      BY <1>2, <2>3
    <3> QED  BY <2>1, <2>3, <3>1
  <2>4. CASE q[i].left \notin {0, NoTime}
    <3>1. Older(q)[i] = [q[i] EXCEPT !.left = q[i].left - 1]
      BY <1>2, <2>4
    <3>2. Older(q)[i] = [id |-> q[i].id, files |-> q[i].files, left |-> q[i].left - 1]
      BY <2>2, <3>1
    <3>3. q[i].left - 1 \in Nat
      BY <2>2, <2>4
    <3> QED  BY <2>2, <2>4, <3>2, <3>3 DEF Task
  <2> QED  BY <2>3, <2>4
<1>4. DOMAIN Older(q) = DOMAIN q /\ DOMAIN q = 1 .. Len(q) /\ Len(q) \in Nat
  BY <1>2
<1>5. Older(q) \in Seq(Task)
  <2>1. Older(q) \in [1 .. Len(q) -> Task]
    BY <1>2, <1>3, <1>4
  <2> QED  BY <1>4, <2>1
<1> QED  BY <1>3, <1>4, <1>5

-----------------------------------------------------------------------------
(* The shape of the state.                                                 *)

\* A task received from the script is a job.
LEMMA ReceiveType ==
  ASSUME TypeOK, NEW w \in Workers, NEW item \in Task, Receive(w, item)
  PROVE  /\ at' \in [Workers -> {"ready", "working", "scanned"}]
         /\ job' \in [Workers -> [id : 0 .. made, files : SUBSET Files]]
         /\ \A v \in Workers : IF at'[v] = "ready" THEN job'[v] = NoJob ELSE job'[v].id # 0
         /\ held' \in [Workers -> 0 .. Timeout]
<1>1. item.id \in 1 .. made /\ item.files \in SUBSET Files /\ made \in Nat
  BY DEF Task, TypeOK
<1>2. [id |-> item.id, files |-> item.files] \in [id : 0 .. made, files : SUBSET Files]
  BY <1>1
<1>3. 0 \in 0 .. Timeout
  BY TaskQueueAssumption
<1> QED  BY <1>1, <1>2, <1>3 DEF TypeOK, Receive

\* A task that goes to the processing list with a new time is still a task.
LEMMA StampedType ==
  ASSUME NEW item \in Task
  PROVE  Stamped(item) \in Task
BY TaskQueueAssumption DEF Stamped, Task

\* What a worker holds after it has reported.
LEMMA ReportedType ==
  ASSUME TypeOK, NEW w \in Workers, at[w] # "ready", Reported(w)
  PROVE  /\ at' \in [Workers -> {"ready", "working", "scanned"}]
         /\ job' \in [Workers -> [id : 0 .. made, files : SUBSET Files]]
         /\ \A v \in Workers : IF at'[v] = "ready" THEN job'[v] = NoJob ELSE job'[v].id # 0
         /\ fresh' \in [Workers -> BOOLEAN]
         /\ finished' \subseteq 1 .. made
<1>1. NoJob \in [id : 0 .. made, files : SUBSET Files] /\ job[w].id \in 1 .. made
  BY DEF TypeOK, NoJob
<1> QED  BY <1>1 DEF TypeOK, Reported

\* Every step preserves the shape of the state.
LEMMA TypeStep ==
  ASSUME TypeOK, [Next]_vars
  PROVE  TypeOK'
<1>0. /\ idle \in Seq(Task) /\ processing \in Seq(Task) /\ made \in Nat
      /\ \A q \in Seq(Task) : q # <<>> => /\ Head(q) \in Task /\ Tail(q) \in Seq(Task)
                                         /\ Head(q).id \in 1 .. made
      /\ \A q \in Seq(Task), item \in Task : Append(q, item) \in Seq(Task)
  <2>1. idle \in Seq(Task) /\ processing \in Seq(Task) /\ made \in Nat
    BY DEF TypeOK
  <2>2. \A item \in Task : item.id \in 1 .. made
    BY DEF Task
  <2>3. ASSUME NEW q \in Seq(Task), q # <<>>
        PROVE  Head(q) \in Task /\ Tail(q) \in Seq(Task)
    BY <2>3, TailFacts
  <2>4. \A q \in Seq(Task), item \in Task : Append(q, item) \in Seq(Task)
    BY AppendFacts
  <2> QED  BY <2>1, <2>2, <2>3, <2>4
<1>1. ASSUME NEW f \in Files, AddFile(f)
      PROVE  TypeOK'
  <2>1. idle' \in Seq(Task') /\ made' \in Nat /\ made \in Nat /\ made <= made'
    <3>1. \/ idle' \in Seq(Task) /\ made' = made
          \/ idle' \in Seq(Task') /\ made' = made + 1
      BY <1>1, AddFileFacts
    <3>2. made' = made => Task' = Task
      BY DEF Task
    <3> QED  BY <1>0, <3>1, <3>2
  <2>2. Task \subseteq Task' /\ 0 .. made \subseteq 0 .. made' /\ 1 .. made \subseteq 1 .. made'
    BY <2>1 DEF Task
  <2>3. processing' \in Seq(Task')
    BY <1>0, <1>1, <2>2 DEF AddFile
  <2>4. job' \in [Workers -> [id : 0 .. made', files : SUBSET Files]]
    BY <1>1, <2>2 DEF AddFile, TypeOK, workerVars
  <2> QED  BY <1>1, <2>1, <2>2, <2>3, <2>4 DEF AddFile, TypeOK, workerVars, historyVars
<1>2. ASSUME NEW w \in Workers, GetIdle(w)
      PROVE  TypeOK'
  <2>1. /\ idle # <<>> /\ Receive(w, Head(idle)) /\ idle' = Tail(idle)
        /\ processing' = Append(processing, Stamped(Head(idle)))
    BY <1>2 DEF GetIdle, Ripe
  <2>2. idle' \in Seq(Task) /\ processing' \in Seq(Task)
    BY <1>0, <2>1, StampedType
  <2>3. Task' = Task
    BY <1>2 DEF GetIdle, Task
  <2>4. /\ at' \in [Workers -> {"ready", "working", "scanned"}]
        /\ job' \in [Workers -> [id : 0 .. made, files : SUBSET Files]]
        /\ \A v \in Workers : IF at'[v] = "ready" THEN job'[v] = NoJob ELSE job'[v].id # 0
        /\ held' \in [Workers -> 0 .. Timeout]
    BY <1>0, <2>1, ReceiveType
  <2> QED  BY <1>2, <2>2, <2>3, <2>4 DEF GetIdle, TypeOK, historyVars
<1>3. ASSUME NEW w \in Workers, GetUntimed(w)
      PROVE  TypeOK'
  <2>1. idle # <<>> /\ idle' = Tail(idle) /\ idle' \in Seq(Task)
    BY <1>0, <1>3 DEF GetUntimed, Untimed
  <2>2. Task' = Task
    BY <1>3 DEF GetUntimed, Task
  <2> QED  BY <1>3, <2>1, <2>2 DEF GetUntimed, TypeOK, workerVars, historyVars
<1>4. ASSUME NEW w \in Workers, GetStale(w)
      PROVE  TypeOK'
  <2>1. /\ processing # <<>> /\ Receive(w, Head(processing))
        /\ processing' = Append(Tail(processing), Stamped(Head(processing)))
        /\ redelivered' = redelivered \cup {Head(processing).id}
    BY <1>4 DEF GetStale, Ripe
  <2>2. processing' \in Seq(Task) /\ Head(processing).id \in 1 .. made
    BY <1>0, <2>1, StampedType
  <2>3. Task' = Task
    BY <1>4 DEF GetStale, Task
  <2>4. /\ at' \in [Workers -> {"ready", "working", "scanned"}]
        /\ job' \in [Workers -> [id : 0 .. made, files : SUBSET Files]]
        /\ \A v \in Workers : IF at'[v] = "ready" THEN job'[v] = NoJob ELSE job'[v].id # 0
        /\ held' \in [Workers -> 0 .. Timeout]
    BY <1>0, <2>1, ReceiveType
  <2>5. fresh' \in [Workers -> BOOLEAN]
    BY <1>4 DEF GetStale, TypeOK
  <2> QED  BY <1>4, <2>1, <2>2, <2>3, <2>4, <2>5 DEF GetStale, TypeOK
<1>5. ASSUME NEW w \in Workers, FinishScan(w)
      PROVE  TypeOK'
  <2>1. Task' = Task /\ processed' \subseteq Files
    BY <1>5 DEF FinishScan, Task, TypeOK
  <2>2. CASE queue.known /\ \E item \in ToSet(processing) : item.id = job[w].id
    BY <1>5, <2>1, <2>2 DEF FinishScan, TypeOK
  <2>3. CASE ~(queue.known /\ \E item \in ToSet(processing) : item.id = job[w].id)
    <3>1. Reported(w) /\ at[w] # "ready"
      BY <1>5, <2>3 DEF FinishScan
    <3>2. /\ at' \in [Workers -> {"ready", "working", "scanned"}]
          /\ job' \in [Workers -> [id : 0 .. made, files : SUBSET Files]]
          /\ \A v \in Workers : IF at'[v] = "ready" THEN job'[v] = NoJob ELSE job'[v].id # 0
          /\ fresh' \in [Workers -> BOOLEAN]
          /\ finished' \subseteq 1 .. made
      BY <3>1, ReportedType
    <3> QED  BY <1>5, <2>1, <3>2 DEF FinishScan, TypeOK
  <2> QED  BY <2>2, <2>3
<1>6. ASSUME NEW w \in Workers, FinishRemove(w)
      PROVE  TypeOK'
  <2>1. Task' = Task /\ processing' \in Seq(Task)
    BY <1>6, RemovedFacts DEF FinishRemove, Task
  <2>2. /\ at' \in [Workers -> {"ready", "working", "scanned"}]
        /\ job' \in [Workers -> [id : 0 .. made, files : SUBSET Files]]
        /\ \A v \in Workers : IF at'[v] = "ready" THEN job'[v] = NoJob ELSE job'[v].id # 0
        /\ fresh' \in [Workers -> BOOLEAN]
        /\ finished' \subseteq 1 .. made
    BY <1>6, ReportedType DEF FinishRemove
  <2> QED  BY <1>6, <2>1, <2>2 DEF FinishRemove, TypeOK
<1>7. ASSUME NEW w \in Workers, FinishFails(w)
      PROVE  TypeOK'
  <2>1. Task' = Task /\ processing' \in Seq(Task)
    BY <1>0, <1>7, RemovedFacts DEF FinishFails, Task
  <2>2. spent' \in [{"deaths", "failures"} -> Nat]
    BY <1>7 DEF FinishFails, Spend, TypeOK
  <2> QED  BY <1>7, <2>1, <2>2 DEF FinishFails, TypeOK, historyVars
<1>8. ASSUME NEW w \in Workers, Die(w)
      PROVE  TypeOK'
  <2>1. Task' = Task /\ NoJob \in [id : 0 .. made, files : SUBSET Files]
    BY <1>0, <1>8 DEF Die, Task, NoJob
  <2>2. spent' \in [{"deaths", "failures"} -> Nat]
    BY <1>8 DEF Die, Spend, TypeOK
  <2> QED  BY <1>8, <2>1, <2>2 DEF Die, TypeOK, historyVars
<1>9. ASSUME Tick
      PROVE  TypeOK'
  <2>1. Task' = Task /\ idle' \in Seq(Task) /\ processing' \in Seq(Task)
    BY <1>0, <1>9, OlderFacts DEF Tick, Task
  <2>2. held' \in [Workers -> 0 .. Timeout]
    BY <1>9, TaskQueueAssumption DEF Tick, TypeOK
  <2> QED  BY <1>9, <2>1, <2>2 DEF Tick, TypeOK, historyVars
<1>10. CASE UNCHANGED vars
  <2>1. Task' = Task
    BY <1>10 DEF vars, Task
  <2> QED  BY <1>10, <2>1 DEF vars, workerVars, historyVars, TypeOK
<1> QED  BY <1>1, <1>2, <1>3, <1>4, <1>5, <1>6, <1>7, <1>8, <1>9, <1>10
         DEF Next, Get, Finish

\* The shape of the initial states.
LEMMA TypeInit == Init => TypeOK
BY TaskQueueAssumption DEF Init, TypeOK, Task, NoJob

\* The shape of the state, for every set of files and workers and every queue.
THEOREM TypeCorrect == Spec => []TypeOK
<1>1. Init => TypeOK
  BY TypeInit
<1>2. TypeOK /\ [Next]_vars => TypeOK'
  BY TypeStep
<1> QED  BY <1>1, <1>2, PTL DEF Spec

-----------------------------------------------------------------------------
(* A task is shared only after its timeout.                                *)

\* Two tasks are two, and about different files.
Apart(x, y) == x.id # y.id /\ x.files \cap y.files = {}
AllApart(q) == \A i, j \in DOMAIN q : i # j => Apart(q[i], q[j])
BothApart(p, q) == \A i \in DOMAIN p, j \in DOMAIN q : Apart(p[i], q[j])

\* No task is queued twice, and no file is in two tasks.
QueuedOnce == AllApart(idle) /\ AllApart(processing) /\ BothApart(idle, processing)

\* A file that no producer has announced is in no task.
Unannounced ==
  /\ \A i \in DOMAIN idle : idle[i].files \cap pool = {}
  /\ \A i \in DOMAIN processing : processing[i].files \cap pool = {}
  /\ \A w \in Workers : job[w].files \cap pool = {}

\* The task x of the processing list is the one the worker has, which will not be
\* given out before the worker has had it for the whole timeout, or another one.
Leased(w, x) ==
  IF x.id = job[w].id THEN x.files = job[w].files /\ held[w] + x.left >= Timeout
  ELSE x.files \cap job[w].files = {}

LeasesHeld ==
  /\ \A i \in DOMAIN processing : processing[i].left \in Nat
  /\ \A w \in Workers : at[w] # "ready" =>
       /\ \A i \in DOMAIN idle : Apart(job[w], idle[i])
       /\ \A i \in DOMAIN processing : Leased(w, processing[i])

LeaseInv == TypeOK /\ QueuedOnce /\ Unannounced /\ LeasesHeld /\ ExclusiveWithinTimeout

\* What is apart in a sequence is apart in a thinner one.
LEMMA ThinApart ==
  ASSUME NEW q, NEW r, Thin(r, q)
  PROVE  /\ AllApart(q) => AllApart(r)
         /\ \A p : BothApart(p, q) => BothApart(p, r)
         /\ \A p : BothApart(q, p) => BothApart(r, p)
         /\ \A i \in DOMAIN r : \E j \in DOMAIN q : r[i] = q[j]
<1>1. PICK g \in [DOMAIN r -> DOMAIN q] :
        /\ \A i, j \in DOMAIN r : i # j => g[i] # g[j]
        /\ \A i \in DOMAIN r : r[i] = q[g[i]]
  BY DEF Thin
<1>2. \A i \in DOMAIN r : g[i] \in DOMAIN q
  OBVIOUS
<1> QED  BY <1>1, <1>2, Zenon DEF AllApart, BothApart

\* A sequence of tasks to which one is appended that is apart from all.
LEMMA AppendApart ==
  ASSUME NEW q \in Seq(Task), NEW x \in Task, AllApart(q),
         \A i \in DOMAIN q : Apart(q[i], x)
  PROVE  AllApart(Append(q, x))
<1>1. /\ DOMAIN Append(q, x) = DOMAIN q \cup {Len(q) + 1}
      /\ \A i \in DOMAIN q : Append(q, x)[i] = q[i]
      /\ Append(q, x)[Len(q) + 1] = x
  BY AppendFacts
<1>2. \A i \in DOMAIN q : Apart(x, q[i])
  BY Zenon DEF Apart
<1> DEFINE r == Append(q, x)
<1> HIDE DEF r
<1>3. ASSUME NEW i \in DOMAIN r, NEW j \in DOMAIN r, i # j
      PROVE  Apart(r[i], r[j])
  BY <1>1, <1>2, <1>3 DEF AllApart, r
<1> QED  BY <1>3 DEF AllApart, r

\* No worker without a task shares a file.
LEMMA NothingWhenReady ==
  ASSUME TypeOK, NEW w \in Workers, at[w] = "ready"
  PROVE  job[w].files = {} /\ job[w].id = 0
BY DEF TypeOK, NoJob

\* What the script does with a task it hands out, wherever it finds it: the list
\* q is the processing list without the task.
LEMMA HandOut ==
  ASSUME LeaseInv, NEW w \in Workers, NEW x \in Task, NEW q \in Seq(Task),
         at[w] = "ready", Receive(w, x), processing' = Append(q, Stamped(x)),
         AllApart(q), \A i \in DOMAIN q : Apart(q[i], x) /\ q[i].left \in Nat,
         \A i \in DOMAIN q : \E j \in DOMAIN processing : q[i] = processing[j],
         \A i \in DOMAIN idle' : Apart(idle'[i], x) /\ \E j \in DOMAIN idle : idle'[i] = idle[j],
         x.files \cap pool = {}, pool' = pool,
         \A v \in Workers : v # w /\ at[v] # "ready" => 
              \/ x.files \cap job[v].files = {} /\ x.id # job[v].id
              \/ x.id = job[v].id /\ x.files = job[v].files /\ held[v] = Timeout
  PROVE  AllApart(processing') /\ Unannounced' /\ LeasesHeld' /\ ExclusiveWithinTimeout'
<1>1. /\ Stamped(x) \in Task /\ Stamped(x).id = x.id /\ Stamped(x).files = x.files
      /\ Stamped(x).left = Timeout /\ Timeout \in Nat
  BY TaskQueueAssumption DEF Stamped, Task
<1>2. /\ DOMAIN processing' = DOMAIN q \cup {Len(q) + 1}
      /\ \A i \in DOMAIN q : processing'[i] = q[i]
      /\ processing'[Len(q) + 1] = Stamped(x)
  BY <1>1, AppendFacts
<1>3. AllApart(processing')
  <2>1. \A i \in DOMAIN q : Apart(q[i], Stamped(x))
    BY <1>1 DEF Apart
  <2> QED  BY <1>1, <2>1, AppendApart
<1>4. /\ at' = [at EXCEPT ![w] = "working"]
      /\ job'[w].id = x.id /\ job'[w].files = x.files
      /\ held'[w] = 0
      /\ \A v \in Workers : v # w => job'[v] = job[v] /\ held'[v] = held[v] /\ at'[v] = at[v]
  BY DEF Receive, LeaseInv, TypeOK
<1>5. Unannounced'
  <2>1. /\ \A i \in DOMAIN idle : idle[i].files \cap pool = {}
        /\ \A i \in DOMAIN processing : processing[i].files \cap pool = {}
        /\ \A v \in Workers : job[v].files \cap pool = {}
    BY DEF LeaseInv, Unannounced
  <2>2. \A i \in DOMAIN idle' : idle'[i].files \cap pool = {}
    BY <2>1
  <2>3. \A i \in DOMAIN q : q[i].files \cap pool = {}
    BY <2>1
  <2>4. \A i \in DOMAIN processing' : processing'[i].files \cap pool = {}
    BY <1>1, <1>2, <2>3
  <2>5. \A v \in Workers : job'[v].files \cap pool = {}
    BY <1>4, <2>1
  <2> QED  BY <2>2, <2>4, <2>5 DEF Unannounced
<1>6. LeasesHeld'
  <2>1. \A i \in DOMAIN processing' : processing'[i].left \in Nat
    BY <1>1, <1>2
  <2>2. ASSUME NEW v \in Workers, at'[v] # "ready", NEW i \in DOMAIN idle'
        PROVE  Apart(job'[v], idle'[i])
    <3>1. CASE v = w
      BY <1>4, <3>1 DEF Apart
    <3>2. CASE v # w
      BY <1>4, <2>2, <3>2 DEF LeaseInv, LeasesHeld
    <3> QED  BY <3>1, <3>2
  <2>3. ASSUME NEW v \in Workers, at'[v] # "ready", NEW i \in DOMAIN q
        PROVE  Leased(v, q[i])'
    <3>1. CASE v = w
      BY <1>2, <1>4, <3>1 DEF Leased, Apart
    <3>2. CASE v # w
      BY <1>2, <1>4, <2>3, <3>2 DEF LeaseInv, LeasesHeld, Leased
    <3> QED  BY <3>1, <3>2
  <2>4. ASSUME NEW v \in Workers, at'[v] # "ready"
        PROVE  Leased(v, Stamped(x))'
    <3>1. CASE v = w
      BY <1>1, <1>4, <3>1 DEF Leased
    <3>2. CASE v # w
      BY <1>1, <1>4, <2>4, <3>2 DEF Leased
    <3> QED  BY <3>1, <3>2
  <2> QED  BY <1>2, <2>1, <2>2, <2>3, <2>4 DEF LeasesHeld, Leased
<1>7. ExclusiveWithinTimeout'
  <2>1. ASSUME NEW v \in Workers, v # w, job'[v].files \cap job'[w].files # {}
        PROVE  held'[v] = Timeout
    <3>1. at[v] # "ready"
      BY <1>4, <2>1, NothingWhenReady DEF LeaseInv
    <3> QED  BY <1>4, <2>1, <3>1
  <2>2. ASSUME NEW u \in Workers, NEW v \in Workers, u # v,
               job'[u].files \cap job'[v].files # {}
        PROVE  Timeout \in {held'[u], held'[v]}
    <3>1. CASE u = w \/ v = w
      BY <2>1, <2>2, <3>1
    <3>2. CASE u # w /\ v # w
      BY <1>4, <2>2, <3>2 DEF LeaseInv, ExclusiveWithinTimeout
    <3> QED  BY <3>1, <3>2
  <2> QED  BY <2>2 DEF ExclusiveWithinTimeout
<1> QED  BY <1>3, <1>5, <1>6, <1>7

\* A worker comes to rest with its task, or drops it, and the processing list
\* stays or loses a task.
LEMMA Thinned ==
  ASSUME LeaseInv, NEW w \in Workers, at[w] # "ready",
         job'[w] = IF at'[w] = "ready" THEN NoJob ELSE job[w],
         \A v \in Workers : v # w => job'[v] = job[v] /\ at'[v] = at[v],
         Thin(processing', processing), UNCHANGED <<pool, idle, held>>
  PROVE  QueuedOnce' /\ Unannounced' /\ LeasesHeld' /\ ExclusiveWithinTimeout'
<1>1. QueuedOnce' /\ \A i \in DOMAIN processing' : \E j \in DOMAIN processing : processing'[i] = processing[j]
  BY ThinApart DEF LeaseInv, QueuedOnce
<1>2. NoJob.files = {} /\ NoJob.id = 0
  BY DEF NoJob
<1>3. Unannounced'
  BY <1>1, <1>2 DEF LeaseInv, Unannounced
<1>4. LeasesHeld'
  <2>1. \A i \in DOMAIN processing' : processing'[i].left \in Nat
    BY <1>1 DEF LeaseInv, LeasesHeld
  <2>2. \A v \in Workers : at'[v] # "ready" => at[v] # "ready" /\ job'[v] = job[v]
    OBVIOUS
  <2>3. ASSUME NEW v \in Workers, at'[v] # "ready", NEW i \in DOMAIN processing',
               NEW x, x = processing'[i]
        PROVE  Leased(v, x)'
    <3>1. PICK j \in DOMAIN processing : processing'[i] = processing[j]
      BY <1>1
    <3>2. Leased(v, processing[j])
      BY <2>2, <2>3 DEF LeaseInv, LeasesHeld
    <3> QED  BY <2>2, <2>3, <3>1, <3>2 DEF Leased
  <2>4. \A v \in Workers : at'[v] # "ready" => \A i \in DOMAIN idle' : Apart(job'[v], idle'[i])
    BY <2>2 DEF LeaseInv, LeasesHeld
  <2> QED  BY <2>1, <2>3, <2>4 DEF LeasesHeld, Leased
<1>5. ExclusiveWithinTimeout'
  BY <1>2 DEF LeaseInv, ExclusiveWithinTimeout
<1> QED  BY <1>1, <1>3, <1>4, <1>5

\* Every step preserves the invariant about times and shared files.
LEMMA LeaseStep ==
  ASSUME LeaseInv, [Next]_vars
  PROVE  LeaseInv'
<1>0. /\ TypeOK /\ TypeOK' /\ idle \in Seq(Task) /\ processing \in Seq(Task)
      /\ \A i \in DOMAIN idle : idle[i] \in Task
      /\ \A i \in DOMAIN processing : processing[i] \in Task
  <2>1. TypeOK /\ TypeOK' /\ idle \in Seq(Task) /\ processing \in Seq(Task)
    BY TypeStep DEF LeaseInv, TypeOK
  <2> QED  BY <2>1
<1> SUFFICES QueuedOnce' /\ Unannounced' /\ LeasesHeld' /\ ExclusiveWithinTimeout'
  BY <1>0 DEF LeaseInv
<1>1. ASSUME NEW f \in Files, AddFile(f)
      PROVE  QueuedOnce' /\ Unannounced' /\ LeasesHeld' /\ ExclusiveWithinTimeout'
  <2>1. /\ f \in pool /\ pool' = pool \ {f} /\ processing' = processing
        /\ job' = job /\ at' = at /\ held' = held
    BY <1>1 DEF AddFile, workerVars
  <2>2. /\ \A i \in DOMAIN idle : f \notin idle[i].files /\ idle[i].id \in 1 .. made
        /\ \A i \in DOMAIN processing : f \notin processing[i].files /\ processing[i].id \in 1 .. made
        /\ \A v \in Workers : f \notin job[v].files /\ job[v].id \in 0 .. made
        /\ made \in Nat
    BY <1>0, <2>1 DEF LeaseInv, Unannounced, TypeOK, Task
  <2>3. /\ \A i \in DOMAIN idle' :
              \/ i \in DOMAIN idle /\ idle'[i].id = idle[i].id
                 /\ idle'[i].files \in {idle[i].files, idle[i].files \cup {f}}
              \/ i \notin DOMAIN idle /\ idle'[i].id = made + 1 /\ idle'[i].files = {f}
        /\ \A i, j \in DOMAIN idle' :
              i # j => f \notin idle'[i].files \/ f \notin idle'[j].files
        /\ \A i, j \in DOMAIN idle' : i \notin DOMAIN idle /\ j \notin DOMAIN idle => i = j
    <3>1. CASE made' = made
      <4>1. /\ DOMAIN idle' = DOMAIN idle
            /\ \A i \in DOMAIN idle :
                 /\ idle'[i].id = idle[i].id
                 /\ idle'[i].files = IF i = Len(idle) THEN idle[i].files \cup {f} ELSE idle[i].files
        <5>1. made' # made + 1
          BY <2>2, <3>1
        <5> QED  BY <1>0, <1>1, <5>1, AddFileFacts, Zenon
      <4> QED  BY <2>2, <4>1
    <3>2. CASE made' # made
      <4>1. /\ DOMAIN idle' = DOMAIN idle \cup {Len(idle) + 1}
            /\ Len(idle) + 1 \notin DOMAIN idle
            /\ \A i \in DOMAIN idle : idle'[i] = idle[i]
            /\ idle'[Len(idle) + 1] = [id |-> made + 1, files |-> {f}, left |-> queue.delay[f]]
        BY <1>0, <1>1, <3>2, AddFileFacts
      <4>2. idle'[Len(idle) + 1].id = made + 1 /\ idle'[Len(idle) + 1].files = {f}
        BY <4>1
      <4> HIDE <4>1
      <4>3. /\ DOMAIN idle' = DOMAIN idle \cup {Len(idle) + 1}
            /\ Len(idle) + 1 \notin DOMAIN idle
            /\ \A i \in DOMAIN idle : idle'[i] = idle[i]
        BY <4>1
      <4> QED  BY <2>2, <4>2, <4>3
    <3> QED  BY <3>1, <3>2
  <2>4. QueuedOnce'
    <3>1. AllApart(idle')
      <4> SUFFICES ASSUME NEW i \in DOMAIN idle', NEW j \in DOMAIN idle', i # j
                   PROVE  Apart(idle'[i], idle'[j])
        BY DEF AllApart
      <4>1. CASE i \in DOMAIN idle /\ j \in DOMAIN idle
        <5>1. Apart(idle[i], idle[j])
          BY <4>1 DEF LeaseInv, QueuedOnce, AllApart
        <5> QED  BY <2>3, <4>1, <5>1 DEF Apart
      <4>2. CASE i \notin DOMAIN idle \/ j \notin DOMAIN idle
        BY <2>2, <2>3, <4>2 DEF Apart
      <4> QED  BY <4>1, <4>2
    <3>2. BothApart(idle', processing)
      <4> SUFFICES ASSUME NEW i \in DOMAIN idle', NEW j \in DOMAIN processing
                   PROVE  Apart(idle'[i], processing[j])
        BY DEF BothApart
      <4>1. CASE i \in DOMAIN idle
        <5>1. Apart(idle[i], processing[j])
          BY <4>1 DEF LeaseInv, QueuedOnce, BothApart
        <5> QED  BY <2>2, <2>3, <4>1, <5>1 DEF Apart
      <4>2. CASE i \notin DOMAIN idle
        BY <2>2, <2>3, <4>2 DEF Apart
      <4> QED  BY <4>1, <4>2
    <3> QED  BY <2>1, <3>1, <3>2 DEF LeaseInv, QueuedOnce
  <2>5. Unannounced'
    BY <2>1, <2>2, <2>3 DEF LeaseInv, Unannounced
  <2>6. LeasesHeld'
    <3>1. ASSUME NEW v \in Workers, at[v] # "ready", NEW i \in DOMAIN idle'
          PROVE  Apart(job[v], idle'[i])
      <4>1. CASE i \in DOMAIN idle
        <5>1. Apart(job[v], idle[i])
          BY <3>1, <4>1 DEF LeaseInv, LeasesHeld
        <5> QED  BY <2>2, <2>3, <4>1, <5>1 DEF Apart
      <4>2. CASE i \notin DOMAIN idle
        BY <2>2, <2>3, <4>2 DEF Apart
      <4> QED  BY <4>1, <4>2
    <3> QED  BY <2>1, <3>1 DEF LeaseInv, LeasesHeld, Leased
  <2>7. ExclusiveWithinTimeout'
    BY <2>1 DEF LeaseInv, ExclusiveWithinTimeout
  <2> QED  BY <2>4, <2>5, <2>6, <2>7
<1>2. ASSUME NEW w \in Workers, GetIdle(w)
      PROVE  QueuedOnce' /\ Unannounced' /\ LeasesHeld' /\ ExclusiveWithinTimeout'
  <2> DEFINE x == idle[1]
  <2>1. /\ idle # <<>> /\ at[w] = "ready" /\ Receive(w, Head(idle)) /\ idle' = Tail(idle)
        /\ processing' = Append(processing, Stamped(Head(idle))) /\ pool' = pool
    BY <1>2 DEF GetIdle, Ripe
  <2>2. /\ Head(idle) = x /\ x \in Task /\ 1 \in DOMAIN idle /\ Thin(idle', idle)
        /\ \A i \in DOMAIN idle' : i + 1 \in DOMAIN idle /\ idle'[i] = idle[i + 1]
    BY <1>0, <2>1, TailFacts, ThinTail
  <2>3. /\ AllApart(idle') /\ BothApart(idle', processing)
        /\ \A i \in DOMAIN idle' : \E j \in DOMAIN idle : idle'[i] = idle[j]
    BY <2>2, ThinApart DEF LeaseInv, QueuedOnce
  <2>4. \A i \in DOMAIN idle' : Apart(idle'[i], x)
    <3> TAKE i \in DOMAIN idle'
    <3>1. i + 1 \in DOMAIN idle /\ i + 1 # 1 /\ idle'[i] = idle[i + 1]
      BY <1>0, <2>1, <2>2
    <3> QED  BY <2>2, <3>1 DEF LeaseInv, QueuedOnce, AllApart
  <2>5. \A i \in DOMAIN processing : Apart(processing[i], x) /\ processing[i].left \in Nat
    BY <2>2 DEF LeaseInv, LeasesHeld, QueuedOnce, BothApart, Apart
  <2>6. x.files \cap pool = {}
    BY <2>2 DEF LeaseInv, Unannounced
  <2>7. \A v \in Workers : at[v] # "ready" => x.files \cap job[v].files = {} /\ x.id # job[v].id
    BY <2>2 DEF LeaseInv, LeasesHeld, Apart
  <2>8. /\ AllApart(processing)
        /\ \A i \in DOMAIN processing : \E j \in DOMAIN processing : processing[i] = processing[j]
    BY DEF LeaseInv, QueuedOnce
  <2>9. Receive(w, x) /\ processing' = Append(processing, Stamped(x))
    BY <2>1, <2>2
  <2> HIDE DEF x
  <2>10. AllApart(processing') /\ Unannounced' /\ LeasesHeld' /\ ExclusiveWithinTimeout'
    BY <1>0, <2>1, <2>2, <2>3, <2>4, <2>5, <2>6, <2>7, <2>8, <2>9, HandOut
  <2>11. BothApart(idle', processing')
    <3>1. \A j \in DOMAIN processing' : 
            \/ j \in DOMAIN processing /\ processing'[j] = processing[j]
            \/ processing'[j].id = x.id /\ processing'[j].files = x.files
      <4>1. Stamped(x) \in Task /\ Stamped(x).id = x.id /\ Stamped(x).files = x.files
        BY <2>2, TaskQueueAssumption DEF Stamped, Task
      <4> QED  BY <1>0, <2>9, <4>1, AppendFacts
    <3> QED  BY <2>3, <2>4, <3>1 DEF BothApart, Apart
  <2> QED  BY <2>3, <2>10, <2>11 DEF QueuedOnce
<1>3. ASSUME NEW w \in Workers, GetUntimed(w)
      PROVE  QueuedOnce' /\ Unannounced' /\ LeasesHeld' /\ ExclusiveWithinTimeout'
  <2>1. /\ idle # <<>> /\ idle' = Tail(idle)
        /\ UNCHANGED <<pool, processing, at, job, held>>
    BY <1>3 DEF GetUntimed, Untimed, workerVars
  <2>2. Thin(idle', idle)
    BY <1>0, <2>1, ThinTail
  <2>3. /\ AllApart(idle') /\ BothApart(idle', processing)
        /\ \A i \in DOMAIN idle' : \E j \in DOMAIN idle : idle'[i] = idle[j]
    BY <2>2, ThinApart DEF LeaseInv, QueuedOnce
  <2>4. QueuedOnce'
    BY <2>1, <2>3 DEF LeaseInv, QueuedOnce
  <2>5. Unannounced'
    BY <2>1, <2>3 DEF LeaseInv, Unannounced
  <2>6. LeasesHeld'
    BY <2>1, <2>3 DEF LeaseInv, LeasesHeld, Leased
  <2>7. ExclusiveWithinTimeout'
    BY <2>1 DEF LeaseInv, ExclusiveWithinTimeout
  <2> QED  BY <2>4, <2>5, <2>6, <2>7
<1>4. ASSUME NEW w \in Workers, GetStale(w)
      PROVE  QueuedOnce' /\ Unannounced' /\ LeasesHeld' /\ ExclusiveWithinTimeout'
  <2> DEFINE x == processing[1]
             q == Tail(processing)
  <2>1. /\ processing # <<>> /\ at[w] = "ready" /\ Receive(w, Head(processing))
        /\ processing' = Append(q, Stamped(Head(processing)))
        /\ Head(processing).left = 0 /\ idle' = idle /\ pool' = pool
    BY <1>4 DEF GetStale, Ripe
  <2>2. /\ Head(processing) = x /\ x \in Task /\ 1 \in DOMAIN processing
        /\ q \in Seq(Task) /\ Thin(q, processing)
        /\ \A i \in DOMAIN q : i + 1 \in DOMAIN processing /\ q[i] = processing[i + 1]
    BY <1>0, <2>1, TailFacts, ThinTail
  <2>3. /\ AllApart(q) /\ BothApart(idle, q)
        /\ \A i \in DOMAIN q : \E j \in DOMAIN processing : q[i] = processing[j]
    BY <2>2, ThinApart DEF LeaseInv, QueuedOnce
  <2>4. \A i \in DOMAIN q : Apart(q[i], x) /\ q[i].left \in Nat
    <3> TAKE i \in DOMAIN q
    <3>1. i + 1 \in DOMAIN processing /\ i + 1 # 1 /\ q[i] = processing[i + 1]
      BY <1>0, <2>1, <2>2
    <3> QED  BY <2>2, <3>1 DEF LeaseInv, LeasesHeld, QueuedOnce, AllApart
  <2>5. \A i \in DOMAIN idle : Apart(idle[i], x)
    BY <2>2 DEF LeaseInv, QueuedOnce, BothApart
  <2>6. x.files \cap pool = {}
    BY <2>2 DEF LeaseInv, Unannounced
  <2>7. ASSUME NEW v \in Workers, at[v] # "ready"
        PROVE  \/ x.files \cap job[v].files = {} /\ x.id # job[v].id
               \/ x.id = job[v].id /\ x.files = job[v].files /\ held[v] = Timeout
    <3>1. Leased(v, x)
      BY <2>2, <2>7 DEF LeaseInv, LeasesHeld
    <3>2. x.left = 0 /\ held[v] \in 0 .. Timeout /\ Timeout \in Nat
      BY <2>1, <2>2, TaskQueueAssumption DEF LeaseInv, TypeOK
    <3>3. CASE x.id = job[v].id
      BY <3>1, <3>2, <3>3 DEF Leased
    <3>4. CASE x.id # job[v].id
      BY <3>1, <3>4 DEF Leased
    <3> QED  BY <3>3, <3>4
  <2>8. Receive(w, x) /\ processing' = Append(q, Stamped(x))
    BY <2>1, <2>2
  <2> HIDE DEF x, q
  <2>9. AllApart(processing') /\ Unannounced' /\ LeasesHeld' /\ ExclusiveWithinTimeout'
    BY <1>0, <2>1, <2>2, <2>3, <2>4, <2>5, <2>6, <2>7, <2>8, HandOut
  <2>10. BothApart(idle, processing')
    <3>1. \A j \in DOMAIN processing' :
            \/ j \in DOMAIN q /\ processing'[j] = q[j]
            \/ processing'[j].id = x.id /\ processing'[j].files = x.files
      <4>1. Stamped(x) \in Task /\ Stamped(x).id = x.id /\ Stamped(x).files = x.files
        BY <2>2, TaskQueueAssumption DEF Stamped, Task
      <4> QED  BY <2>2, <2>8, <4>1, AppendFacts
    <3> QED  BY <2>3, <2>5, <3>1 DEF BothApart, Apart
  <2>11. AllApart(idle)
    BY DEF LeaseInv, QueuedOnce
  <2> QED  BY <2>1, <2>9, <2>10, <2>11 DEF QueuedOnce
<1>5. ASSUME NEW w \in Workers, Finish(w) \/ Die(w)
      PROVE  QueuedOnce' /\ Unannounced' /\ LeasesHeld' /\ ExclusiveWithinTimeout'
  <2>1. /\ at[w] # "ready" /\ job'[w] = IF at'[w] = "ready" THEN NoJob ELSE job[w]
        /\ \A v \in Workers : v # w => job'[v] = job[v] /\ at'[v] = at[v]
        /\ UNCHANGED <<pool, idle, held>>
    BY <1>0, <1>5 DEF Finish, FinishScan, FinishRemove, FinishFails, Die, Reported, TypeOK
  <2>2. Thin(processing, processing)
    <3> DEFINE g == [i \in DOMAIN processing |-> i]
    <3>1. /\ g \in [DOMAIN processing -> DOMAIN processing]
          /\ \A i, j \in DOMAIN processing : i # j => g[i] # g[j]
          /\ \A i \in DOMAIN processing : processing[i] = processing[g[i]]
      OBVIOUS
    <3> QED  BY <3>1 DEF Thin
  <2>3. processing' \in {processing, Removed(w)}
    BY <1>5 DEF Finish, FinishScan, FinishRemove, FinishFails, Die
  <2>4. Thin(processing', processing)
    BY <1>0, <2>2, <2>3, RemovedFacts
  <2> QED  BY <2>1, <2>4, Thinned
<1>6. ASSUME Tick
      PROVE  QueuedOnce' /\ Unannounced' /\ LeasesHeld' /\ ExclusiveWithinTimeout'
  <2>1. /\ DOMAIN idle' = DOMAIN idle /\ DOMAIN processing' = DOMAIN processing
        /\ \A i \in DOMAIN idle : idle'[i].id = idle[i].id /\ idle'[i].files = idle[i].files
        /\ \A i \in DOMAIN processing :
             /\ processing'[i].id = processing[i].id
             /\ processing'[i].files = processing[i].files
             /\ processing'[i].left = IF processing[i].left \in {0, NoTime} THEN processing[i].left
                                      ELSE processing[i].left - 1
    BY <1>0, <1>6, OlderFacts DEF Tick
  <2>2. /\ UNCHANGED <<pool, at, job>>
        /\ \A w \in Workers : held'[w] = IF held[w] < Timeout THEN held[w] + 1 ELSE Timeout
    BY <1>6 DEF Tick
  <2>3. Timeout \in Nat /\ \A w \in Workers : held[w] \in 0 .. Timeout
    BY <1>0, TaskQueueAssumption DEF TypeOK
  <2>4. QueuedOnce'
    BY <2>1 DEF LeaseInv, QueuedOnce, AllApart, BothApart, Apart
  <2>5. Unannounced'
    BY <2>1, <2>2 DEF LeaseInv, Unannounced
  <2>6. LeasesHeld'
    <3>1. ASSUME NEW i \in DOMAIN processing
          PROVE  processing[i].left \in Nat /\ processing'[i].left \in Nat
                 /\ processing'[i].left >= processing[i].left - 1
                 /\ (processing[i].left = 0 => processing'[i].left = 0)
      <4>1. processing[i].left \in Nat
        BY DEF LeaseInv, LeasesHeld
      <4>2. processing[i].left # NoTime
        BY <4>1, TaskQueueAssumption
      <4> QED  BY <2>1, <4>1, <4>2
    <3>2. ASSUME NEW w \in Workers, at[w] # "ready", NEW i \in DOMAIN processing
          PROVE  Leased(w, processing[i])'
      <4>1. Leased(w, processing[i])
        BY <3>2 DEF LeaseInv, LeasesHeld
      <4>2. CASE processing[i].id = job[w].id
        <5>1. processing[i].files = job[w].files /\ held[w] + processing[i].left >= Timeout
          BY <4>1, <4>2 DEF Leased
        <5>2. held'[w] + processing'[i].left >= Timeout
          BY <2>2, <2>3, <3>1, <5>1
        <5> QED  BY <2>1, <2>2, <4>2, <5>1, <5>2 DEF Leased
      <4>3. CASE processing[i].id # job[w].id
        BY <2>1, <2>2, <4>1, <4>3 DEF Leased
      <4> QED  BY <4>2, <4>3
    <3> QED  BY <2>1, <2>2, <3>1, <3>2 DEF LeaseInv, LeasesHeld, Apart
  <2>7. ExclusiveWithinTimeout'
    BY <2>2, <2>3 DEF LeaseInv, ExclusiveWithinTimeout
  <2> QED  BY <2>4, <2>5, <2>6, <2>7
<1>7. CASE UNCHANGED vars
  BY <1>7 DEF vars, workerVars, LeaseInv, QueuedOnce, AllApart, BothApart, Apart,
              Unannounced, LeasesHeld, Leased, ExclusiveWithinTimeout
<1> QED  BY <1>1, <1>2, <1>3, <1>4, <1>5, <1>6, <1>7 DEF Next, Get

\* The initial states satisfy it: no list has a task.
LEMMA LeaseInit == Init => LeaseInv
BY TypeInit DEF Init, LeaseInv, QueuedOnce, AllApart, BothApart, Unannounced, LeasesHeld,
                ExclusiveWithinTimeout, NoJob

\* No two workers work on the same file unless one of them has had it for the
\* whole timeout, for any number of workers, files and deaths.
THEOREM SharedOnlyAfterTimeout == Spec => []ExclusiveWithinTimeout
<1>1. Init => LeaseInv
  BY LeaseInit
<1>2. LeaseInv /\ [Next]_vars => LeaseInv'
  BY LeaseStep
<1>3. LeaseInv => ExclusiveWithinTimeout
  BY DEF LeaseInv
<1> QED  BY <1>1, <1>2, <1>3, PTL DEF Spec

-----------------------------------------------------------------------------
(* No file is lost, and a task reported in time is gone.                   *)

\* An untimed task, which the script loses, has no file with a time; tasks that
\* collect files have a time; and a worker reports what it has done.
LossInv ==
  /\ \A i \in DOMAIN idle : idle[i].left = NoTime => idle[i].files \cap Timed = {}
  /\ queue.maxPlan > 0 => \A i \in DOMAIN idle : idle[i].left # NoTime
  /\ \A w \in Workers : at[w] = "scanned" => job[w].files \subseteq processed
  /\ NoFileLost

\* No idle task has been finished, and LREM finds the task of a worker unless it
\* has been handed out again.
FinishInv ==
  /\ \A i \in DOMAIN idle : idle[i].id \notin finished
  /\ \A w \in Workers :
       at[w] = "scanned" => queue.known /\ (fresh[w] \/ job[w].id \in redelivered)
  /\ FinishedOnTime

\* NoFileLost in terms of the positions in the lists.
LEMMA NoFileLostByIndex ==
  NoFileLost <=>
    \A f \in Timed \ pool :
      \/ f \in processed
      \/ \E i \in DOMAIN idle : f \in idle[i].files
      \/ \E i \in DOMAIN processing : f \in processing[i].files
BY Zenon DEF NoFileLost, Items, ToSet

\* FinishedOnTime in terms of the positions in the lists.
LEMMA FinishedOnTimeByIndex ==
  FinishedOnTime <=>
    (queue.known =>
      /\ \A i \in DOMAIN idle : idle[i].id \in finished => idle[i].id \in redelivered
      /\ \A i \in DOMAIN processing :
           processing[i].id \in finished => processing[i].id \in redelivered)
BY Zenon DEF FinishedOnTime, Items, ToSet

\* LREM with the string that is in the list leaves no task of this id.
LEMMA RemovedFresh ==
  ASSUME TypeOK, QueuedOnce, NEW w \in Workers, fresh[w], NEW i \in DOMAIN Removed(w)
  PROVE  Removed(w)[i].id # job[w].id
<1>1. processing \in Seq(Task)
  BY DEF TypeOK
<1>2. CASE \E k \in DOMAIN processing : processing[k].id = job[w].id
  <2> DEFINE k == CHOOSE n \in DOMAIN processing : processing[n].id = job[w].id
  <2>1. /\ k \in DOMAIN processing /\ processing[k].id = job[w].id
        /\ Removed(w) = RemoveAt(processing, k)
    BY <1>2 DEF Removed
  <2> HIDE DEF k
  <2>2. /\ i \in 1 .. Len(processing) - 1
        /\ Removed(w)[i] = processing[IF i < k THEN i ELSE i + 1]
    BY <1>1, <2>1, RemoveAtFacts
  <2>3. PICK j \in DOMAIN processing : j # k /\ Removed(w)[i] = processing[j]
    <3>1. DOMAIN processing = 1 .. Len(processing) /\ Len(processing) \in Nat
      BY <1>1
    <3>2. CASE i < k
      BY <2>1, <2>2, <3>1, <3>2
    <3>3. CASE ~(i < k)
      BY <2>1, <2>2, <3>1, <3>3
    <3> QED  BY <3>2, <3>3
  <2> QED  BY <2>1, <2>3 DEF QueuedOnce, AllApart, Apart
<1>3. CASE ~\E k \in DOMAIN processing : processing[k].id = job[w].id
  BY <1>3 DEF Removed
<1> QED  BY <1>2, <1>3

\* How the lists change when the script hands out the head of one of them.
LEMMA HeadMoves ==
  ASSUME NEW q \in Seq(Task), NEW p \in Seq(Task), q # <<>>
  PROVE  /\ \A i \in DOMAIN q : \/ \E j \in DOMAIN Tail(q) : Tail(q)[j] = q[i]
                                \/ q[i] = Head(q)
         /\ \A j \in DOMAIN Tail(q) : \E i \in DOMAIN q : Tail(q)[j] = q[i]
         /\ Head(q) \in Task /\ \E i \in DOMAIN q : q[i] = Head(q)
         /\ Stamped(Head(q)).id = Head(q).id /\ Stamped(Head(q)).files = Head(q).files
         /\ \A i \in DOMAIN p : \E j \in DOMAIN Append(p, Stamped(Head(q))) :
              Append(p, Stamped(Head(q)))[j] = p[i]
         /\ \E j \in DOMAIN Append(p, Stamped(Head(q))) :
              Append(p, Stamped(Head(q)))[j] = Stamped(Head(q))
         /\ \A j \in DOMAIN Append(p, Stamped(Head(q))) :
              \/ \E i \in DOMAIN p : Append(p, Stamped(Head(q)))[j] = p[i]
              \/ Append(p, Stamped(Head(q)))[j] = Stamped(Head(q))
<1>1. /\ Head(q) \in Task /\ Head(q) = q[1] /\ 1 \in DOMAIN q
      /\ \A i \in DOMAIN Tail(q) : i + 1 \in DOMAIN q /\ Tail(q)[i] = q[i + 1]
      /\ \A j \in DOMAIN q : j # 1 => j - 1 \in DOMAIN Tail(q)
  BY TailFacts
<1>2. \A i \in DOMAIN q : i = 1 \/ Tail(q)[i - 1] = q[i]
  <2> TAKE i \in DOMAIN q
  <2>1. i \in Nat /\ (i - 1) + 1 = i
    OBVIOUS
  <2> QED  BY <1>1, <2>1
<1>3. Stamped(Head(q)) \in Task /\ Stamped(Head(q)).id = Head(q).id /\ Stamped(Head(q)).files = Head(q).files
  BY <1>1, TaskQueueAssumption DEF Stamped, Task
<1> DEFINE x == Stamped(Head(q))
<1>4. x \in Task
  BY <1>3
<1> HIDE DEF x
<1>5. /\ DOMAIN Append(p, x) = DOMAIN p \cup {Len(p) + 1}
      /\ \A i \in DOMAIN p : Append(p, x)[i] = p[i]
      /\ Append(p, x)[Len(p) + 1] = x
  BY <1>4, AppendFacts
<1>6. /\ \A i \in DOMAIN p : \E j \in DOMAIN Append(p, x) : Append(p, x)[j] = p[i]
      /\ \E j \in DOMAIN Append(p, x) : Append(p, x)[j] = x
      /\ \A j \in DOMAIN Append(p, x) :
           \/ \E i \in DOMAIN p : Append(p, x)[j] = p[i]
           \/ Append(p, x)[j] = x
  BY <1>5
<1>7. /\ \A i \in DOMAIN q : (\E j \in DOMAIN Tail(q) : Tail(q)[j] = q[i]) \/ q[i] = Head(q)
      /\ \A j \in DOMAIN Tail(q) : \E i \in DOMAIN q : Tail(q)[j] = q[i]
  BY <1>1, <1>2
<1>8. \E i \in DOMAIN q : q[i] = Head(q)
  BY <1>1
<1> QED  BY <1>1, <1>3, <1>6, <1>7, <1>8 DEF x

\* Every file with a time stays in a list or has been processed.
LEMMA LossStep ==
  ASSUME LeaseInv, LossInv, [Next]_vars
  PROVE  LossInv'
<1>0. /\ TypeOK /\ idle \in Seq(Task) /\ processing \in Seq(Task) /\ made \in Nat
      /\ \A i \in DOMAIN idle : idle[i] \in Task
  <2>1. TypeOK /\ idle \in Seq(Task) /\ processing \in Seq(Task) /\ made \in Nat
    BY DEF LeaseInv, TypeOK
  <2> QED  BY <2>1
<1> DEFINE Placed(f) == \/ f \in processed
                        \/ \E i \in DOMAIN idle : f \in idle[i].files
                        \/ \E i \in DOMAIN processing : f \in processing[i].files
           UntimedIdle == /\ \A i \in DOMAIN idle : idle[i].left = NoTime => idle[i].files \cap Timed = {}
                          /\ queue.maxPlan > 0 => \A i \in DOMAIN idle : idle[i].left # NoTime
           ScannedDone == \A w \in Workers : at[w] = "scanned" => job[w].files \subseteq processed
           AllPlaced == \A f \in Timed \ pool : Placed(f)
<1>00. UntimedIdle /\ ScannedDone /\ AllPlaced
  BY NoFileLostByIndex DEF LossInv
<1> SUFFICES (UntimedIdle /\ ScannedDone /\ AllPlaced)'
  <2>1. (NoFileLost <=> AllPlaced)'
    BY NoFileLostByIndex, PTL
  <2> QED  BY <2>1 DEF LossInv
<1>q. queue' = queue /\ Timed' = Timed
  BY DEF Next, Get, Finish, AddFile, GetIdle, GetUntimed, GetStale, FinishScan, FinishRemove,
         FinishFails, Die, Tick, vars, Timed
<1>1. ASSUME NEW f \in Files, AddFile(f)
      PROVE  (UntimedIdle /\ ScannedDone /\ AllPlaced)'
  <2>1. /\ pool' = pool \ {f} /\ processing' = processing /\ processed' = processed
        /\ job' = job /\ at' = at
    BY <1>1 DEF AddFile, workerVars, historyVars
  <2>2. /\ \/ /\ queue.maxPlan > 0
              /\ \A i \in DOMAIN idle' : i \in DOMAIN idle /\ idle'[i].left = idle[i].left
           \/ \A i \in DOMAIN idle' :
                \/ i \in DOMAIN idle /\ idle'[i] = idle[i]
                \/ idle'[i].left = queue.delay[f] /\ idle'[i].files = {f}
        /\ \A i \in DOMAIN idle : i \in DOMAIN idle' /\ idle[i].files \subseteq idle'[i].files
        /\ \E i \in DOMAIN idle' : f \in idle'[i].files
    <3>1. CASE made' = made
      <4>1. made' # made + 1
        BY <1>0, <3>1
      <4>2. /\ DOMAIN idle' = DOMAIN idle /\ queue.maxPlan > 0
            /\ Len(idle) \in DOMAIN idle
            /\ \A i \in DOMAIN idle :
                 /\ idle'[i].left = idle[i].left
                 /\ idle'[i].files = IF i = Len(idle) THEN idle[i].files \cup {f} ELSE idle[i].files
        BY <1>0, <1>1, <4>1, AddFileFacts, Zenon
      <4> QED  BY <4>2
    <3>2. CASE made' # made
      <4>1. /\ DOMAIN idle' = DOMAIN idle \cup {Len(idle) + 1}
            /\ Len(idle) + 1 \notin DOMAIN idle
            /\ \A i \in DOMAIN idle : idle'[i] = idle[i]
            /\ idle'[Len(idle) + 1] = [id |-> made + 1, files |-> {f}, left |-> queue.delay[f]]
        BY <1>0, <1>1, <3>2, AddFileFacts
      <4>2. idle'[Len(idle) + 1].left = queue.delay[f] /\ idle'[Len(idle) + 1].files = {f}
        BY <4>1
      <4> HIDE <4>1
      <4>3. /\ DOMAIN idle' = DOMAIN idle \cup {Len(idle) + 1}
            /\ \A i \in DOMAIN idle : idle'[i] = idle[i]
        BY <4>1
      <4> QED  BY <4>2, <4>3
    <3> QED  BY <3>1, <3>2
  <2>3. queue.maxPlan > 0 => queue.delay[f] # NoTime
    BY <1>0, TaskQueueAssumption DEF TypeOK
  <2>4. queue.delay[f] = NoTime => f \notin Timed
    BY DEF Timed
  <2>5. UntimedIdle'
    <3>1. CASE queue.maxPlan > 0
      BY <1>00, <1>q, <2>2, <2>3, <3>1
    <3>2. CASE ~(queue.maxPlan > 0)
      BY <1>00, <1>q, <2>2, <2>4, <3>2
    <3> QED  BY <3>1, <3>2
  <2>6. ScannedDone'
    BY <1>00, <2>1
  <2>7. AllPlaced'
    BY <1>00, <1>q, <2>1, <2>2
  <2> QED  BY <2>5, <2>6, <2>7
<1>2. ASSUME NEW w \in Workers, GetIdle(w)
      PROVE  (UntimedIdle /\ ScannedDone /\ AllPlaced)'
  <2>1. /\ idle # <<>> /\ Receive(w, Head(idle)) /\ idle' = Tail(idle)
        /\ processing' = Append(processing, Stamped(Head(idle)))
        /\ pool' = pool /\ processed' = processed
    BY <1>2 DEF GetIdle, Ripe, historyVars
  <2>2. /\ \A i \in DOMAIN idle : (\E j \in DOMAIN idle' : idle'[j] = idle[i]) \/ idle[i] = Head(idle)
        /\ \A j \in DOMAIN idle' : \E i \in DOMAIN idle : idle'[j] = idle[i]
        /\ Stamped(Head(idle)).files = Head(idle).files
        /\ \A i \in DOMAIN processing : \E j \in DOMAIN processing' : processing'[j] = processing[i]
        /\ \E j \in DOMAIN processing' : processing'[j] = Stamped(Head(idle))
    BY <1>0, <2>1, HeadMoves
  <2>3. UntimedIdle'
    BY <1>00, <1>q, <2>2
  <2>4. ScannedDone'
    BY <1>0, <1>00, <2>1 DEF Receive, TypeOK
  <2>5. AllPlaced'
    BY <1>00, <1>q, <2>1, <2>2
  <2> QED  BY <2>3, <2>4, <2>5
<1>3. ASSUME NEW w \in Workers, GetUntimed(w)
      PROVE  (UntimedIdle /\ ScannedDone /\ AllPlaced)'
  <2>1. /\ idle # <<>> /\ Head(idle).left = NoTime /\ idle' = Tail(idle)
        /\ UNCHANGED <<pool, processing, processed, at, job>>
    BY <1>3 DEF GetUntimed, Untimed, workerVars, historyVars
  <2>2. /\ \A i \in DOMAIN idle : (\E j \in DOMAIN idle' : idle'[j] = idle[i]) \/ idle[i] = Head(idle)
        /\ \A j \in DOMAIN idle' : \E i \in DOMAIN idle : idle'[j] = idle[i]
        /\ \E i \in DOMAIN idle : idle[i] = Head(idle)
    BY <1>0, <2>1, HeadMoves
  <2>3. Head(idle).files \cap Timed = {}
    BY <1>00, <2>1, <2>2
  <2>4. UntimedIdle' /\ ScannedDone'
    BY <1>00, <1>q, <2>1, <2>2
  <2>5. AllPlaced'
    BY <1>00, <1>q, <2>1, <2>2, <2>3
  <2> QED  BY <2>4, <2>5
<1>4. ASSUME NEW w \in Workers, GetStale(w)
      PROVE  (UntimedIdle /\ ScannedDone /\ AllPlaced)'
  <2>1. /\ processing # <<>> /\ Receive(w, Head(processing)) /\ Tail(processing) \in Seq(Task)
        /\ processing' = Append(Tail(processing), Stamped(Head(processing)))
        /\ pool' = pool /\ processed' = processed /\ idle' = idle
    BY <1>0, <1>4, TailFacts DEF GetStale, Ripe
  <2>2. /\ \A i \in DOMAIN processing :
              (\E j \in DOMAIN Tail(processing) : Tail(processing)[j] = processing[i])
              \/ processing[i] = Head(processing)
        /\ Stamped(Head(processing)).files = Head(processing).files
        /\ \A i \in DOMAIN Tail(processing) :
              \E j \in DOMAIN processing' : processing'[j] = Tail(processing)[i]
        /\ \E j \in DOMAIN processing' : processing'[j] = Stamped(Head(processing))
    BY <1>0, <2>1, HeadMoves
  <2>3. \A i \in DOMAIN processing :
          \E j \in DOMAIN processing' : processing'[j].files = processing[i].files
    BY <2>2, Zenon
  <2>4. UntimedIdle'
    BY <1>00, <1>q, <2>1
  <2>5. ScannedDone'
    BY <1>0, <1>00, <2>1 DEF Receive, TypeOK
  <2>6. AllPlaced'
    <3>1. \A f : (\E i \in DOMAIN processing : f \in processing[i].files)
                  => \E j \in DOMAIN processing' : f \in processing'[j].files
      BY <2>3, Zenon
    <3> QED  BY <1>00, <1>q, <2>1, <3>1
  <2> QED  BY <2>4, <2>5, <2>6
<1>5. ASSUME NEW w \in Workers, Finish(w) \/ Die(w)
      PROVE  (UntimedIdle /\ ScannedDone /\ AllPlaced)'
  <2>1. /\ at[w] # "ready" /\ processed \subseteq processed'
        /\ processing' = processing \/ (at[w] = "scanned" /\ processing' = Removed(w))
        /\ at'[w] = "scanned" => job'[w] = job[w] /\ job[w].files \subseteq processed'
        /\ \A v \in Workers : v # w => job'[v] = job[v] /\ at'[v] = at[v]
        /\ UNCHANGED <<pool, idle>>
    BY <1>0, <1>5 DEF Finish, FinishScan, FinishRemove, FinishFails, Die, Reported, TypeOK, historyVars
  <2>2. ASSUME NEW j \in DOMAIN processing, NEW f \in processing[j].files
        PROVE  f \in processed' \/ \E i \in DOMAIN processing' : f \in processing'[i].files
    <3>1. CASE processing' = processing
      BY <3>1
    <3>2. CASE processing' # processing
      <4>1. at[w] = "scanned" /\ processing' = Removed(w)
        BY <2>1, <3>2
      <4>2. CASE processing[j].id = job[w].id
        <5>1. processing[j].files = job[w].files
          BY <2>1, <4>2 DEF LeaseInv, LeasesHeld, Leased
        <5> QED  BY <1>00, <2>1, <4>1, <5>1
      <4>3. CASE processing[j].id # job[w].id
        BY <1>0, <4>1, <4>3, RemovedFacts
      <4> QED  BY <4>2, <4>3
    <3> QED  BY <3>1, <3>2
  <2>3. UntimedIdle' /\ ScannedDone'
    BY <1>00, <1>q, <2>1
  <2>4. AllPlaced'
    BY <1>00, <1>q, <2>1, <2>2
  <2> QED  BY <2>3, <2>4
<1>6. ASSUME Tick
      PROVE  (UntimedIdle /\ ScannedDone /\ AllPlaced)'
  <2>1. /\ DOMAIN idle' = DOMAIN idle /\ DOMAIN processing' = DOMAIN processing
        /\ \A i \in DOMAIN idle :
             /\ idle'[i].files = idle[i].files
             /\ idle'[i].left = IF idle[i].left \in {0, NoTime} THEN idle[i].left
                                ELSE idle[i].left - 1
        /\ \A i \in DOMAIN processing : processing'[i].files = processing[i].files
    BY <1>0, <1>6, OlderFacts DEF Tick
  <2>2. UNCHANGED <<pool, at, job, processed>>
    BY <1>6 DEF Tick, historyVars
  <2>3. ASSUME NEW i \in DOMAIN idle
        PROVE  idle'[i].left = NoTime <=> idle[i].left = NoTime
    <3>1. idle[i].left \in Nat \cup {NoTime}
      BY <1>0 DEF Task
    <3> QED  BY <2>1, <3>1, TaskQueueAssumption
  <2>4. UntimedIdle'
    BY <1>00, <1>q, <2>1, <2>3
  <2>5. ScannedDone' /\ AllPlaced'
    BY <1>00, <1>q, <2>1, <2>2
  <2> QED  BY <2>4, <2>5
<1>7. CASE UNCHANGED vars
  BY <1>00, <1>q, <1>7 DEF vars, workerVars, historyVars
<1> QED  BY <1>1, <1>2, <1>3, <1>4, <1>5, <1>6, <1>7 DEF Next, Get

\* No file that was announced with a time is lost before a worker has done its
\* task: neither a death nor a failed command, in any order, loses it.
THEOREM NothingLost == Spec => []NoFileLost
<1>1. Init => LeaseInv /\ LossInv
  BY LeaseInit, NoFileLostByIndex DEF Init, LossInv, Timed
<1>2. LeaseInv /\ LossInv /\ [Next]_vars => LeaseInv' /\ LossInv'
  BY LeaseStep, LossStep
<1>3. LossInv => NoFileLost
  BY DEF LossInv
<1> QED  BY <1>1, <1>2, <1>3, PTL DEF Spec

\* A worker that reports its task in time removes it.
LEMMA FinishStep ==
  ASSUME LeaseInv, FinishInv, [Next]_vars
  PROVE  FinishInv'
<1>0. /\ TypeOK /\ QueuedOnce /\ idle \in Seq(Task) /\ processing \in Seq(Task) /\ made \in Nat
      /\ finished \subseteq 1 .. made
  BY DEF LeaseInv, TypeOK
<1> DEFINE IdleUnfinished == \A i \in DOMAIN idle : idle[i].id \notin finished
           ScannedFound == \A w \in Workers :
             at[w] = "scanned" => queue.known /\ (fresh[w] \/ job[w].id \in redelivered)
           Gone == queue.known => \A i \in DOMAIN processing :
                     processing[i].id \in finished => processing[i].id \in redelivered
<1>00. IdleUnfinished /\ ScannedFound /\ Gone
  BY FinishedOnTimeByIndex DEF FinishInv
<1> SUFFICES (IdleUnfinished /\ ScannedFound /\ Gone)'
  <2>1. (FinishedOnTime <=>
          (queue.known =>
            /\ \A i \in DOMAIN idle : idle[i].id \in finished => idle[i].id \in redelivered
            /\ \A i \in DOMAIN processing :
                 processing[i].id \in finished => processing[i].id \in redelivered))'
    BY FinishedOnTimeByIndex, PTL
  <2> QED  BY <2>1 DEF FinishInv
<1>q. queue' = queue
  BY DEF Next, Get, Finish, AddFile, GetIdle, GetUntimed, GetStale, FinishScan, FinishRemove,
         FinishFails, Die, Tick, vars
<1>1. ASSUME NEW f \in Files, AddFile(f)
      PROVE  (IdleUnfinished /\ ScannedFound /\ Gone)'
  <2>1. UNCHANGED <<processing, job, at, fresh, finished, redelivered>>
    BY <1>1 DEF AddFile, workerVars, historyVars
  <2>2. IdleUnfinished'
    <3>1. CASE made' = made
      <4>1. made' # made + 1
        BY <1>0, <3>1
      <4>2. /\ DOMAIN idle' = DOMAIN idle
            /\ \A i \in DOMAIN idle : idle'[i].id = idle[i].id
        BY <1>0, <1>1, <4>1, AddFileFacts, Zenon
      <4> QED  BY <1>00, <2>1, <4>2
    <3>2. CASE made' # made
      <4>1. /\ DOMAIN idle' = DOMAIN idle \cup {Len(idle) + 1}
            /\ \A i \in DOMAIN idle : idle'[i] = idle[i]
            /\ idle'[Len(idle) + 1] = [id |-> made + 1, files |-> {f}, left |-> queue.delay[f]]
        BY <1>0, <1>1, <3>2, AddFileFacts
      <4>2. idle'[Len(idle) + 1].id \notin finished
        BY <1>0, <4>1
      <4> QED  BY <1>00, <2>1, <4>1, <4>2
    <3> QED  BY <3>1, <3>2
  <2> QED  BY <1>00, <1>q, <2>1, <2>2
<1>2. ASSUME NEW w \in Workers, GetIdle(w)
      PROVE  (IdleUnfinished /\ ScannedFound /\ Gone)'
  <2>1. /\ idle # <<>> /\ Receive(w, Head(idle)) /\ idle' = Tail(idle)
        /\ processing' = Append(processing, Stamped(Head(idle)))
        /\ UNCHANGED <<fresh, finished, redelivered>>
    BY <1>2 DEF GetIdle, Ripe, historyVars
  <2>2. /\ \A j \in DOMAIN idle' : \E i \in DOMAIN idle : idle'[j] = idle[i]
        /\ \E i \in DOMAIN idle : idle[i] = Head(idle)
        /\ Stamped(Head(idle)).id = Head(idle).id
        /\ \A j \in DOMAIN processing' : \/ \E i \in DOMAIN processing : processing'[j] = processing[i]
                                        \/ processing'[j] = Stamped(Head(idle))
    BY <1>0, <2>1, HeadMoves
  <2>3. IdleUnfinished' /\ Gone'
    BY <1>00, <1>q, <2>1, <2>2
  <2>4. ScannedFound'
    BY <1>0, <1>00, <1>q, <2>1 DEF Receive, TypeOK
  <2> QED  BY <2>3, <2>4
<1>3. ASSUME NEW w \in Workers, GetUntimed(w)
      PROVE  (IdleUnfinished /\ ScannedFound /\ Gone)'
  <2>1. /\ idle # <<>> /\ idle' = Tail(idle)
        /\ UNCHANGED <<processing, job, at, fresh, finished, redelivered>>
    BY <1>3 DEF GetUntimed, Untimed, workerVars, historyVars
  <2>2. \A j \in DOMAIN idle' : \E i \in DOMAIN idle : idle'[j] = idle[i]
    BY <1>0, <2>1, HeadMoves
  <2> QED  BY <1>00, <1>q, <2>1, <2>2
<1>4. ASSUME NEW w \in Workers, GetStale(w)
      PROVE  (IdleUnfinished /\ ScannedFound /\ Gone)'
  <2> DEFINE x == Head(processing)
  <2>1. /\ processing # <<>> /\ Receive(w, x) /\ Tail(processing) \in Seq(Task)
        /\ processing' = Append(Tail(processing), Stamped(x))
        /\ fresh' = [v \in Workers |-> fresh[v] /\ job[v].id # x.id]
        /\ redelivered' = redelivered \cup {x.id}
        /\ UNCHANGED <<idle, finished>>
    BY <1>0, <1>4, TailFacts DEF GetStale, Ripe
  <2>2. /\ \A i \in DOMAIN Tail(processing) :
              \E j \in DOMAIN processing : Tail(processing)[i] = processing[j]
        /\ Stamped(x).id = x.id
        /\ \A j \in DOMAIN processing' :
              \/ \E i \in DOMAIN Tail(processing) : processing'[j] = Tail(processing)[i]
              \/ processing'[j] = Stamped(x)
    BY <1>0, <2>1, HeadMoves
  <2> HIDE DEF x
  <2>3. IdleUnfinished' /\ Gone'
    BY <1>00, <1>q, <2>1, <2>2
  <2>4. ScannedFound'
    <3>1. at' = [at EXCEPT ![w] = "working"] /\ \A v \in Workers : v # w => job'[v] = job[v]
      BY <1>0, <2>1 DEF Receive, TypeOK
    <3>2. ASSUME NEW v \in Workers, at'[v] = "scanned"
          PROVE  queue'.known /\ (fresh'[v] \/ job'[v].id \in redelivered')
      <4>1. v # w /\ at[v] = "scanned" /\ job'[v] = job[v]
        BY <1>0, <3>1, <3>2 DEF TypeOK
      <4>2. queue.known /\ (fresh[v] \/ job[v].id \in redelivered)
        BY <1>00, <4>1
      <4>3. fresh'[v] <=> fresh[v] /\ job[v].id # x.id
        BY <2>1
      <4> QED  BY <1>q, <2>1, <4>1, <4>2, <4>3, Zenon
    <3> QED  BY <3>2
  <2> QED  BY <2>3, <2>4
<1>5. ASSUME NEW w \in Workers, FinishScan(w)
      PROVE  (IdleUnfinished /\ ScannedFound /\ Gone)'
  <2>1. UNCHANGED <<idle, processing, redelivered>> /\ at[w] = "working"
    BY <1>5 DEF FinishScan
  <2>2. CASE queue.known /\ \E item \in ToSet(processing) : item.id = job[w].id
    <3>1. /\ at' = [at EXCEPT ![w] = "scanned"] /\ fresh' = [fresh EXCEPT ![w] = TRUE]
          /\ UNCHANGED <<job, finished>>
      BY <1>5, <2>2 DEF FinishScan
    <3>2. ScannedFound'
      BY <1>0, <1>00, <1>q, <2>1, <2>2, <3>1 DEF TypeOK
    <3> QED  BY <1>00, <1>q, <2>1, <3>1, <3>2
  <2>3. CASE ~(queue.known /\ \E item \in ToSet(processing) : item.id = job[w].id)
    <3>1. Reported(w)
      BY <1>5, <2>3 DEF FinishScan
    <3>2. IdleUnfinished'
      BY <1>0, <1>00, <2>1, <3>1 DEF Reported, LeaseInv, LeasesHeld, Apart
    <3>3. ScannedFound'
      BY <1>0, <1>00, <1>q, <2>1, <3>1 DEF Reported, TypeOK
    <3>4. Gone'
      BY <1>0, <1>00, <1>q, <2>1, <2>3, <3>1 DEF Reported, ToSet
    <3> QED  BY <3>2, <3>3, <3>4
  <2> QED  BY <2>2, <2>3
<1>6. ASSUME NEW w \in Workers, FinishRemove(w)
      PROVE  (IdleUnfinished /\ ScannedFound /\ Gone)'
  <2>1. /\ at[w] = "scanned" /\ processing' = Removed(w) /\ Reported(w)
        /\ UNCHANGED <<idle, redelivered>>
    BY <1>6 DEF FinishRemove
  <2>2. IdleUnfinished'
    BY <1>0, <1>00, <2>1 DEF Reported, LeaseInv, LeasesHeld, Apart
  <2>3. ScannedFound'
    BY <1>0, <1>00, <1>q, <2>1 DEF Reported, TypeOK
  <2>4. Gone'
    <3>1. \A i \in DOMAIN processing' : \E j \in DOMAIN processing : processing'[i] = processing[j]
      BY <1>0, <2>1, RemovedFacts, ThinApart
    <3>2. fresh[w] => \A i \in DOMAIN processing' : processing'[i].id # job[w].id
      BY <1>0, <2>1, RemovedFresh
    <3>3. fresh[w] \/ job[w].id \in redelivered
      BY <1>00, <2>1
    <3> QED  BY <1>00, <1>q, <2>1, <3>1, <3>2, <3>3 DEF Reported
  <2> QED  BY <2>2, <2>3, <2>4
<1>7. ASSUME NEW w \in Workers, FinishFails(w) \/ Die(w)
      PROVE  (IdleUnfinished /\ ScannedFound /\ Gone)'
  <2>1. /\ processing' \in {processing, Removed(w)}
        /\ at'[w] # "scanned"
        /\ \A v \in Workers : v # w => at'[v] = at[v] /\ job'[v] = job[v] /\ fresh'[v] = fresh[v]
        /\ UNCHANGED <<idle, finished, redelivered>>
    BY <1>0, <1>7 DEF FinishFails, Die, TypeOK, historyVars
  <2>2. \A i \in DOMAIN processing' : \E j \in DOMAIN processing : processing'[i] = processing[j]
    BY <1>0, <2>1, RemovedFacts, ThinApart
  <2> QED  BY <1>00, <1>q, <2>1, <2>2
<1>8. ASSUME Tick
      PROVE  (IdleUnfinished /\ ScannedFound /\ Gone)'
  <2>1. /\ DOMAIN idle' = DOMAIN idle /\ DOMAIN processing' = DOMAIN processing
        /\ \A i \in DOMAIN idle : idle'[i].id = idle[i].id
        /\ \A i \in DOMAIN processing : processing'[i].id = processing[i].id
        /\ UNCHANGED <<at, job, fresh, finished, redelivered>>
    BY <1>0, <1>8, OlderFacts DEF Tick, historyVars
  <2> QED  BY <1>00, <1>q, <2>1
<1>9. CASE UNCHANGED vars
  BY <1>00, <1>q, <1>9 DEF vars, workerVars, historyVars
<1> QED  BY <1>1, <1>2, <1>3, <1>4, <1>5, <1>6, <1>7, <1>8, <1>9 DEF Next, Get, Finish

\* A task that was handed out once is in no list after its report, although other
\* workers take and restamp tasks between the two commands of the report.
THEOREM ReportedInTimeIsGone == Spec => []FinishedOnTime
<1>1. Init => LeaseInv /\ FinishInv
  BY LeaseInit, FinishedOnTimeByIndex DEF Init, FinishInv
<1>2. LeaseInv /\ FinishInv /\ [Next]_vars => LeaseInv' /\ FinishInv'
  BY LeaseStep, FinishStep
<1>3. FinishInv => FinishedOnTime
  BY DEF FinishInv
<1> QED  BY <1>1, <1>2, <1>3, PTL DEF Spec
=============================================================================
