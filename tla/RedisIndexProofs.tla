--------------------------- MODULE RedisIndexProofs ---------------------------
(* What the Redis index holds of the calls of Batch: that the index shows   *)
(* what was acknowledged, that no data of an indexed file is deleted, that  *)
(* the folders count the files, that every file with a time is in a task,   *)
(* that merges and moves neither lose nor double a row, and that queries    *)
(* find the rows; for any files, users, workers and faults.                 *)
EXTENDS RedisIndex, DataLemmas, SequenceTheorems

-----------------------------------------------------------------------------
(* The script processes its entries one after the other.                   *)

\* FoldLeft takes the last entry and folds those before it.
FoldStep(g, d, s, I) ==
  IF I = {} THEN d ELSE Process(g[I \ {Max(I)}], s[Max(I)])
Folds(g, d, s) == g = [I \in SUBSET DOMAIN s |-> FoldStep(g, d, s, I)]

\* A set of numbers up to n that is not empty has a greatest element.
LEMMA MaxIn ==
  ASSUME NEW n \in Nat, NEW I \in SUBSET (1 .. n), I # {}
  PROVE  /\ Max(I) \in I /\ \A y \in I : Max(I) >= y
         /\ I \ {Max(I)} \subseteq 1 .. (n - 1)
<1> DEFINE S == {n - x : x \in I}
<1>1. S \in SUBSET Nat /\ S # {}
  OBVIOUS
<1>2. PICK m \in S : \A y \in S : m <= y
  <2> HIDE DEF S
  <2> QED  BY <1>1, MinIn
<1>3. PICK x \in I : m = n - x
  BY <1>2
<1>4. \A y \in I : n - x <= n - y
  BY <1>2, <1>3
<1>5. \A y \in I : x >= y
  BY <1>4
<1>6. Max(I) \in I /\ \A y \in I : Max(I) >= y
  BY <1>5 DEF Max
<1> HIDE DEF S
<1>7. ASSUME NEW y \in I \ {Max(I)} PROVE y \in 1 .. (n - 1)
  <2>1. y \in 1 .. n /\ Max(I) \in 1 .. n /\ Max(I) >= y /\ y # Max(I)
    BY <1>6
  <2> QED  BY <2>1
<1> QED  BY <1>6, <1>7

\* The greatest number of 1 .. n.
LEMMA MaxOfFirst ==
  ASSUME NEW n \in Nat \ {0}
  PROVE  Max(1 .. n) = n /\ (1 .. n) \ {n} = 1 .. (n - 1)
<1>1. n \in 1 .. n /\ \A y \in 1 .. n : n >= y
  OBVIOUS
<1>2. \A x \in 1 .. n : (\A y \in 1 .. n : x >= y) => x = n
  OBVIOUS
<1> QED  BY <1>1, <1>2 DEF Max

\* Script is such a fold.
FoldOver(d, s) == (CHOOSE g : Folds(g, d, s))[DOMAIN s]

\* The script's effect is that fold over the entries of its arguments.
LEMMA ScriptFolds ==
  ASSUME NEW d, NEW c
  PROVE  Script(d, c) = FoldOver([d EXCEPT !.error = FALSE], Argv(c))
BY DEF Script, FoldLeft, MapThenFoldSet, Folds, FoldStep, FoldOver

\* There is one: by induction, on the prefixes.
LEMMA FoldsExist ==
  ASSUME NEW d, NEW s, NEW n \in Nat, DOMAIN s = 1 .. n
  PROVE  \E g : Folds(g, d, s)
<1> DEFINE D == SUBSET (1 .. n)
           UpTo(g, k) == \A I \in D : I \subseteq 1 .. k => g[I] = FoldStep(g, d, s, I)
           Bad == {k \in Nat : ~ \E g : UpTo(g, k)}
<1>1. Bad = {}
  <2> SUFFICES ASSUME Bad # {} PROVE FALSE
    OBVIOUS
  <2>1. PICK k \in Bad : \A j \in Bad : k <= j
    <3>1. Bad \in SUBSET Nat
      OBVIOUS
    <3> QED  BY <3>1, MinIn
  <2>2. k # 0
    <3> DEFINE g == [I \in D |-> d]
    <3>1. UpTo(g, 0)
      <4> SUFFICES ASSUME NEW I \in D, I \subseteq 1 .. 0 PROVE g[I] = FoldStep(g, d, s, I)
        OBVIOUS
      <4>1. I = {}
        OBVIOUS
      <4> QED  BY <4>1 DEF FoldStep
    <3> HIDE DEF g
    <3> QED  BY <3>1
  <2>3. k \in Nat /\ k - 1 \in Nat /\ k - 1 \notin Bad
    <3>1. k \in Nat
      BY <2>1
    <3> HIDE DEF Bad
    <3> QED  BY <2>1, <2>2, <3>1
  <2>4. PICK g : UpTo(g, k - 1)
    BY <2>3
  <2> DEFINE h == [I \in D |-> IF I \subseteq 1 .. (k - 1) THEN g[I] ELSE FoldStep(g, d, s, I)]
  <2>5. UpTo(h, k)
    <3> SUFFICES ASSUME NEW I \in D, I \subseteq 1 .. k PROVE h[I] = FoldStep(h, d, s, I)
      OBVIOUS
    <3>1. h[I] = FoldStep(g, d, s, I)
      BY <2>4
    <3>2. CASE I = {}
      BY <3>1, <3>2 DEF FoldStep
    <3>3. CASE I # {}
      <4> DEFINE J == I \ {Max(I)}
      <4>1. J \in D /\ J \subseteq 1 .. (k - 1)
        BY <3>3, <2>3, MaxIn
      <4>2. h[J] = g[J]
        BY <4>1
      <4> HIDE DEF h
      <4> QED  BY <3>1, <3>3, <4>2 DEF FoldStep
    <3> QED  BY <3>2, <3>3
  <2> HIDE DEF h
  <2>6. k \notin Bad
    BY <2>5
  <2> QED  BY <2>1, <2>6
<1>2. PICK g : UpTo(g, n)
  BY <1>1
<1> DEFINE h == [I \in D |-> g[I]]
<1>3. ASSUME NEW I \in D PROVE h[I] = FoldStep(h, d, s, I)
  <2>1. g[I] = FoldStep(g, d, s, I)
    BY <1>2
  <2>2. I # {} => h[I \ {Max(I)}] = g[I \ {Max(I)}]
    OBVIOUS
  <2> QED  BY <2>1, <2>2 DEF FoldStep
<1>4. h = [I \in D |-> FoldStep(h, d, s, I)]
  <2>1. h = [I \in D |-> h[I]]
    OBVIOUS
  <2> HIDE DEF h
  <2> QED  BY <1>3, <2>1
<1> HIDE DEF h
<1> QED  BY <1>4 DEF Folds

\* So the script is a run over what Redis holds, one entry after the other.
ProcessRun(run, d, s, n) ==
  /\ run[0] = d
  /\ \A i \in 1 .. n : run[i] = Process(run[i - 1], s[i])
  /\ FoldOver(d, s) = run[n]

\* Whatever the script's entries, there is such a run.
LEMMA ScriptRuns ==
  ASSUME NEW d, NEW s, NEW n \in Nat, DOMAIN s = 1 .. n
  PROVE  \E run : ProcessRun(run, d, s, n)
<1> DEFINE g == CHOOSE h : Folds(h, d, s)
<1>1. Folds(g, d, s)
  BY FoldsExist
<1>2. FoldOver(d, s) = g[1 .. n]
  BY DEF FoldOver
<1> HIDE DEF g
<1>3. \A I \in SUBSET (1 .. n) : g[I] = FoldStep(g, d, s, I)
  BY <1>1 DEF Folds
<1> DEFINE run == [i \in 0 .. n |-> g[1 .. i]]
<1>4. run[0] = d
  <2>1. 1 .. 0 = {}
    OBVIOUS
  <2>2. g[{}] = d
    BY <1>3 DEF FoldStep
  <2>3. run[0] = g[1 .. 0]
    OBVIOUS
  <2> HIDE DEF run
  <2> QED  BY <2>1, <2>2, <2>3
<1>5. ASSUME NEW i \in 1 .. n PROVE run[i] = Process(run[i - 1], s[i])
  <2>1. 1 .. i \in SUBSET (1 .. n) /\ 1 .. i # {}
    OBVIOUS
  <2>2. g[1 .. i] = Process(g[(1 .. i) \ {Max(1 .. i)}], s[Max(1 .. i)])
    BY <1>3, <2>1 DEF FoldStep
  <2>3. g[1 .. i] = Process(g[1 .. (i - 1)], s[i])
    <3>1. i \in Nat \ {0}
      OBVIOUS
    <3>2. Max(1 .. i) = i /\ (1 .. i) \ {i} = 1 .. (i - 1)
      BY <3>1, MaxOfFirst
    <3> QED  BY <2>2, <3>2
  <2>4. i - 1 \in 0 .. n /\ i \in 0 .. n
    OBVIOUS
  <2> QED  BY <2>3, <2>4
<1>6. run[n] = g[1 .. n]
  OBVIOUS
<1> HIDE DEF run
<1> QED  BY <1>2, <1>4, <1>5, <1>6 DEF ProcessRun

-----------------------------------------------------------------------------
(* Files, queues and tasks.                                                *)

\* A file has a directory, and one that is to be merged or moved a queue.
LEMMA FileType ==
  ASSUME NEW f \in File
  PROVE  /\ Dir(f) \in Dirs
         /\ f.rows \subseteq Rows /\ f.rows # {} /\ f.uid \in Int /\ f.iteration \in Nat
         /\ f.layer \in Layers \cup {NoLayer}
         /\ \A r \in f.rows : Home[r] = Dir(f)
         /\ Route(f) \in {"merge", "move", "none"}
         /\ f.layer \in Layers /\ Route(f) # "none" => QueueOf(f) \in Queues
<1>1. /\ f.rows \subseteq Rows /\ f.rows # {} /\ f.uid \in Int /\ f.iteration \in Nat
      /\ f.layer \in Layers \cup {NoLayer}
      /\ \A r \in f.rows : Home[r] = Dir(f)
  BY DEF File
<1>2. Dir(f) \in Dirs
  BY <1>1 DEF Dirs
<1>3. Route(f) \in {"merge", "move", "none"}
  BY DEF Route
<1>4. f.layer \in Layers /\ Route(f) # "none" => QueueOf(f) \in Queues
  <2>1. Route(f) = "merge" => f.iteration \in DOMAIN MergeTtl
    BY DEF Route, Merges
  <2>2. CASE Route(f) = "merge"
    BY <1>2, <2>1, <2>2 DEF QueueOf, Queues
  <2>3. CASE Route(f) # "merge"
    BY <1>3, <2>3 DEF QueueOf, Queues
  <2> QED  BY <2>2, <2>3
<1> QED  BY <1>1, <1>2, <1>3, <1>4

\* The fields of what Redis holds.
LEMMA DbType ==
  ASSUME NEW d \in Db
  PROVE  /\ d.files \in SUBSET File /\ d.count \in [Dirs -> Int] /\ d.folders \in SUBSET Dirs
         /\ d.idle \in [Queues -> Seq(Task)] /\ d.drops \in SUBSET File
         /\ d.uuids \in Nat /\ d.error \in BOOLEAN
BY DEF Db

\* A new task.
LEMMA TaskMade ==
  ASSUME NEW f \in File, NEW n \in Nat, NEW x, x = NewTask(n, f)
  PROVE  x \in Task /\ x.id = n /\ x.files = {f}
<1>1. Size(f) \in Nat
  BY FileType, RedisIndexAssumption, FS_Subset, FS_CardinalityType DEF Size
<1>2. <<>> \in Seq(File) /\ ToSet(<<>>) \subseteq {f}
  BY DEF ToSet
<1>3. x = [id |-> n, files |-> {f}, again |-> <<>>, size |-> Size(f)]
  BY DEF NewTask
<1> QED  BY <1>1, <1>2, <1>3 DEF Task

\* A task that another file joins.
LEMMA TaskJoined ==
  ASSUME NEW task \in Task, NEW f \in File, NEW x, x = Joined(task, f)
  PROVE  x \in Task /\ x.id = task.id /\ x.files = task.files \cup {f}
<1>1. PICK n \in Nat : n = Size(f)
  BY FileType, RedisIndexAssumption, FS_Subset, FS_CardinalityType DEF Size
<1>2. PICK s \in Seq(File) : s = task.again
  BY DEF Task
<1>3. /\ task \in [id : Nat, files : SUBSET File, again : Seq(File), size : Nat]
      /\ ToSet(s) \subseteq task.files
  BY <1>2 DEF Task
<1>4. PICK u : u = IF f \in task.files THEN Append(s, f) ELSE s
  OBVIOUS
<1>5. u \in Seq(File) /\ ToSet(u) \subseteq task.files \cup {f}
  <2>1. ASSUME NEW i \in DOMAIN u PROVE u[i] \in task.files \cup {f}
    <3>1. CASE i \in DOMAIN s /\ u[i] = s[i]
      BY <1>3, <3>1 DEF ToSet
    <3>2. CASE u[i] = f
      BY <3>2
    <3> QED  BY <1>4, <3>1, <3>2
  <2> QED  BY <1>4, <2>1 DEF ToSet
<1>6. x = [task EXCEPT !.files = @ \cup {f}, !.size = @ + n, !.again = u]
  BY <1>1, <1>2, <1>4 DEF Joined
<1>7. task.size + n \in Nat
  BY <1>3
<1>8. x = [id |-> task.id, files |-> task.files \cup {f}, again |-> u, size |-> task.size + n]
  BY <1>3, <1>6
<1> QED  BY <1>3, <1>5, <1>7, <1>8 DEF Task

\* File f is in a task: that at the end of its queue, or a new one.
JoinsLast(s, t, f) == s # <<>> /\ t = [s EXCEPT ![Len(s)] = Joined(s[Len(s)], f)]
Filed(d, r, f) ==
  LET q == QueueOf(f) IN
  /\ r.idle = [d.idle EXCEPT ![q] = r.idle[q]]
  /\ \/ r.uuids = d.uuids /\ JoinsLast(d.idle[q], r.idle[q], f) /\ Route(f) = "merge"
     \/ /\ r.uuids = d.uuids + 1
        /\ r.idle[q] = Append(d.idle[q], NewTask(r.uuids, f))

\* merge_entry and move_entry do this, and change nothing else.
LEMMA Enqueued ==
  ASSUME NEW d \in Db, NEW f \in File, f.layer \in Layers, Route(f) # "none",
         NEW r, r = Enqueue(d, f)
  PROVE  r = [d EXCEPT !.idle = r.idle, !.uuids = r.uuids] /\ Filed(d, r, f)
<1> DEFINE q == QueueOf(f)
           s == d.idle[q]
<1>1. q \in Queues /\ d.idle \in [Queues -> Seq(Task)]
  BY FileType, DbType
<1>2. CASE Joins(s, f)
  <2>1. r = [d EXCEPT !.idle[q][Len(s)] = Joined(@, f)]
    BY <1>2 DEF Enqueue
  <2>2. s # <<>> /\ Route(f) = "merge"
    BY <1>2 DEF Joins
  <2>3. r.idle = [d.idle EXCEPT ![q] = [s EXCEPT ![Len(s)] = Joined(s[Len(s)], f)]]
    BY <2>1 DEF Db
  <2>4. r.uuids = d.uuids /\ r = [d EXCEPT !.idle = r.idle, !.uuids = r.uuids]
    BY <2>1 DEF Db
  <2> QED  BY <1>1, <2>2, <2>3, <2>4 DEF Filed, JoinsLast
<1>3. CASE ~Joins(s, f)
  <2>1. r = [d EXCEPT !.idle[q] = Append(s, NewTask(d.uuids + 1, f)),
                      !.uuids = @ + 1]
    BY <1>3 DEF Enqueue
  <2>2. /\ r.idle = [d.idle EXCEPT ![q] = Append(s, NewTask(d.uuids + 1, f))]
        /\ r.uuids = d.uuids + 1 /\ r = [d EXCEPT !.idle = r.idle, !.uuids = r.uuids]
    BY <2>1 DEF Db
  <2> QED  BY <1>1, <2>2 DEF Filed
<1> QED  BY <1>2, <1>3

-----------------------------------------------------------------------------
(* One entry.                                                              *)

SameTasks(d, r) == r.idle = d.idle /\ r.uuids = d.uuids
SameFiles(d, r) == r.files = d.files /\ r.count = d.count /\ r.folders = d.folders

\* File f is in the index and counted.
Counted(d, r, f) ==
  /\ r.files = d.files \cup {f}
  /\ r.count = [d.count EXCEPT ![Dir(f)] = @ + 1]
  /\ r.folders = d.folders \cup {Dir(f)}

\* The queues stay queues.
LEMMA FiledType ==
  ASSUME NEW d \in Db, NEW f \in File, NEW r, Filed(d, r, f), QueueOf(f) \in Queues
  PROVE  r.idle \in [Queues -> Seq(Task)] /\ r.uuids \in Nat /\ d.uuids <= r.uuids
<1> DEFINE q == QueueOf(f)
           s == d.idle[q]
<1>1. s \in Seq(Task) /\ d.idle \in [Queues -> Seq(Task)] /\ d.uuids \in Nat
  BY DbType
<1>2. r.uuids \in Nat /\ d.uuids <= r.uuids
  BY <1>1 DEF Filed
<1>3. r.idle[q] \in Seq(Task)
  <2> HIDE DEF s
  <2>1. CASE s # <<>> /\ r.idle[q] = [s EXCEPT ![Len(s)] = Joined(s[Len(s)], f)]
    <3>1. Len(s) \in DOMAIN s /\ s[Len(s)] \in Task
      BY <1>1, <2>1
    <3> DEFINE t == Joined(s[Len(s)], f)
    <3>2. t \in Task
      BY <3>1, TaskJoined
    <3> HIDE DEF t
    <3>3. [s EXCEPT ![Len(s)] = t] \in Seq(Task)
      BY <1>1, <3>1, <3>2
    <3> QED  BY <2>1, <3>3 DEF t
  <2>2. CASE r.idle[q] = Append(s, NewTask(r.uuids, f))
    <3>1. NewTask(r.uuids, f) \in Task
      BY <1>2, TaskMade
    <3> QED  BY <1>1, <2>2, <3>1
  <2> QED  BY <2>1, <2>2 DEF Filed, JoinsLast, s
<1>4. r.idle = [d.idle EXCEPT ![q] = r.idle[q]]
  BY DEF Filed
<1> QED  BY <1>1, <1>2, <1>3, <1>4

\* A file that is to be merged or moved, and one of an iteration that is merged, whose
\* task has a time.
Queued(f) == f.layer \in Layers /\ Route(f) # "none"
Due(f) == f.layer \in Layers /\ Merges(f)

\* A file with a time has a task.
LEMMA DueQueued ==
  ASSUME NEW f, Due(f)
  PROVE  Queued(f)
BY DEF Due, Queued, Route

\* File f was refused, or it is indexed and, if it is to be merged or moved, in a task.
Added(d, r, f) ==
  \/ r.error /\ SameFiles(d, r) /\ SameTasks(d, r)
  \/ Counted(d, r, f) /\ SameTasks(d, r) /\ ~Queued(f) /\ f.iteration # 0
  \/ Counted(d, r, f) /\ ~r.error /\ Filed(d, r, f) /\ Queued(f) /\ f.iteration # 0

\* AddEntry does this and nothing else.
LEMMA AddDoes ==
  ASSUME NEW d \in Db, ~d.error, NEW f \in File, NEW r, r = AddEntry(d, f)
  PROVE  r \in Db /\ r.drops = d.drops /\ Added(d, r, f)
<1> DEFINE x == [d EXCEPT !.files = @ \cup {f}, !.count[Dir(f)] = @ + 1,
                          !.folders = @ \cup {Dir(f)}]
<1>1. /\ d.files \in SUBSET File /\ d.count \in [Dirs -> Int] /\ d.folders \in SUBSET Dirs
      /\ d.drops \in SUBSET File /\ Dir(f) \in Dirs
  BY DbType, FileType
<1>2. /\ x \in Db
      /\ Counted(d, x, f) /\ SameTasks(d, x) /\ x.drops = d.drops /\ ~x.error
  <2> DEFINE F == d.files \cup {f}
             c == [d.count EXCEPT ![Dir(f)] = @ + 1]
             o == d.folders \cup {Dir(f)}
  <2>1. F \in SUBSET File /\ c \in [Dirs -> Int] /\ o \in SUBSET Dirs
    BY <1>1
  <2>2. x = [d EXCEPT !.files = F, !.count = c, !.folders = o, !.drops = d.drops]
    BY DEF Db
  <2> HIDE DEF F, c, o, x
  <2>3. /\ x \in Db /\ x.files = F /\ x.count = c /\ x.folders = o /\ x.drops = d.drops
        /\ SameTasks(d, x) /\ x.error = d.error
    BY <1>1, <2>1, <2>2 DEF Db, SameTasks
  <2> QED  BY <2>3 DEF F, c, o, Counted
<1>3. /\ Counted(d, x, f) /\ SameTasks(d, x) /\ x.drops = d.drops /\ ~x.error
  BY <1>2
<1>4. CASE f.iteration = 0
  <2>1. r = [d EXCEPT !.error = TRUE]
    BY <1>4 DEF AddEntry
  <2> QED  BY <2>1 DEF Db, SameFiles, SameTasks, Added
<1>5. CASE f.iteration # 0 /\ f.layer \notin Layers
  <2>1. r = [x EXCEPT !.error = TRUE]
    BY <1>5 DEF AddEntry
  <2> HIDE DEF x
  <2>2. r \in Db /\ r.drops = x.drops /\ SameFiles(x, r) /\ SameTasks(x, r)
    BY <1>2, <2>1 DEF Db, SameFiles, SameTasks
  <2> QED  BY <1>3, <1>5, <2>2 DEF SameFiles, SameTasks, Counted, Added, Queued
<1>6. CASE f.iteration # 0 /\ f.layer \in Layers /\ Route(f) = "none"
  <2>1. r = x
    BY <1>6 DEF AddEntry
  <2> HIDE DEF x
  <2> QED  BY <1>2, <1>3, <1>6, <2>1 DEF Added, Queued
<1>7. CASE f.iteration # 0 /\ f.layer \in Layers /\ Route(f) # "none"
  <2>1. r = Enqueue(x, f)
    BY <1>7 DEF AddEntry
  <2> HIDE DEF x
  <2>2. /\ r = [x EXCEPT !.idle = r.idle, !.uuids = r.uuids]
        /\ Filed(x, r, f)
    BY <1>2, <1>7, <2>1, Enqueued
  <2>3. QueueOf(f) \in Queues
    BY <1>7, FileType
  <2>4. r.idle \in [Queues -> Seq(Task)] /\ r.uuids \in Nat
    BY <1>2, <2>2, <2>3, FiledType
  <2>5. r \in Db /\ r.drops = x.drops /\ ~r.error /\ SameFiles(x, r)
    <3> DEFINE i == r.idle
               u == r.uuids
    <3>1. r = [x EXCEPT !.idle = i, !.uuids = u] /\ i \in [Queues -> Seq(Task)] /\ u \in Nat
      BY <2>2, <2>4
    <3> HIDE DEF i, u
    <3> QED  BY <1>2, <1>3, <3>1 DEF Db, SameFiles
  <2>6. Counted(d, r, f) /\ Filed(d, r, f)
    BY <1>3, <2>2, <2>5 DEF Counted, SameFiles, SameTasks, Filed
  <2> QED  BY <1>3, <1>7, <2>5, <2>6 DEF Added, Queued
<1> QED  BY <1>4, <1>5, <1>6, <1>7

\* The folder has one file less, and is none when it had one file.
Uncounted(d, r, f) ==
  /\ r.count = [d.count EXCEPT ![Dir(f)] = @ - 1]
  /\ r.folders = IF d.count[Dir(f)] = 1 THEN d.folders \ {Dir(f)}
                 ELSE d.folders \cup {Dir(f)}

\* What DeleteEntry does: the file leaves the index and joins the drop queue.
LEMMA DeleteDoes ==
  ASSUME NEW d \in Db, ~d.error, NEW f \in File, NEW r, r = DeleteEntry(d, f)
  PROVE  /\ r \in Db /\ ~r.error /\ SameTasks(d, r)
         /\ r.files = d.files \ {f} /\ r.drops = d.drops \cup {f}
         /\ Uncounted(d, r, f)
<1>1. /\ d.files \in SUBSET File /\ d.count \in [Dirs -> Int] /\ d.folders \in SUBSET Dirs
      /\ d.drops \in SUBSET File /\ Dir(f) \in Dirs
  BY DbType, FileType
<1> DEFINE c == [d.count EXCEPT ![Dir(f)] = @ - 1]
           o == IF d.count[Dir(f)] = 1 THEN d.folders \ {Dir(f)} ELSE d.folders \cup {Dir(f)}
           F == d.files \ {f}
           D == d.drops \cup {f}
<1>2. /\ c \in [Dirs -> Int] /\ o \in SUBSET Dirs
      /\ F \in SUBSET File /\ D \in SUBSET File
  BY <1>1
<1>3. r = [d EXCEPT !.files = F, !.count = c, !.folders = o, !.drops = D]
  BY DEF DeleteEntry, Db
<1> HIDE DEF c, o, F, D
<1>4. /\ r \in Db /\ r.error = d.error /\ SameTasks(d, r)
      /\ r.files = F /\ r.drops = D /\ r.count = c /\ r.folders = o
  BY <1>2, <1>3 DEF Db, SameTasks
<1> QED  BY <1>4 DEF c, o, F, D, Uncounted

-----------------------------------------------------------------------------
(* The whole script: additions, then removals, until one reports an error. *)

\* Entry i + 1 of the additions s, after state d.
AddNext(d, s, i) == IF d.error THEN d ELSE AddEntry(d, s[i + 1])
DeleteNext(d, s, i) == IF d.error THEN d ELSE DeleteEntry(d, s[i + 1])
Adds(run, d, s) ==
  run[0] = d /\ \A i \in 0 .. Len(s) - 1 : run[i + 1] = AddNext(run[i], s, i)
Deletes(run, d, s) ==
  run[0] = d /\ \A i \in 0 .. Len(s) - 1 : run[i + 1] = DeleteNext(run[i], s, i)

\* Entries, one for each file.
LEMMA EntriesAre ==
  ASSUME NEW s \in Seq(File), NEW cmd \in {"ADD", "DELETE"}
  PROVE  /\ Entries(cmd, s) \in Seq([cmd : {"ADD", "DELETE"}, file : File])
         /\ Len(Entries(cmd, s)) = Len(s)
         /\ \A i \in 1 .. Len(s) : Entries(cmd, s)[i] = [cmd |-> cmd, file |-> s[i]]
<1> DEFINE E == [cmd : {"ADD", "DELETE"}, file : File]
           n == Len(s)
<1>1. n \in Nat /\ DOMAIN s = 1 .. n /\ \A i \in 1 .. n : s[i] \in File
  OBVIOUS
<1>2. Entries(cmd, s) = [i \in 1 .. n |-> [cmd |-> cmd, file |-> s[i]]]
  BY <1>1 DEF Entries
<1>3. \A i \in 1 .. n : [cmd |-> cmd, file |-> s[i]] \in E
  BY <1>1
<1> HIDE DEF E, n
<1>4. Entries(cmd, s) \in Seq(E) /\ Len(Entries(cmd, s)) = n
  BY <1>1, <1>2, <1>3
<1>5. \A i \in 1 .. n : Entries(cmd, s)[i] = [cmd |-> cmd, file |-> s[i]]
  BY <1>2
<1> QED  BY <1>4, <1>5 DEF E, n

\* One sequence after another.
OneThenOther(u, s, t, a, b) ==
  /\ DOMAIN u = 1 .. (a + b)
  /\ \A i \in 1 .. a : u[i] = s[i]
  /\ \A i \in 1 .. b : u[a + i] = t[i]

\* What \o makes of two sequences.
LEMMA Concatenated ==
  ASSUME NEW S, NEW s \in Seq(S), NEW t \in Seq(S),
         NEW a \in Nat, a = Len(s), NEW b \in Nat, b = Len(t)
  PROVE  OneThenOther(s \o t, s, t, a, b)
<1>1. /\ s \o t \in Seq(S) /\ Len(s \o t) = a + b
      /\ \A i \in 1 .. (a + b) : (s \o t)[i] = IF i <= a THEN s[i] ELSE t[i - a]
  BY ConcatProperties
<1>2. DOMAIN (s \o t) = 1 .. (a + b)
  BY <1>1, LenProperties
<1>3. ASSUME NEW i \in 1 .. a PROVE (s \o t)[i] = s[i]
  <2>1. i \in 1 .. (a + b) /\ i <= a
    OBVIOUS
  <2> QED  BY <1>1, <2>1
<1>4. ASSUME NEW i \in 1 .. b PROVE (s \o t)[a + i] = t[i]
  <2>1. a + i \in 1 .. (a + b) /\ ~(a + i <= a) /\ (a + i) - a = i
    OBVIOUS
  <2> QED  BY <1>1, <2>1
<1> QED  BY <1>2, <1>3, <1>4 DEF OneThenOther

\* The entries of ARGV.
LEMMA ArgvIs ==
  ASSUME NEW c, NEW x \in Seq(File), x = c.add, NEW y \in Seq(File), y = c.rm,
         NEW a \in Nat, a = Len(x), NEW b \in Nat, b = Len(y)
  PROVE  OneThenOther(Argv(c), Entries("ADD", x), Entries("DELETE", y), a, b)
<1> DEFINE s == Entries("ADD", x)
           t == Entries("DELETE", y)
           E == [cmd : {"ADD", "DELETE"}, file : File]
<1>1. /\ s \in Seq(E) /\ Len(s) = a
      /\ \A i \in 1 .. a : s[i] = [cmd |-> "ADD", file |-> x[i]]
  BY EntriesAre
<1>2. /\ t \in Seq(E) /\ Len(t) = b
      /\ \A i \in 1 .. b : t[i] = [cmd |-> "DELETE", file |-> y[i]]
  BY EntriesAre
<1>3. Argv(c) = s \o t
  BY DEF Argv
<1> HIDE DEF s, t, E
<1>4. OneThenOther(s \o t, s, t, a, b)
  BY <1>1, <1>2, Concatenated
<1> QED  BY <1>3, <1>4 DEF s, t

\* The script is a run over the additions and one over the removals.
LEMMA ScriptInTwo ==
  ASSUME NEW d, NEW c, c.add \in Seq(File), c.rm \in Seq(File)
  PROVE  \E adds, deletes :
           /\ Adds(adds, [d EXCEPT !.error = FALSE], c.add)
           /\ Deletes(deletes, adds[Len(c.add)], c.rm)
           /\ Script(d, c) = deletes[Len(c.rm)]
<1>1. PICK x \in Seq(File) : x = c.add
  OBVIOUS
<1>2. PICK y \in Seq(File) : y = c.rm
  OBVIOUS
<1>3. PICK a \in Nat : a = Len(x)
  OBVIOUS
<1>4. PICK b \in Nat : b = Len(y)
  OBVIOUS
<1>5. PICK e : e = [d EXCEPT !.error = FALSE]
  OBVIOUS
<1>6. /\ DOMAIN Argv(c) = 1 .. (a + b)
      /\ \A i \in 1 .. a : Argv(c)[i] = [cmd |-> "ADD", file |-> x[i]]
      /\ \A i \in 1 .. b : Argv(c)[a + i] = [cmd |-> "DELETE", file |-> y[i]]
  <2>1. OneThenOther(Argv(c), Entries("ADD", x), Entries("DELETE", y), a, b)
    BY <1>1, <1>2, <1>3, <1>4, ArgvIs
  <2>2. /\ \A i \in 1 .. a : Entries("ADD", x)[i] = [cmd |-> "ADD", file |-> x[i]]
        /\ \A i \in 1 .. b : Entries("DELETE", y)[i] = [cmd |-> "DELETE", file |-> y[i]]
    BY <1>3, <1>4, EntriesAre
  <2> QED  BY <2>1, <2>2 DEF OneThenOther
<1>7. PICK run : /\ run[0] = e
                 /\ \A i \in 1 .. (a + b) : run[i] = Process(run[i - 1], Argv(c)[i])
                 /\ FoldOver(e, Argv(c)) = run[a + b]
  <2>1. PICK n \in Nat : n = a + b
    OBVIOUS
  <2>2. PICK s : s = Argv(c)
    OBVIOUS
  <2>3. DOMAIN s = 1 .. n
    BY <1>6, <2>1, <2>2
  <2>4. PICK run : ProcessRun(run, e, s, n)
    BY <2>3, ScriptRuns
  <2> QED  BY <2>1, <2>2, <2>4 DEF ProcessRun
<1>8. Adds(run, e, x)
  <2>1. ASSUME NEW i \in 0 .. a - 1 PROVE run[i + 1] = AddNext(run[i], x, i)
    <3>1. i + 1 \in 1 .. a /\ i + 1 \in 1 .. (a + b) /\ (i + 1) - 1 = i
      OBVIOUS
    <3>2. run[i + 1] = Process(run[i], Argv(c)[i + 1])
      BY <1>7, <3>1
    <3>3. Argv(c)[i + 1] = [cmd |-> "ADD", file |-> x[i + 1]]
      BY <1>6, <3>1
    <3> QED  BY <3>2, <3>3 DEF Process, AddNext
  <2> QED  BY <1>3, <1>7, <2>1 DEF Adds
<1> DEFINE deletes == [i \in 0 .. b |-> run[a + i]]
<1>9. Deletes(deletes, run[a], y)
  <2>1. ASSUME NEW i \in 0 .. b - 1 PROVE deletes[i + 1] = DeleteNext(deletes[i], y, i)
    <3>1. /\ i + 1 \in 1 .. b /\ a + (i + 1) \in 1 .. (a + b) /\ (a + (i + 1)) - 1 = a + i
          /\ i + 1 \in 0 .. b /\ i \in 0 .. b
      OBVIOUS
    <3>2. run[a + (i + 1)] = Process(run[a + i], Argv(c)[a + (i + 1)])
      BY <1>7, <3>1
    <3>3. Argv(c)[a + (i + 1)] = [cmd |-> "DELETE", file |-> y[i + 1]]
      BY <1>6, <3>1
    <3>4. run[a + (i + 1)] = DeleteNext(run[a + i], y, i)
      BY <3>2, <3>3 DEF Process, DeleteNext
    <3> QED  BY <3>1, <3>4
  <2>2. deletes[0] = run[a]
    OBVIOUS
  <2> QED  BY <1>4, <2>1, <2>2 DEF Deletes
<1>10. Script(d, c) = deletes[b]
  <2>1. b \in 0 .. b
    OBVIOUS
  <2> QED  BY <1>5, <1>7, <2>1, ScriptFolds
<1> HIDE DEF deletes
<1> QED  BY <1>1, <1>2, <1>3, <1>4, <1>5, <1>8, <1>9, <1>10

\* A step of the additions.
LEMMA AddStep ==
  ASSUME NEW d, NEW s \in Seq(File), NEW run, Adds(run, d, s),
         NEW i \in 0 .. Len(s) - 1, run[i] \in Db
  PROVE  /\ run[i + 1] \in Db /\ s[i + 1] \in File /\ run[i + 1].drops = run[i].drops
         /\ \/ run[i].error /\ run[i + 1] = run[i]
            \/ ~run[i].error /\ Added(run[i], run[i + 1], s[i + 1])
<1>1. s[i + 1] \in File
  OBVIOUS
<1>2. run[i + 1] = AddNext(run[i], s, i)
  BY DEF Adds
<1>3. CASE run[i].error
  BY <1>1, <1>2, <1>3 DEF AddNext
<1>4. CASE ~run[i].error
  <2>1. PICK x \in Db, f \in File : x = run[i] /\ f = s[i + 1]
    BY <1>1
  <2>2. PICK r : r = run[i + 1]
    OBVIOUS
  <2>3. ~x.error /\ r = AddEntry(x, f)
    BY <1>2, <1>4, <2>1, <2>2 DEF AddNext
  <2>4. r \in Db /\ r.drops = x.drops /\ Added(x, r, f)
    BY <2>3, AddDoes
  <2> QED  BY <1>4, <2>1, <2>2, <2>4
<1> QED  BY <1>3, <1>4

\* The additions keep what is indexed, and index all they name unless there is an error.
LEMMA AddPhase ==
  ASSUME NEW d \in Db, NEW s \in Seq(File), NEW run, Adds(run, d, s), ~d.error,
         NEW r, r = run[Len(s)]
  PROVE  /\ r \in Db /\ r.drops = d.drops
         /\ d.files \subseteq r.files /\ r.files \subseteq d.files \cup ToSet(s)
         /\ ~r.error => r.files = d.files \cup ToSet(s)
<1> DEFINE n == Len(s)
           P(i) == /\ run[i] \in Db /\ run[i].drops = d.drops
                   /\ d.files \subseteq run[i].files /\ run[i].files \subseteq d.files \cup ToSet(s)
                   /\ ~run[i].error => \A k \in 1 .. i : s[k] \in run[i].files
           G == {i \in 0 .. n : P(i)}
<1>1. n \in Nat /\ DOMAIN s = 1 .. n /\ ToSet(s) = {s[k] : k \in 1 .. n}
  BY DEF ToSet
<1>2. run[0] = d
  BY DEF Adds
<1>3. 0 \in G
  BY <1>1, <1>2
<1>4. ASSUME NEW i \in 0 .. n - 1, i \in G PROVE i + 1 \in G
  <2>1. i + 1 \in 1 .. n /\ i \in Nat /\ s[i + 1] \in ToSet(s)
    BY <1>1
  <2>2. P(i)
    BY <1>4
  <2>3. /\ run[i + 1] \in Db /\ run[i + 1].drops = run[i].drops
        /\ \/ run[i].error /\ run[i + 1] = run[i]
           \/ ~run[i].error /\ Added(run[i], run[i + 1], s[i + 1])
    BY <2>2, AddStep
  <2>4. CASE run[i].error
    BY <1>1, <2>1, <2>2, <2>3, <2>4
  <2>5. CASE ~run[i].error
    <3>1. \/ run[i + 1].error /\ run[i + 1].files = run[i].files
          \/ run[i + 1].files = run[i].files \cup {s[i + 1]}
      BY <2>3, <2>5 DEF Added, Counted, SameFiles
    <3>2. \A k \in 1 .. i + 1 : k = i + 1 \/ k \in 1 .. i
      BY <2>1
    <3>3. P(i + 1)
      BY <2>1, <2>2, <2>3, <2>5, <3>1, <3>2
    <3> QED  BY <1>1, <2>1, <3>3
  <2> QED  BY <2>4, <2>5
<1>5. 0 .. n \subseteq G
  <2> HIDE DEF G, n
  <2> QED  BY <1>1, <1>3, <1>4, Induct
<1>6. P(n)
  BY <1>1, <1>5
<1> QED  BY <1>1, <1>6

\* The removals take all they name out of the index, and into the drop queue.
LEMMA DeletePhase ==
  ASSUME NEW d \in Db, NEW s \in Seq(File), NEW run, Deletes(run, d, s), ~d.error,
         NEW r, r = run[Len(s)]
  PROVE  /\ r \in Db /\ ~r.error /\ SameTasks(d, r)
         /\ r.files = d.files \ ToSet(s) /\ r.drops = d.drops \cup ToSet(s)
<1> DEFINE n == Len(s)
           S(i) == {s[k] : k \in 1 .. i}
           P(i) == /\ run[i] \in Db /\ ~run[i].error /\ SameTasks(d, run[i])
                   /\ run[i].files = d.files \ S(i) /\ run[i].drops = d.drops \cup S(i)
           G == {i \in 0 .. n : P(i)}
<1>1. n \in Nat /\ DOMAIN s = 1 .. n /\ ToSet(s) = S(n)
  BY DEF ToSet
<1>2. run[0] = d /\ \A i \in 0 .. n - 1 : run[i + 1] = DeleteNext(run[i], s, i)
  BY DEF Deletes
<1>3. 0 \in G
  <2>1. S(0) = {} /\ 0 \in 0 .. n
    BY <1>1
  <2> QED  BY <1>2, <2>1 DEF SameTasks
<1>4. ASSUME NEW i \in 0 .. n - 1, i \in G PROVE i + 1 \in G
  <2>1. i + 1 \in 1 .. n /\ i \in Nat /\ s[i + 1] \in File /\ i + 1 \in 0 .. n
    BY <1>1
  <2>2. P(i)
    BY <1>4
  <2>3. run[i + 1] = DeleteEntry(run[i], s[i + 1])
    BY <1>2, <2>2 DEF DeleteNext
  <2>4. /\ run[i + 1] \in Db /\ ~run[i + 1].error /\ SameTasks(run[i], run[i + 1])
        /\ run[i + 1].files = run[i].files \ {s[i + 1]}
        /\ run[i + 1].drops = run[i].drops \cup {s[i + 1]}
    <3>1. PICK x \in Db, f \in File : x = run[i] /\ f = s[i + 1]
      BY <2>1, <2>2
    <3>2. PICK y : y = run[i + 1]
      OBVIOUS
    <3>3. ~x.error /\ y = DeleteEntry(x, f)
      BY <2>2, <2>3, <3>1, <3>2
    <3>4. /\ y \in Db /\ ~y.error /\ SameTasks(x, y)
          /\ y.files = x.files \ {f} /\ y.drops = x.drops \cup {f}
      BY <3>3, DeleteDoes
    <3> QED  BY <3>1, <3>2, <3>4
  <2>5. S(i + 1) = S(i) \cup {s[i + 1]}
    <3>1. 1 .. i + 1 = (1 .. i) \cup {i + 1}
      BY <2>1
    <3> QED  BY <3>1
  <2> HIDE DEF S
  <2>6. P(i + 1)
    BY <2>2, <2>4, <2>5 DEF SameTasks
  <2> QED  BY <2>1, <2>6
<1>5. 0 .. n \subseteq G
  <2> HIDE DEF G, n
  <2> QED  BY <1>1, <1>3, <1>4, Induct
<1>6. P(n)
  BY <1>1, <1>5
<1> HIDE DEF S
<1> QED  BY <1>1, <1>6

\* Unless the additions ended in an error.
LEMMA DeleteStops ==
  ASSUME NEW d, NEW s \in Seq(File), NEW run, Deletes(run, d, s), d.error
  PROVE  run[Len(s)] = d
<1> DEFINE n == Len(s)
           G == {i \in 0 .. n : run[i] = d}
<1>1. n \in Nat /\ 0 \in G
  BY DEF Deletes
<1>2. ASSUME NEW i \in 0 .. n - 1, i \in G PROVE i + 1 \in G
  <2>1. run[i + 1] = d
    BY <1>2 DEF Deletes, DeleteNext
  <2> QED  BY <1>1, <2>1
<1>3. 0 .. n \subseteq G
  <2> HIDE DEF G, n
  <2> QED  BY <1>1, <1>2, Induct
<1> QED  BY <1>1, <1>3

\* What the script does to the index and the drop queue: if it ends in an error, only
\* some of the additions; otherwise all additions, and then all removals.
LEMMA ScriptDoes ==
  ASSUME NEW d \in Db, NEW c, c.add \in Seq(File), c.rm \in Seq(File),
         NEW r, r = Script(d, c)
  PROVE  /\ r \in Db
         /\ r.error => /\ d.files \subseteq r.files /\ r.files \subseteq d.files \cup ToSet(c.add)
                       /\ r.drops = d.drops
         /\ ~r.error => /\ r.files = (d.files \cup ToSet(c.add)) \ ToSet(c.rm)
                        /\ r.drops = d.drops \cup ToSet(c.rm)
<1>1. PICK e : e = [d EXCEPT !.error = FALSE]
  OBVIOUS
<1>2. e \in Db /\ ~e.error /\ e.files = d.files /\ e.drops = d.drops
  BY <1>1 DEF Db
<1>3. PICK adds, deletes : /\ Adds(adds, e, c.add)
                           /\ Deletes(deletes, adds[Len(c.add)], c.rm)
                           /\ r = deletes[Len(c.rm)]
  BY <1>1, ScriptInTwo
<1>4. PICK m : m = adds[Len(c.add)]
  OBVIOUS
<1>5. /\ m \in Db /\ m.drops = e.drops
      /\ e.files \subseteq m.files /\ m.files \subseteq e.files \cup ToSet(c.add)
      /\ ~m.error => m.files = e.files \cup ToSet(c.add)
  BY <1>2, <1>3, <1>4, AddPhase
<1>6. CASE m.error
  <2>1. r = m
    BY <1>3, <1>4, <1>6, DeleteStops
  <2> QED  BY <1>2, <1>5, <1>6, <2>1
<1>7. CASE ~m.error
  <2>1. /\ r \in Db /\ ~r.error
        /\ r.files = m.files \ ToSet(c.rm) /\ r.drops = m.drops \cup ToSet(c.rm)
    BY <1>3, <1>4, <1>5, <1>7, DeletePhase
  <2> QED  BY <1>2, <1>5, <1>7, <2>1
<1> QED  BY <1>6, <1>7

-----------------------------------------------------------------------------
(* The tasks in the queues.                                                *)

\* Every task in a queue is not empty, and its files are of that queue; a task that moves
\* holds one file.
OfQueue(F, q) ==
  /\ IsFiniteSet(F) /\ F # {} /\ \A f \in F : QueueOf(f) = q
  /\ q[1] = "move" => \E f \in F : F = {f}
QueuesSorted(d) ==
  \A q \in Queues : \A i \in DOMAIN d.idle[q] : OfQueue(d.idle[q][i].files, q)

\* No two tasks in the queues have the same name.
Named(d) ==
  /\ \A q \in Queues : \A i \in DOMAIN d.idle[q] : d.idle[q][i].id \in 1 .. d.uuids
  /\ \A p, q \in Queues : \A i \in DOMAIN d.idle[p], j \in DOMAIN d.idle[q] :
       d.idle[p][i].id = d.idle[q][j].id => p = q /\ i = j

\* The tasks there were have kept their places, names and files; new ones have new names.
Grown(d, r) ==
  /\ d.uuids <= r.uuids
  /\ \A q \in Queues :
       /\ \A i \in DOMAIN d.idle[q] :
            /\ i \in DOMAIN r.idle[q] /\ r.idle[q][i].id = d.idle[q][i].id
            /\ d.idle[q][i].files \subseteq r.idle[q][i].files
       /\ \A i \in DOMAIN r.idle[q] \ DOMAIN d.idle[q] : d.uuids < r.idle[q][i].id

\* A task in the queue of file f has it.
Held(d, f) == \E i \in DOMAIN d.idle[QueueOf(f)] : f \in d.idle[QueueOf(f)][i].files

\* Where the task of Filed is, whether it is a new one or not.
FiledAt(d, r, f, k) ==
  LET q == QueueOf(f)
      s == d.idle[q]
      t == r.idle[q]
  IN  /\ \A p \in Queues \ {q} : r.idle[p] = d.idle[p]
      /\ DOMAIN t = DOMAIN s \cup {k} /\ \A i \in DOMAIN s \ {k} : t[i] = s[i]
      /\ k \in DOMAIN s => /\ t[k].id = s[k].id /\ t[k].files = s[k].files \cup {f}
                           /\ r.uuids = d.uuids /\ Route(f) = "merge"
      /\ k \notin DOMAIN s => /\ t[k].id = d.uuids + 1 /\ t[k].files = {f}
                              /\ r.uuids = d.uuids + 1

\* A file that gets a task gets it at one such position.
LEMMA FiledSomewhere ==
  ASSUME NEW d \in Db, NEW f \in File, NEW r, Filed(d, r, f), QueueOf(f) \in Queues
  PROVE  \E k : FiledAt(d, r, f, k)
<1>1. PICK q \in Queues : q = QueueOf(f)
  OBVIOUS
<1>2. PICK s \in Seq(Task) : s = d.idle[q]
  BY DbType
<1>3. PICK t : t = r.idle[q]
  OBVIOUS
<1>4. /\ d.idle \in [Queues -> Seq(Task)] /\ d.uuids \in Nat
      /\ r.idle = [d.idle EXCEPT ![q] = t]
  BY <1>1, <1>3, DbType DEF Filed
<1>5. \A p \in Queues \ {q} : r.idle[p] = d.idle[p]
  BY <1>4
<1>6. CASE r.uuids = d.uuids /\ JoinsLast(s, t, f) /\ Route(f) = "merge"
  <2>1. Len(s) \in DOMAIN s /\ s[Len(s)] \in Task
    BY <1>6 DEF JoinsLast
  <2>2. t = [s EXCEPT ![Len(s)] = Joined(s[Len(s)], f)]
    BY <1>6 DEF JoinsLast
  <2>3. PICK k : k = Len(s)
    OBVIOUS
  <2>4. PICK x : x = Joined(s[k], f)
    OBVIOUS
  <2>5. x.id = s[k].id /\ x.files = s[k].files \cup {f}
    BY <2>1, <2>3, <2>4, TaskJoined
  <2>6. k \in DOMAIN s /\ t = [s EXCEPT ![k] = x]
    BY <2>1, <2>2, <2>3, <2>4
  <2>7. DOMAIN t = DOMAIN s \cup {k} /\ t[k] = x /\ \A i \in DOMAIN s \ {k} : t[i] = s[i]
    BY <2>6
  <2>8. FiledAt(d, r, f, k)
    BY <1>1, <1>2, <1>3, <1>5, <1>6, <2>5, <2>6, <2>7 DEF FiledAt
  <2> QED  BY <2>8
<1>7. CASE r.uuids = d.uuids + 1 /\ t = Append(s, NewTask(r.uuids, f))
  <2>1. PICK x \in Task : x = NewTask(r.uuids, f) /\ x.id = r.uuids /\ x.files = {f}
    <3>1. r.uuids \in Nat
      <4>1. r.uuids = d.uuids + 1
        BY <1>7
      <4> QED  BY <1>4, <4>1
    <3> QED  BY <3>1, TaskMade
  <2>2. PICK k : k = Len(s) + 1
    OBVIOUS
  <2>3. /\ DOMAIN t = DOMAIN s \cup {k} /\ k \notin DOMAIN s /\ t[k] = x
        /\ \A i \in DOMAIN s : t[i] = s[i]
    BY <1>7, <2>1, <2>2, Appended
  <2>4. t[k].id = r.uuids /\ t[k].files = {f}
    BY <2>1, <2>3
  <2>5. FiledAt(d, r, f, k)
    BY <1>1, <1>2, <1>3, <1>5, <1>7, <2>3, <2>4 DEF FiledAt
  <2> QED  BY <2>5
<1> QED  BY <1>1, <1>2, <1>3, <1>6, <1>7 DEF Filed

\* A file that is put into a task disturbs none.
LEMMA FiledTasks ==
  ASSUME NEW d \in Db, NEW f \in File, NEW r, Filed(d, r, f), QueueOf(f) \in Queues
  PROVE  /\ Grown(d, r) /\ Held(r, f)
         /\ QueuesSorted(d) => QueuesSorted(r)
         /\ Named(d) => Named(r)
<1>1. PICK q \in Queues : q = QueueOf(f)
  OBVIOUS
<1>2. PICK k : FiledAt(d, r, f, k)
  BY FiledSomewhere
<1>3. PICK s, t : s = d.idle[q] /\ t = r.idle[q]
  OBVIOUS
<1>4. /\ \A p \in Queues \ {q} : r.idle[p] = d.idle[p]
      /\ DOMAIN t = DOMAIN s \cup {k} /\ \A i \in DOMAIN s \ {k} : t[i] = s[i]
      /\ k \in DOMAIN s => /\ t[k].id = s[k].id /\ t[k].files = s[k].files \cup {f}
                           /\ r.uuids = d.uuids /\ Route(f) = "merge"
      /\ k \notin DOMAIN s => /\ t[k].id = d.uuids + 1 /\ t[k].files = {f}
                              /\ r.uuids = d.uuids + 1
  BY <1>1, <1>2, <1>3 DEF FiledAt
<1>5. d.uuids \in Nat /\ r.uuids \in Nat /\ d.uuids <= r.uuids
  BY <1>4, DbType
<1>6. Grown(d, r)
  <2>1. ASSUME NEW p \in Queues
        PROVE  /\ \A i \in DOMAIN d.idle[p] :
                    /\ i \in DOMAIN r.idle[p] /\ r.idle[p][i].id = d.idle[p][i].id
                    /\ d.idle[p][i].files \subseteq r.idle[p][i].files
               /\ \A i \in DOMAIN r.idle[p] \ DOMAIN d.idle[p] : d.uuids < r.idle[p][i].id
    <3>1. CASE p # q
      BY <1>4, <3>1
    <3>2. CASE p = q
      <4>1. /\ \A i \in DOMAIN s : i \in DOMAIN t /\ t[i].id = s[i].id /\ s[i].files \subseteq t[i].files
            /\ \A i \in DOMAIN t \ DOMAIN s : i = k /\ t[i].id = d.uuids + 1
        BY <1>4
      <4> QED  BY <1>3, <1>5, <3>2, <4>1
    <3> QED  BY <3>1, <3>2
  <2> QED  BY <1>5, <2>1 DEF Grown
<1>7. Held(r, f)
  BY <1>1, <1>3, <1>4 DEF Held
<1>8. ASSUME QueuesSorted(d) PROVE QueuesSorted(r)
  <2>1. ASSUME NEW p \in Queues, NEW i \in DOMAIN r.idle[p] PROVE OfQueue(r.idle[p][i].files, p)
    <3>1. CASE p # q
      BY <1>4, <1>8, <3>1 DEF QueuesSorted
    <3>2. CASE p = q /\ i # k
      BY <1>3, <1>4, <1>8, <3>2 DEF QueuesSorted
    <3>3. CASE p = q /\ i = k
      <4>1. CASE k \in DOMAIN s
        <5>1. OfQueue(s[k].files, q) /\ r.idle[p][i].files = s[k].files \cup {f}
          BY <1>3, <1>4, <1>8, <3>3, <4>1 DEF QueuesSorted
        <5>2. IsFiniteSet(s[k].files \cup {f})
          BY <5>1, FS_AddElement DEF OfQueue
        <5>3. q[1] # "move"
          BY <1>1, <1>4, <4>1 DEF QueueOf
        <5> QED  BY <1>1, <3>3, <5>1, <5>2, <5>3 DEF OfQueue
      <4>2. CASE k \notin DOMAIN s
        <5>1. r.idle[p][i].files = {f}
          BY <1>3, <1>4, <3>3, <4>2
        <5>2. IsFiniteSet({f})
          BY FS_Singleton
        <5> QED  BY <1>1, <3>3, <5>1, <5>2 DEF OfQueue
      <4> QED  BY <4>1, <4>2
    <3> QED  BY <3>1, <3>2, <3>3
  <2> QED  BY <2>1 DEF QueuesSorted
<1>9. ASSUME Named(d) PROVE Named(r)
  <2>1. \A p \in Queues : \A i \in DOMAIN r.idle[p] :
           \/ i \in DOMAIN d.idle[p] /\ r.idle[p][i].id = d.idle[p][i].id
           \/ i = k /\ p = q /\ r.idle[p][i].id = d.uuids + 1 /\ r.uuids = d.uuids + 1
    BY <1>3, <1>4
  <2>2. \A p \in Queues : \A i \in DOMAIN d.idle[p] : d.idle[p][i].id \in 1 .. d.uuids
    BY <1>9 DEF Named
  <2>3. ASSUME NEW p \in Queues, NEW i \in DOMAIN r.idle[p] PROVE r.idle[p][i].id \in 1 .. r.uuids
    BY <1>5, <2>1, <2>2
  <2>4. ASSUME NEW p \in Queues, NEW o \in Queues,
               NEW i \in DOMAIN r.idle[p], NEW j \in DOMAIN r.idle[o],
               r.idle[p][i].id = r.idle[o][j].id
        PROVE  p = o /\ i = j
    <3>1. CASE i \in DOMAIN d.idle[p] /\ r.idle[p][i].id = d.idle[p][i].id
      <4>1. r.idle[p][i].id # d.uuids + 1
        BY <1>5, <2>2, <3>1
      <4>2. j \in DOMAIN d.idle[o] /\ r.idle[o][j].id = d.idle[o][j].id
        BY <2>1, <2>4, <4>1
      <4>3. d.idle[p][i].id = d.idle[o][j].id
        BY <2>4, <3>1, <4>2
      <4> QED  BY <1>9, <3>1, <4>2, <4>3 DEF Named
    <3>2. CASE i = k /\ p = q /\ r.idle[p][i].id = d.uuids + 1
      <4>1. ~(j \in DOMAIN d.idle[o] /\ r.idle[o][j].id = d.idle[o][j].id)
        BY <1>5, <2>2, <2>4, <3>2
      <4> QED  BY <2>1, <3>2, <4>1
    <3> QED  BY <2>1, <3>1, <3>2
  <2> QED  BY <2>3, <2>4 DEF Named
<1> QED  BY <1>6, <1>7, <1>8, <1>9

\* Tasks that grow and grow again have grown.
LEMMA GrownOn ==
  ASSUME NEW d \in Db, NEW m \in Db, NEW r \in Db, Grown(d, m), Grown(m, r)
  PROVE  Grown(d, r)
<1>1. d.uuids \in Nat /\ m.uuids \in Nat /\ r.uuids \in Nat /\ d.uuids <= r.uuids
  BY DbType DEF Grown
<1>2. ASSUME NEW q \in Queues, NEW i \in DOMAIN d.idle[q]
      PROVE  /\ i \in DOMAIN r.idle[q] /\ r.idle[q][i].id = d.idle[q][i].id
             /\ d.idle[q][i].files \subseteq r.idle[q][i].files
  <2>1. /\ i \in DOMAIN m.idle[q] /\ m.idle[q][i].id = d.idle[q][i].id
        /\ d.idle[q][i].files \subseteq m.idle[q][i].files
    BY DEF Grown
  <2>2. /\ i \in DOMAIN r.idle[q] /\ r.idle[q][i].id = m.idle[q][i].id
        /\ m.idle[q][i].files \subseteq r.idle[q][i].files
    BY <2>1 DEF Grown
  <2> QED  BY <2>1, <2>2
<1>3. ASSUME NEW q \in Queues, NEW i \in DOMAIN r.idle[q] \ DOMAIN d.idle[q]
      PROVE  d.uuids < r.idle[q][i].id
  <2>1. r.idle[q][i].id \in Nat
    <3>1. PICK s \in Seq(Task) : s = r.idle[q]
      BY DbType
    <3>2. s[i] \in Task
      BY <3>1
    <3> QED  BY <3>1, <3>2 DEF Task
  <2>2. CASE i \in DOMAIN m.idle[q]
    BY <2>2 DEF Grown
  <2>3. CASE i \notin DOMAIN m.idle[q]
    <3>1. m.uuids < r.idle[q][i].id /\ d.uuids <= m.uuids
      BY <2>3 DEF Grown
    <3> QED  BY <1>1, <2>1, <3>1
  <2> QED  BY <2>2, <2>3
<1> QED  BY <1>1, <1>2, <1>3 DEF Grown

\* What has the same tasks has grown.
LEMMA SameGrown ==
  ASSUME NEW d \in Db, NEW r, SameTasks(d, r)
  PROVE  /\ Grown(d, r)
         /\ QueuesSorted(d) => QueuesSorted(r)
         /\ Named(d) => Named(r)
BY DbType DEF SameTasks, Grown, QueuesSorted, Named

\* A file in a task stays in it.
LEMMA GrownHeld ==
  ASSUME NEW d, NEW r, Grown(d, r), NEW f \in File, Due(f), Held(d, f)
  PROVE  Held(r, f)
<1>1. QueueOf(f) \in Queues
  BY FileType, DueQueued DEF Queued
<1> QED  BY <1>1 DEF Grown, Held

\* An addition disturbs no task, and a file it indexes is in one if it is to be.
LEMMA AddedTasks ==
  ASSUME NEW d \in Db, NEW f \in File, NEW r, Added(d, r, f)
  PROVE  /\ Grown(d, r)
         /\ QueuesSorted(d) => QueuesSorted(r)
         /\ Named(d) => Named(r)
         /\ \A g \in r.files : g \in d.files \/ (g = f /\ (Due(f) => Held(r, f)))
<1>1. CASE SameTasks(d, r) /\ r.files = d.files
  BY <1>1, SameGrown
<1>2. CASE SameTasks(d, r) /\ r.files = d.files \cup {f} /\ ~Queued(f)
  BY <1>2, SameGrown, DueQueued
<1>3. CASE Filed(d, r, f) /\ r.files = d.files \cup {f} /\ Queued(f)
  <2>1. QueueOf(f) \in Queues
    BY <1>3, FileType DEF Queued
  <2>2. /\ Grown(d, r) /\ Held(r, f)
        /\ QueuesSorted(d) => QueuesSorted(r)
        /\ Named(d) => Named(r)
    BY <1>3, <2>1, FiledTasks
  <2> QED  BY <1>3, <2>2
<1> QED  BY <1>1, <1>2, <1>3 DEF Added, Counted, SameFiles

\* All files indexed by the additions are in tasks, and no task is disturbed.
NewHeld(d, r) == \A f \in r.files \ d.files : Due(f) => Held(r, f)

\* What a run over the additions of a call leaves in the queues.
LEMMA AddTasks ==
  ASSUME NEW d \in Db, NEW s \in Seq(File), NEW run, Adds(run, d, s), ~d.error,
         QueuesSorted(d), Named(d), NEW r, r = run[Len(s)]
  PROVE  r \in Db /\ Grown(d, r) /\ QueuesSorted(r) /\ Named(r) /\ NewHeld(d, r)
<1> DEFINE n == Len(s)
           P(i) == /\ run[i] \in Db /\ Grown(d, run[i]) /\ QueuesSorted(run[i]) /\ Named(run[i])
                   /\ NewHeld(d, run[i])
           G == {i \in 0 .. n : P(i)}
<1>1. n \in Nat
  OBVIOUS
<1>2. 0 \in G
  <2>1. run[0] = d /\ Grown(d, d) /\ NewHeld(d, d)
    BY SameGrown DEF Adds, SameTasks, NewHeld
  <2> QED  BY <1>1, <2>1
<1>3. ASSUME NEW i \in 0 .. n - 1, i \in G PROVE i + 1 \in G
  <2>1. i + 1 \in 0 .. n
    BY <1>1
  <2>2. P(i)
    BY <1>3
  <2>3. /\ run[i + 1] \in Db /\ s[i + 1] \in File
        /\ \/ run[i].error /\ run[i + 1] = run[i]
           \/ ~run[i].error /\ Added(run[i], run[i + 1], s[i + 1])
    BY <2>2, AddStep
  <2>4. CASE run[i].error
    BY <2>1, <2>2, <2>3, <2>4
  <2>5. CASE ~run[i].error
    <3>1. PICK x \in Db, f \in File : x = run[i] /\ f = s[i + 1]
      BY <2>2, <2>3
    <3>2. PICK y \in Db : y = run[i + 1]
      BY <2>3
    <3>3. /\ Grown(x, y) /\ QueuesSorted(y) /\ Named(y)
          /\ \A g \in y.files : g \in x.files \/ (g = f /\ (Due(f) => Held(y, f)))
      BY <2>2, <2>3, <2>5, <3>1, <3>2, AddedTasks
    <3>4. Grown(d, y)
      BY <2>2, <3>1, <3>3, GrownOn
    <3>5. NewHeld(d, y)
      <4>1. ASSUME NEW g \in y.files \ d.files, Due(g) PROVE Held(y, g)
        <5>1. CASE g \in x.files
          <6>1. Held(x, g) /\ g \in File
            BY <2>2, <3>1, <4>1, <5>1, DbType DEF NewHeld
          <6> QED  BY <3>3, <4>1, <6>1, GrownHeld
        <5>2. CASE g \notin x.files
          BY <3>3, <4>1, <5>2
        <5> QED  BY <5>1, <5>2
      <4> QED  BY <4>1 DEF NewHeld
    <3> QED  BY <2>1, <3>2, <3>3, <3>4, <3>5
  <2> QED  BY <2>4, <2>5
<1>4. 0 .. n \subseteq G
  <2> HIDE DEF G, n
  <2> QED  BY <1>1, <1>2, <1>3, Induct
<1>5. P(n)
  BY <1>1, <1>4
<1> QED  BY <1>5

\* What the script does to the tasks.
LEMMA ScriptTasks ==
  ASSUME NEW d \in Db, NEW c, c.add \in Seq(File), c.rm \in Seq(File),
         QueuesSorted(d), Named(d), NEW r, r = Script(d, c)
  PROVE  Grown(d, r) /\ QueuesSorted(r) /\ Named(r) /\ NewHeld(d, r)
<1>1. PICK e : e = [d EXCEPT !.error = FALSE]
  OBVIOUS
<1>2. e \in Db /\ ~e.error /\ e.files = d.files /\ SameTasks(d, e)
  BY <1>1 DEF Db, SameTasks
<1>3. QueuesSorted(e) /\ Named(e) /\ Grown(d, e)
  BY <1>2, SameGrown
<1>4. PICK adds, deletes : /\ Adds(adds, e, c.add)
                           /\ Deletes(deletes, adds[Len(c.add)], c.rm)
                           /\ r = deletes[Len(c.rm)]
  BY <1>1, ScriptInTwo
<1>5. PICK m : m = adds[Len(c.add)]
  OBVIOUS
<1>6. m \in Db /\ Grown(e, m) /\ QueuesSorted(m) /\ Named(m) /\ NewHeld(e, m)
  BY <1>2, <1>3, <1>4, <1>5, AddTasks
<1>7. Grown(d, m)
  BY <1>2, <1>3, <1>6, GrownOn
<1>8. r \in Db /\ SameTasks(m, r) /\ r.files \subseteq m.files
  <2>1. CASE m.error
    BY <1>4, <1>5, <1>6, <2>1, DeleteStops DEF SameTasks
  <2>2. CASE ~m.error
    <3>1. r \in Db /\ SameTasks(m, r) /\ r.files = m.files \ ToSet(c.rm)
      BY <1>4, <1>5, <1>6, <2>2, DeletePhase
    <3> QED  BY <3>1
  <2> QED  BY <2>1, <2>2
<1>9. Grown(m, r) /\ QueuesSorted(r) /\ Named(r)
  BY <1>6, <1>8, SameGrown
<1>10. Grown(d, r)
  BY <1>6, <1>7, <1>8, <1>9, GrownOn
<1>11. NewHeld(d, r)
  BY <1>2, <1>6, <1>8 DEF NewHeld, Held, SameTasks
<1> QED  BY <1>9, <1>10, <1>11

-----------------------------------------------------------------------------
(* The folders.                                                            *)

\* The files of a directory.
In(F, x) == {f \in F : Dir(f) = x}

\* The hash of the folders counts the files of each directory and has no other.
Exact(d) ==
  /\ IsFiniteSet(d.files)
  /\ \A x \in Dirs : d.count[x] = Cardinality(In(d.files, x))
  /\ d.folders = {Dir(f) : f \in d.files}

\* The files of a directory are finitely many.
LEMMA InFinite ==
  ASSUME NEW F, IsFiniteSet(F), NEW x
  PROVE  IsFiniteSet(In(F, x)) /\ Cardinality(In(F, x)) \in Nat
<1>1. In(F, x) \subseteq F
  BY DEF In
<1> HIDE DEF In
<1> QED  BY <1>1, FS_Subset, FS_CardinalityType

\* One file more.
LEMMA CountedExact ==
  ASSUME NEW d \in Db, Exact(d), NEW f \in File, f \notin d.files, NEW r, Counted(d, r, f)
  PROVE  Exact(r)
<1>1. /\ d.count \in [Dirs -> Int] /\ Dir(f) \in Dirs
      /\ r.files = d.files \cup {f} /\ r.count = [d.count EXCEPT ![Dir(f)] = @ + 1]
      /\ r.folders = d.folders \cup {Dir(f)}
  BY DbType, FileType DEF Counted
<1>2. /\ IsFiniteSet(d.files) /\ d.folders = {Dir(g) : g \in d.files}
      /\ \A x \in Dirs : d.count[x] = Cardinality(In(d.files, x))
  BY DEF Exact
<1>3. IsFiniteSet(r.files)
  BY <1>1, <1>2, FS_AddElement
<1>4. ASSUME NEW x \in Dirs PROVE r.count[x] = Cardinality(In(r.files, x))
  <2>1. IsFiniteSet(In(d.files, x)) /\ Cardinality(In(d.files, x)) \in Nat
    BY <1>2, InFinite
  <2>2. CASE x = Dir(f)
    <3>1. In(r.files, x) = In(d.files, x) \cup {f} /\ f \notin In(d.files, x)
      BY <1>1, <2>2 DEF In
    <3>2. Cardinality(In(r.files, x)) = Cardinality(In(d.files, x)) + 1
      BY <2>1, <3>1, FS_AddElement
    <3> QED  BY <1>1, <1>2, <2>2, <3>2
  <2>3. CASE x # Dir(f)
    <3>1. In(r.files, x) = In(d.files, x)
      BY <1>1, <2>3 DEF In
    <3> QED  BY <1>1, <1>2, <2>3, <3>1
  <2> QED  BY <2>2, <2>3
<1>5. r.folders = {Dir(g) : g \in r.files}
  BY <1>1, <1>2
<1> QED  BY <1>3, <1>4, <1>5 DEF Exact

\* One file less.
LEMMA UncountedExact ==
  ASSUME NEW d \in Db, Exact(d), NEW f \in File, f \in d.files, NEW r, Uncounted(d, r, f),
         r.files = d.files \ {f}
  PROVE  Exact(r)
<1>1. /\ d.count \in [Dirs -> Int] /\ Dir(f) \in Dirs
      /\ r.count = [d.count EXCEPT ![Dir(f)] = @ - 1]
      /\ r.folders = IF d.count[Dir(f)] = 1 THEN d.folders \ {Dir(f)}
                     ELSE d.folders \cup {Dir(f)}
  BY DbType, FileType DEF Uncounted
<1>2. /\ IsFiniteSet(d.files) /\ d.folders = {Dir(g) : g \in d.files}
      /\ \A x \in Dirs : d.count[x] = Cardinality(In(d.files, x))
  BY DEF Exact
<1>3. IsFiniteSet(r.files)
  BY <1>2, FS_RemoveElement
<1>4. /\ IsFiniteSet(In(r.files, Dir(f))) /\ Cardinality(In(r.files, Dir(f))) \in Nat
      /\ Cardinality(In(d.files, Dir(f))) \in Nat
      /\ Cardinality(In(r.files, Dir(f))) = Cardinality(In(d.files, Dir(f))) - 1
  <2>1. In(r.files, Dir(f)) = In(d.files, Dir(f)) \ {f} /\ f \in In(d.files, Dir(f))
    BY DEF In
  <2>2. IsFiniteSet(In(d.files, Dir(f))) /\ Cardinality(In(d.files, Dir(f))) \in Nat
    BY <1>2, InFinite
  <2> QED  BY <1>3, <2>1, <2>2, InFinite, FS_RemoveElement
<1>5. ASSUME NEW x \in Dirs PROVE r.count[x] = Cardinality(In(r.files, x))
  <2>1. CASE x = Dir(f)
    BY <1>1, <1>2, <1>4, <2>1
  <2>2. CASE x # Dir(f)
    <3>1. In(r.files, x) = In(d.files, x)
      BY <2>2 DEF In
    <3> QED  BY <1>1, <1>2, <2>2, <3>1
  <2> QED  BY <2>1, <2>2
<1>6. d.count[Dir(f)] = 1 <=> In(r.files, Dir(f)) = {}
  <2>1. Cardinality(In(r.files, Dir(f))) = 0 <=> In(r.files, Dir(f)) = {}
    BY <1>4, FS_EmptySet
  <2>2. d.count[Dir(f)] = Cardinality(In(d.files, Dir(f)))
    BY <1>1, <1>2
  <2> QED  BY <1>4, <2>1, <2>2
<1>7. r.folders = {Dir(g) : g \in r.files}
  <2>1. CASE In(r.files, Dir(f)) = {}
    <3>1. \A g \in r.files : Dir(g) # Dir(f)
      BY <2>1 DEF In
    <3>2. r.folders = d.folders \ {Dir(f)}
      BY <1>1, <1>6, <2>1
    <3>3. \A x : x \in r.folders <=> \E g \in r.files : Dir(g) = x
      BY <1>2, <3>1, <3>2
    <3> QED  BY <3>3
  <2>2. CASE In(r.files, Dir(f)) # {}
    <3>1. \E g \in r.files : Dir(g) = Dir(f)
      BY <2>2 DEF In
    <3>2. r.folders = d.folders \cup {Dir(f)}
      BY <1>1, <1>6, <2>2
    <3>3. \A x : x \in r.folders <=> \E g \in r.files : Dir(g) = x
      BY <1>2, <3>1, <3>2
    <3> QED  BY <3>3
  <2> QED  BY <2>1, <2>2
<1> QED  BY <1>3, <1>5, <1>7 DEF Exact

\* Additions of files that are not indexed, none twice, keep the folders exact.
LEMMA AddExact ==
  ASSUME NEW d \in Db, NEW s \in Seq(File), NEW run, Adds(run, d, s), ~d.error,
         Exact(d), IsInjective(s), ToSet(s) \cap d.files = {}, NEW r, r = run[Len(s)]
  PROVE  Exact(r)
<1> DEFINE n == Len(s)
           P(i) == /\ run[i] \in Db /\ Exact(run[i])
                   /\ \A g \in run[i].files : g \in d.files \/ \E k \in 1 .. i : g = s[k]
           G == {i \in 0 .. n : P(i)}
<1>1. n \in Nat /\ DOMAIN s = 1 .. n /\ ToSet(s) = {s[k] : k \in 1 .. n}
  BY DEF ToSet
<1>2. 0 \in G
  <2>1. run[0] = d
    BY DEF Adds
  <2> QED  BY <1>1, <2>1
<1>3. ASSUME NEW i \in 0 .. n - 1, i \in G PROVE i + 1 \in G
  <2>1. i + 1 \in 0 .. n /\ i + 1 \in 1 .. n /\ \A k \in 1 .. i : k \in 1 .. i + 1 /\ k \in 1 .. n /\ k # i + 1
    BY <1>1
  <2>2. P(i)
    BY <1>3
  <2>3. /\ run[i + 1] \in Db /\ s[i + 1] \in File
        /\ \/ run[i].error /\ run[i + 1] = run[i]
           \/ ~run[i].error /\ Added(run[i], run[i + 1], s[i + 1])
    BY <2>2, AddStep
  <2>4. s[i + 1] \notin run[i].files
    <3>1. s[i + 1] \notin d.files
      BY <1>1, <2>1
    <3>2. \A k \in 1 .. i : s[k] # s[i + 1]
      BY <1>1, <2>1 DEF IsInjective
    <3> QED  BY <2>2, <3>1, <3>2
  <2>5. CASE run[i + 1].files = run[i].files /\ run[i + 1].count = run[i].count
             /\ run[i + 1].folders = run[i].folders
    <3>1. Exact(run[i + 1])
      BY <2>2, <2>5 DEF Exact
    <3> QED  BY <2>1, <2>2, <2>3, <2>5, <3>1
  <2>6. CASE Counted(run[i], run[i + 1], s[i + 1])
    <3>1. PICK x \in Db, f \in File : x = run[i] /\ f = s[i + 1]
      BY <2>2, <2>3
    <3>2. PICK y : y = run[i + 1]
      OBVIOUS
    <3>3. Exact(y) /\ y.files = x.files \cup {f}
      BY <2>2, <2>4, <2>6, <3>1, <3>2, CountedExact DEF Counted
    <3>4. \A g \in y.files : g \in d.files \/ \E k \in 1 .. i + 1 : g = s[k]
      BY <2>1, <2>2, <3>1, <3>3
    <3> QED  BY <2>1, <2>3, <3>2, <3>3, <3>4
  <2> QED  BY <2>3, <2>5, <2>6 DEF Added, SameFiles
<1>4. 0 .. n \subseteq G
  <2> HIDE DEF G, n
  <2> QED  BY <1>1, <1>2, <1>3, Induct
<1>5. P(n)
  BY <1>1, <1>4
<1> QED  BY <1>5

\* So do removals of indexed files, none twice.
LEMMA DeleteExact ==
  ASSUME NEW d \in Db, NEW s \in Seq(File), NEW run, Deletes(run, d, s), ~d.error,
         Exact(d), IsInjective(s), ToSet(s) \subseteq d.files, NEW r, r = run[Len(s)]
  PROVE  Exact(r)
<1> DEFINE n == Len(s)
           P(i) == /\ run[i] \in Db /\ ~run[i].error /\ Exact(run[i])
                   /\ \A g \in d.files : g \in run[i].files \/ \E k \in 1 .. i : g = s[k]
           G == {i \in 0 .. n : P(i)}
<1>1. n \in Nat /\ DOMAIN s = 1 .. n /\ ToSet(s) = {s[k] : k \in 1 .. n}
  BY DEF ToSet
<1>2. 0 \in G
  <2>1. run[0] = d
    BY DEF Deletes
  <2> QED  BY <1>1, <2>1
<1>3. ASSUME NEW i \in 0 .. n - 1, i \in G PROVE i + 1 \in G
  <2>1. /\ i + 1 \in 0 .. n /\ i + 1 \in 1 .. n /\ s[i + 1] \in File
        /\ \A k \in 1 .. i : k \in 1 .. i + 1 /\ k \in 1 .. n /\ k # i + 1
    BY <1>1
  <2>2. P(i)
    BY <1>3
  <2>3. s[i + 1] \in run[i].files
    <3>1. s[i + 1] \in d.files
      BY <1>1, <2>1
    <3>2. \A k \in 1 .. i : s[k] # s[i + 1]
      BY <1>1, <2>1 DEF IsInjective
    <3> QED  BY <2>2, <3>1, <3>2
  <2>4. PICK x \in Db, f \in File : x = run[i] /\ f = s[i + 1]
    BY <2>1, <2>2
  <2>5. PICK y : y = run[i + 1]
    OBVIOUS
  <2>6. ~x.error /\ y = DeleteEntry(x, f)
    BY <2>2, <2>4, <2>5 DEF Deletes, DeleteNext
  <2>7. y \in Db /\ ~y.error /\ y.files = x.files \ {f} /\ Uncounted(x, y, f)
    BY <2>6, DeleteDoes
  <2>8. Exact(y)
    BY <2>2, <2>3, <2>4, <2>7, UncountedExact
  <2>9. \A g \in d.files : g \in y.files \/ \E k \in 1 .. i + 1 : g = s[k]
    BY <2>1, <2>2, <2>4, <2>7
  <2> QED  BY <2>1, <2>5, <2>7, <2>8, <2>9
<1>4. 0 .. n \subseteq G
  <2> HIDE DEF G, n
  <2> QED  BY <1>1, <1>2, <1>3, Induct
<1>5. P(n)
  BY <1>1, <1>4
<1> QED  BY <1>5

\* The script keeps the folders exact if no file is added twice or removed twice.
LEMMA ScriptExact ==
  ASSUME NEW d \in Db, NEW c, c.add \in Seq(File), c.rm \in Seq(File), NEW r, r = Script(d, c),
         Exact(d), IsInjective(c.add), ToSet(c.add) \cap d.files = {},
         r.error \/ (IsInjective(c.rm) /\ ToSet(c.rm) \subseteq d.files)
  PROVE  Exact(r)
<1>1. PICK e : e = [d EXCEPT !.error = FALSE]
  OBVIOUS
<1>2. /\ e \in Db /\ ~e.error /\ e.files = d.files /\ Exact(e)
  BY <1>1 DEF Db, Exact
<1>3. PICK adds, deletes : /\ Adds(adds, e, c.add)
                           /\ Deletes(deletes, adds[Len(c.add)], c.rm)
                           /\ r = deletes[Len(c.rm)]
  BY <1>1, ScriptInTwo
<1>4. PICK m : m = adds[Len(c.add)]
  OBVIOUS
<1>5. m \in Db /\ e.files \subseteq m.files
  BY <1>2, <1>3, <1>4, AddPhase
<1>6. Exact(m)
  BY <1>2, <1>3, <1>4, AddExact
<1>7. CASE m.error
  BY <1>3, <1>4, <1>6, <1>7, DeleteStops
<1>8. CASE ~m.error
  <2>1. ~r.error
    BY <1>3, <1>4, <1>5, <1>8, DeletePhase
  <2>2. IsInjective(c.rm) /\ ToSet(c.rm) \subseteq m.files
    BY <1>2, <1>5, <2>1
  <2> QED  BY <1>3, <1>4, <1>5, <1>6, <1>8, <2>2, DeleteExact
<1> QED  BY <1>7, <1>8

-----------------------------------------------------------------------------
(* Queries.                                                                *)

\* The hour of a time and the time are of the same day, as days are whole hours.
LEMMA HourInDay ==
  ASSUME NEW t \in Nat
  PROVE  DayOf(t \div Hour) = t \div Day
<1>1. Hour \in Nat \ {0} /\ Day \in Nat \ {0} /\ Day % Hour = 0
  BY RedisIndexAssumption
<1>2. PICK m \in Nat : Day = Hour * m
  <2>1. Day \div Hour \in Nat /\ Day = Hour * (Day \div Hour) + (Day % Hour)
    BY <1>1, Divided
  <2>2. Day = Hour * (Day \div Hour)
    BY <1>1, <2>1
  <2> QED  BY <2>1, <2>2
<1>3. PICK h \in Nat : h = t \div Hour
  BY <1>1, Divided
<1>4. PICK D \in Nat : D = t \div Day
  BY <1>1, Divided
<1>5. Hour * h <= t
  BY <1>1, <1>3, Divided
<1>6. Day * D <= t /\ t < Day * D + Day
  <2>1. t = Day * D + (t % Day) /\ t % Day \in 0 .. Day - 1
    BY <1>1, <1>4, Divided
  <2>2. Day * D \in Nat
    BY <1>1
  <2> QED  BY <1>1, <2>1, <2>2
<1>7. Day * D <= Hour * h
  <2>1. PICK k \in Nat : k = m * D
    OBVIOUS
  <2>2. Day * D = Hour * k
    BY <1>1, <1>2, <2>1
  <2>3. (Hour * k) \div Hour = k
    <3>1. Hour * k + 0 = Hour * k /\ 0 \in 0 .. Hour - 1
      BY <1>1
    <3> QED  BY <1>1, <3>1, DividedIs
  <2>4. k <= h
    <3>1. Hour * k \in Nat /\ Hour * k <= t
      BY <1>1, <1>6, <2>2
    <3> QED  BY <1>1, <1>3, <2>3, <3>1, DividedOrder
  <2> QED  BY <1>1, <2>2, <2>4, TimesOrder
<1>8. PICK x \in Nat : x = Hour * h
  BY <1>1
<1>9. PICK y \in Nat : y = Day * D
  BY <1>1
<1>10. x - y \in 0 .. Day - 1 /\ y + (x - y) = x
  BY <1>1, <1>5, <1>6, <1>7, <1>8, <1>9
<1>11. x \div Day = D
  <2>1. PICK w \in 0 .. Day - 1 : w = x - y
    BY <1>10
  <2>2. x = Day * D + w
    BY <1>9, <1>10, <2>1
  <2> QED  BY <1>1, <2>2, DividedIs
<1>12. h * Hour = x
  BY <1>1, <1>8
<1> QED  BY <1>3, <1>4, <1>11, <1>12 DEF DayOf

\* The directory of a row that was written to that of its hour.
LEMMA RowTimes ==
  ASSUME NEW f \in File, NEW row \in f.rows, Home[row] = MinTime[row] \div Hour
  PROVE  /\ MinTime[row] \in Nat /\ Dir(f) \in Nat /\ DayOf(Dir(f)) \in Nat
         /\ Dir(f) = MinTime[row] \div Hour /\ DayOf(Dir(f)) = MinTime[row] \div Day
         /\ Dir(f) * Hour <= MinTime[row]
<1>1. Hour \in Nat \ {0} /\ Day \in Nat \ {0} /\ MinTime[row] \in Nat
  BY RedisIndexAssumption, FileType
<1>2. Dir(f) = MinTime[row] \div Hour
  BY FileType
<1>3. DayOf(Dir(f)) = MinTime[row] \div Day
  BY <1>1, <1>2, HourInDay
<1>4. Dir(f) \in Nat /\ Hour * Dir(f) <= MinTime[row]
  <2>1. PICK t \in Nat : t = MinTime[row]
    BY <1>1
  <2>2. PICK h \in Nat : h = t \div Hour
    BY <1>1, Divided
  <2>3. t = Hour * h + (t % Hour) /\ t % Hour \in 0 .. Hour - 1
    BY <1>1, <2>2, Divided
  <2>4. Hour * h <= t
    BY <1>1, <2>3
  <2> QED  BY <1>2, <2>1, <2>2, <2>4
<1>5. DayOf(Dir(f)) \in Nat
  BY <1>1, <1>3, Divided
<1>6. Dir(f) * Hour = Hour * Dir(f)
  BY <1>1, <1>4
<1> QED  BY <1>1, <1>2, <1>3, <1>4, <1>5, <1>6

\* The directory of a row that is sought is not before the hour of After.
LEMMA HourOfAfter ==
  ASSUME NEW r \in Ranges, NEW f \in File, NEW row \in f.rows, Sought(r, row), r.after > 0
  PROVE  r.after \div Hour <= Dir(f) /\ r.after - (r.after % Hour) <= Dir(f) * Hour
<1>1. PICK A \in Nat : A = r.after
  BY RedisIndexAssumption
<1>2. Hour \in Nat \ {0}
  BY RedisIndexAssumption
<1>3. PICK a \in Nat : a = A \div Hour
  BY <1>2, Divided
<1>4. A = Hour * a + (A % Hour) /\ A % Hour \in 0 .. Hour - 1
  BY <1>2, <1>3, Divided
<1>5. PICK x \in Nat : x = Hour * a
  BY <1>2
<1>6. A - (A % Hour) = x
  BY <1>2, <1>4, <1>5
<1>7. MinTime[row] \in Nat /\ Dir(f) \in Nat /\ Dir(f) = MinTime[row] \div Hour
  BY RowTimes DEF Sought
<1>8. x <= MinTime[row]
  BY <1>1, <1>6 DEF Sought
<1>9. x \div Hour = a
  <2>1. x = Hour * a + 0 /\ 0 \in 0 .. Hour - 1
    BY <1>2, <1>5
  <2> QED  BY <1>2, <2>1, DividedIs
<1>10. a <= Dir(f)
  BY <1>2, <1>7, <1>8, <1>9, DividedOrder
<1>11. x <= Hour * Dir(f) /\ Hour * Dir(f) = Dir(f) * Hour
  BY <1>2, <1>5, <1>7, <1>10, TimesOrder
<1> QED  BY <1>1, <1>3, <1>6, <1>10, <1>11

\* The hours of files with a row that is sought are read.
LEMMA HoursRead ==
  ASSUME NEW r \in Ranges, NEW f \in File, NEW row \in f.rows, Sought(r, row)
  PROVE  InHours(r, Dir(f))
<1>1. r.after \in Nat /\ r.before \in Nat /\ Hour \in Nat \ {0}
  BY RedisIndexAssumption
<1>2. Dir(f) \in Nat /\ Dir(f) * Hour \in Nat /\ MinTime[row] \in Nat /\ Dir(f) * Hour <= MinTime[row]
  BY <1>1, RowTimes DEF Sought
<1>3. r.after - (r.after % Hour) <= Dir(f) * Hour
  <2>1. CASE r.after = 0
    <3>1. r.after % Hour \in 0 .. Hour - 1
      BY <1>1, Divided
    <3> QED  BY <1>1, <1>2, <2>1, <3>1
  <2>2. CASE r.after > 0
    BY <2>2, HourOfAfter
  <2> QED  BY <1>1, <2>1, <2>2
<1>4. ASSUME r.before > 0 PROVE Dir(f) * Hour <= r.before
  <2>1. MinTime[row] <= r.before
    BY <1>4 DEF Sought
  <2> QED  BY <1>1, <1>2, <2>1
<1> QED  BY <1>3, <1>4 DEF InHours

\* The day of After is not after that of the file.
LEMMA DayOfAfter ==
  ASSUME NEW r \in Ranges, NEW f \in File, NEW row \in f.rows, Sought(r, row), r.after > 0
  PROVE  r.after \div Day <= DayOf(Dir(f))
<1>1. Day \in Nat \ {0} /\ Hour \in Nat \ {0}
  BY RedisIndexAssumption
<1>2. PICK A \in Nat : A = r.after
  BY RedisIndexAssumption
<1>3. PICK a \in Nat : a = A \div Hour
  BY <1>1, Divided
<1>4. PICK h \in Nat : h = Dir(f)
  BY RowTimes DEF Sought
<1>5. a <= h
  BY <1>2, <1>3, <1>4, HourOfAfter
<1>6. Hour * a <= Hour * h /\ Hour * a = a * Hour /\ Hour * h = h * Hour
  BY <1>1, <1>5, TimesOrder
<1>7. a * Hour \in Nat /\ h * Hour \in Nat
  BY <1>1
<1>8. DayOf(a) <= DayOf(h)
  BY <1>1, <1>6, <1>7, DividedOrder DEF DayOf
<1>9. DayOf(a) = A \div Day
  BY <1>3, HourInDay
<1> QED  BY <1>2, <1>4, <1>8, <1>9

\* A number whose quotient is not negative is not.
LEMMA DividedNat ==
  ASSUME NEW x \in Int, NEW n \in Nat \ {0}, x \div n \in Nat
  PROVE  x \in Nat
OBVIOUS

\* The days of files with a row that is sought are read, if ReadsDays says so.
LEMMA DaysRead ==
  ASSUME NEW r \in Ranges, NEW f \in File, NEW row \in f.rows, Sought(r, row), ReadsDays(r)
  PROVE  DayOf(Dir(f)) \in MainKeys(r)
<1>1. /\ r.after \in Nat /\ r.before \in Nat /\ r.zone \in Int
      /\ Day \in Nat \ {0} /\ Hour \in Nat \ {0}
  BY RedisIndexAssumption
<1>2. PICK D \in Nat : D = DayOf(Dir(f)) /\ D = MinTime[row] \div Day /\ MinTime[row] \in Nat
  BY RowTimes DEF Sought
<1>3. PICK A \in Nat : A = r.after \div Day
  BY <1>1, Divided
<1>4. PICK v \in 0 .. Day - 1 : v = r.after % Day /\ r.after = Day * A + v
  BY <1>1, <1>3, Divided
<1>5. A <= D
  <2>1. CASE r.after = 0
    <3>1. (Day * 0 + 0) \div Day = 0
      <4>1. 0 \in 0 .. Day - 1
        BY <1>1
      <4> QED  BY <1>1, <4>1, DividedIs
    <3>2. Day * 0 + 0 = 0
      BY <1>1
    <3> QED  BY <1>3, <2>1, <3>1, <3>2
  <2>2. CASE r.after > 0
    BY <1>2, <1>3, <2>2, DayOfAfter
  <2> QED  BY <1>1, <2>1, <2>2
<1>6. CASE r.after > 0 /\ r.before > 0
  <2>1. MinTime[row] <= r.before
    BY <1>6 DEF Sought
  <2>2. PICK B \in Nat : B = r.before \div Day
    BY <1>1, Divided
  <2>3. PICK w \in 0 .. Day - 1 : w = r.before % Day /\ r.before = Day * B + w
    BY <1>1, <2>2, Divided
  <2>4. D <= B /\ v < w
    <3>1. D <= B
      BY <1>1, <1>2, <2>1, <2>2, DividedOrder
    <3>2. v < w
      BY <1>4, <1>6, <2>3 DEF ReadsDays
    <3> QED  BY <3>1, <3>2
  <2>5. PICK k \in Nat : k = D - A
    BY <1>5
  <2>6. PICK x \in Nat : x = Day * D
    BY <1>1
  <2>7. r.after + k * Day = x + v
    <3>1. Day * A + k * Day = Day * D
      BY <1>1, <2>5
    <3>2. PICK m \in Nat : m = Day * A
      BY <1>1
    <3>3. PICK n \in Nat : n = k * Day
      BY <1>1
    <3>4. r.after = m + v /\ m + n = x
      BY <1>4, <2>6, <3>1, <3>2, <3>3
    <3>5. r.after + n = x + v
      BY <1>1, <3>4
    <3> QED  BY <3>3, <3>5
  <2>8. x + v < r.before
    <3>1. x <= Day * B /\ Day * B \in Nat
      BY <1>1, <2>4, <2>6, TimesOrder
    <3> QED  BY <1>1, <2>3, <2>4, <3>1
  <2>9. k <= r.before
    <3>1. D <= x
      BY <1>1, <2>6
    <3> QED  BY <1>1, <2>5, <2>6, <2>8, <3>1
  <2>10. (r.after + r.zone + k * Day) \div Day = D
    <3>1. PICK y \in Int : y = r.after + r.zone
      BY <1>1
    <3>2. y \div Day = A
      BY <1>3, <1>6, <3>1 DEF ReadsDays
    <3>3. y \in Nat
      BY <1>1, <3>2, DividedNat
    <3>4. PICK z \in 0 .. Day - 1 : y = Day * A + z
      BY <1>1, <3>2, <3>3, Divided
    <3>5. Day * A + k * Day = Day * D
      BY <1>1, <2>5
    <3>6. PICK m \in Nat : m = Day * A
      BY <1>1
    <3>7. PICK n \in Nat : n = k * Day
      BY <1>1
    <3>8. y = m + z /\ m + n = Day * D
      BY <3>4, <3>5, <3>6, <3>7
    <3>9. y + n = Day * D + z
      BY <1>1, <3>8
    <3>10. (Day * D + z) \div Day = D
      BY <1>1, DividedIs
    <3> QED  BY <3>1, <3>7, <3>9, <3>10
  <2>11. k \in {i \in 0 .. r.before : r.after + i * Day < r.before}
    BY <1>1, <2>7, <2>8, <2>9
  <2> QED  BY <1>2, <1>6, <2>10, <2>11 DEF MainKeys
<1>7. CASE ~(r.after > 0 /\ r.before > 0)
  <2>1. ASSUME r.before > 0 PROVE D * Day <= r.before
    <3>1. MinTime[row] <= r.before
      BY <2>1 DEF Sought
    <3>2. PICK t \in Nat : t = MinTime[row]
      BY <1>2
    <3>3. D = t \div Day
      BY <1>2, <3>2
    <3>4. t = Day * D + (t % Day) /\ t % Day \in 0 .. Day - 1
      BY <1>1, <3>3, Divided
    <3>5. Day * D = D * Day /\ Day * D \in Nat
      BY <1>1
    <3> QED  BY <1>1, <3>1, <3>2, <3>4, <3>5
  <2>2. Dir(f) \in Dirs
    BY FileType
  <2> QED  BY <1>2, <1>3, <1>5, <1>7, <2>1, <2>2 DEF MainKeys
<1> QED  BY <1>6, <1>7

\* A query returns the indexed files with a row that is sought.
LEMMA QueryFinds ==
  ASSUME NEW r \in Ranges, NEW f \in File, f \in db.files, ReadsDays(r),
         NEW row \in f.rows, Sought(r, row)
  PROVE  f \in Query(r)
<1>1. InRange(r, f)
  BY DEF Sought, InRange
<1> QED  BY <1>1, HoursRead, DaysRead DEF Query

-----------------------------------------------------------------------------
(* The shape of the state.                                                 *)

\* The elements of a finite set in a sequence.
LEMMA SetInSeq ==
  ASSUME NEW T, NEW S \in SUBSET T, IsFiniteSet(S), NEW s, s = SetToSeq(S)
  PROVE  s \in Seq(T) /\ ToSet(s) = S /\ IsInjective(s)
<1>1. PICK n \in Nat : n = Cardinality(S)
  BY FS_CardinalityType
<1>2. \E f \in [1 .. n -> S] : IsInjective(f)
  BY <1>1, FS_CardinalityType DEF ExistsBijection, Bijection, Injection
<1>3. s \in [1 .. n -> S] /\ IsInjective(s)
  <2>1. s = CHOOSE f \in [1 .. n -> S] : IsInjective(f)
    BY <1>1 DEF SetToSeq
  <2> QED  BY <1>2, <2>1
<1>4. s \in Injection(1 .. n, S)
  BY <1>3 DEF Injection
<1>5. Cardinality(1 .. n) = n
  BY <1>1, FS_Interval
<1>6. s \in Surjection(1 .. n, S)
  BY <1>1, <1>4, <1>5, FS_Injection
<1>7. ToSet(s) = S
  <2>1. DOMAIN s = 1 .. n
    BY <1>3
  <2>2. \A x : x \in S <=> \E i \in 1 .. n : s[i] = x
    BY <1>3, <1>6 DEF Surjection
  <2> QED  BY <2>1, <2>2 DEF ToSet
<1>8. s \in Seq(T)
  <2>1. s \in [1 .. n -> T]
    BY <1>3
  <2> QED  BY <2>1
<1> QED  BY <1>3, <1>7, <1>8

\* Files of one queue, as a task has them.
Sorted(F) == \E q \in Queues : OfQueue(F, q)
Job ==
  {j \in [id : Nat, files : SUBSET File, again : Seq(File), to : Nat] :
     ToSet(j.again) \subseteq j.files}

\* They are of one route, layer and directory.
LEMMA SortedAlike ==
  ASSUME NEW F \in SUBSET File, Sorted(F), NEW f \in F, NEW g \in F
  PROVE  /\ Route(f) = Route(g) /\ Route(f) \in {"merge", "move"}
         /\ f.layer = g.layer /\ f.layer \in Layers /\ Dir(f) = Dir(g)
<1>1. PICK q \in Queues : OfQueue(F, q)
  BY DEF Sorted
<1>2. QueueOf(f) = q /\ QueueOf(g) = q
  BY <1>1 DEF OfQueue
<1>3. q[1] \in {"merge", "move"} /\ q[2] \in Layers
  BY DEF Queues
<1>4. \A h : QueueOf(h) = q => Route(h) = q[1] /\ h.layer = q[2]
  BY DEF QueueOf
<1>5. Dir(f) = Dir(g)
  <2>1. CASE q[1] = "merge"
    <3>1. \A h : QueueOf(h) = q => Dir(h) = q[4]
      BY <1>4, <2>1 DEF QueueOf
    <3> QED  BY <1>2, <3>1
  <2>2. CASE q[1] = "move"
    BY <1>1, <2>2 DEF OfQueue
  <2> QED  BY <1>3, <2>1, <2>2
<1> QED  BY <1>2, <1>3, <1>4, <1>5
Entry == [by : Users \cup Workers, add : SUBSET File, rm : SUBSET File, ok : BOOLEAN]

\* Every task, in a queue or at a worker, holds files of one queue, and no two tasks
\* in the queues have the same name.
Tasked ==
  /\ QueuesSorted(db) /\ Named(db)
  /\ \A t \in processing : Sorted(t.files)
  /\ jobs \in [Workers -> Job]
  /\ \A w \in Workers : ~Idle(w) => Sorted(jobs[w].files)
Inv == TypeOK /\ Tasked /\ log \in Seq(Entry)

\* The result of a task is a file, in the directory of the files it is made of.
LEMMA OutputIsFile ==
  ASSUME NEW w \in Workers, jobs[w] \in Job, Sorted(jobs[w].files)
  PROVE  Output(w) \in File
<1>1. PICK F \in SUBSET File : F = jobs[w].files
  BY DEF Job
<1>2. PICK f \in F : f = CHOOSE g \in jobs[w].files : TRUE
  BY <1>1 DEF Sorted, OfQueue
<1>3. PICK R : R = UNION {g.rows : g \in F}
  OBVIOUS
<1>4. ASSUME NEW g \in F PROVE g.layer = f.layer /\ f.layer \in Layers /\ Dir(g) = Dir(f)
  BY <1>1, SortedAlike
<1>5. R \in SUBSET Rows /\ R # {} /\ \A r \in R : Home[r] = Dir(f)
  <2>1. \A r \in R : \E g \in F : r \in g.rows
    BY <1>3
  <2>2. ASSUME NEW g \in F
        PROVE  g.rows \subseteq R /\ g.rows # {} /\ g.rows \subseteq Rows
               /\ \A r \in g.rows : Home[r] = Dir(f)
    <3>1. g \in File /\ Dir(g) = Dir(f)
      BY <1>4
    <3> QED  BY <1>3, <3>1, FileType
  <2> QED  BY <1>2, <2>1, <2>2
<1>6. f.iteration \in Nat /\ f.layer \in Layers /\ LayerTo[f.layer] \in Layers
  BY <1>2, <1>4, FileType, RedisIndexAssumption
<1>7. PICK o : o = Output(w)
  OBVIOUS
<1>8. o \in [rows : (SUBSET Rows) \ {{}}, uid : Int, iteration : Nat, layer : Layers \cup {NoLayer}]
      /\ o.rows = R
  <2>1. jobs[w].to \in Nat
    BY DEF Job
  <2>2. PICK i \in Nat, l \in Layers \cup {NoLayer} :
          o = [rows |-> R, uid |-> jobs[w].to, iteration |-> i, layer |-> l]
    <3>1. CASE Kind(jobs[w]) = "merge"
      <4>1. o = [rows |-> R, uid |-> jobs[w].to, iteration |-> f.iteration + 1, layer |-> f.layer]
        BY <1>1, <1>2, <1>3, <1>7, <3>1 DEF Output
      <4> QED  BY <1>6, <4>1
    <3>2. CASE Kind(jobs[w]) # "merge"
      <4>1. o = [rows |-> R, uid |-> jobs[w].to, iteration |-> f.iteration,
                 layer |-> LayerTo[f.layer]]
        BY <1>1, <1>2, <1>3, <1>7, <3>2 DEF Output
      <4> QED  BY <1>6, <4>1
    <3> QED  BY <3>1, <3>2
  <2> QED  BY <1>5, <2>1, <2>2
<1>9. Dir(o) = Dir(f)
  BY <1>5, <1>8 DEF Dir
<1> QED  BY <1>5, <1>7, <1>8, <1>9 DEF File

\* The arguments of a call.
LEMMA CallType ==
  ASSUME Inv, NEW c \in Users \cup Workers
  PROVE  /\ calls[c].add \in Seq(File) /\ calls[c].rm \in Seq(File)
         /\ calls[c].at \in {"none", "sent", "executed", "failed", "done"}
         /\ ToSet(calls[c].add) \in SUBSET File /\ ToSet(calls[c].rm) \in SUBSET File
<1>1. calls[c] \in Call
  BY DEF Inv, TypeOK
<1>2. PICK s \in Seq(File), t \in Seq(File) : s = calls[c].add /\ t = calls[c].rm
  BY <1>1 DEF Call
<1>3. ToSet(s) \in SUBSET File /\ ToSet(t) \in SUBSET File
  BY DEF ToSet
<1> QED  BY <1>1, <1>2, <1>3 DEF Call

\* A step of a call changes only what Call allows.
LEMMA Moved ==
  ASSUME Inv, NEW c \in Users \cup Workers,
         NEW where \in {"none", "sent", "executed", "failed", "done"}, Move(c, where)
  PROVE  calls' \in [Users \cup Workers -> Call]
<1>1. PICK x \in Call : x = calls[c]
  BY DEF Inv, TypeOK
<1>2. PICK y : y = [x EXCEPT !.at = where]
  OBVIOUS
<1>3. y \in Call
  BY <1>2 DEF Call
<1>4. calls' = [calls EXCEPT ![c] = y] /\ calls \in [Users \cup Workers -> Call]
  BY <1>1, <1>2 DEF Move, Inv, TypeOK
<1> QED  BY <1>3, <1>4

\* Users are not workers.
LEMMA UsersApart ==
  ASSUME Inv
  PROVE  /\ Users \cap Workers = {}
         /\ \A u \in Users : /\ scenario.calls[u].add \in Seq(File)
                             /\ scenario.calls[u].rm \in Seq(File)
BY RedisIndexAssumption DEF Inv, TypeOK, Users

\* A call is sent.
LEMMA SendTypes ==
  ASSUME Inv, NEW u, Send(u)
  PROVE  Inv'
<1>1. u \in Users /\ u \notin Workers
  BY UsersApart DEF Send
<1>2. PICK s \in Seq(File), t \in Seq(File) :
        s = scenario.calls[u].add /\ t = scenario.calls[u].rm
  BY <1>1, UsersApart
<1>3. PICK x : x = [add |-> s, rm |-> t, at |-> "sent"]
  OBVIOUS
<1>4. x \in Call
  BY <1>3 DEF Call
<1>5. calls' = [calls EXCEPT ![u] = x]
  BY <1>2, <1>3 DEF Send
<1>6. calls \in [Users \cup Workers -> Call] /\ \A w \in Workers : Idle(w) => calls[w] = NoCall
  BY DEF Inv, TypeOK
<1>7. calls' \in [Users \cup Workers -> Call] /\ \A w \in Workers : calls'[w] = calls[w]
  BY <1>1, <1>4, <1>5, <1>6
<1> QED  BY <1>6, <1>7 DEF Send, Inv, TypeOK, Tasked, Entry, Idle, Users

\* A call is repeated, given up or answered.
LEMMA MoveTypes ==
  ASSUME Inv, NEW c \in Users \cup Workers, Repeat(c) \/ GiveUp(c) \/ Answer(c)
  PROVE  Inv'
<1>1. PICK where \in {"sent", "failed", "done"} : Move(c, where)
  BY DEF Repeat, GiveUp, Answer
<1>2. calls' \in [Users \cup Workers -> Call]
  BY <1>1, Moved
<1>3. /\ UNCHANGED <<scenario, db, processing, jobs, deleted, log, odd>>
      /\ calls[c].at # "none"
  BY DEF Repeat, GiveUp, Answer
<1>4. spent' \in [DOMAIN scenario.faults -> Nat]
  <2>1. spent \in [DOMAIN scenario.faults -> Nat]
    BY DEF Inv, TypeOK
  <2>2. spent' = spent \/ \E what : spent' = [spent EXCEPT ![what] = @ + 1]
    BY DEF Repeat, GiveUp, Answer, Spend
  <2> QED  BY <2>1, <2>2
<1>5. ASSUME NEW w \in Workers, Idle(w) PROVE calls'[w] = NoCall
  <2>1. calls[w] = NoCall
    BY <1>5 DEF Inv, TypeOK
  <2>2. w # c
    BY <1>3, <2>1 DEF NoCall
  <2>3. calls'[w] = calls[w]
    BY <1>1, <2>2 DEF Move, Inv, TypeOK
  <2> QED  BY <2>1, <2>3
<1> QED  BY <1>2, <1>3, <1>4, <1>5 DEF Inv, TypeOK, Tasked, Entry, Idle, Users

\* The script runs.
LEMMA ExecuteTypes ==
  ASSUME Inv, NEW c \in Users \cup Workers, Execute(c)
  PROVE  Inv'
<1>1. db \in Db /\ QueuesSorted(db) /\ Named(db) /\ deleted \subseteq db.drops
  BY DEF Inv, TypeOK, Tasked
<1>2. PICK x \in Call : x = calls[c]
  BY DEF Inv, TypeOK
<1>3. x.add \in Seq(File) /\ x.rm \in Seq(File)
  BY DEF Call
<1>4. PICK r : r = Script(db, x)
  OBVIOUS
<1>5. r \in Db /\ db.drops \subseteq r.drops
  BY <1>1, <1>3, <1>4, ScriptDoes
<1>6. QueuesSorted(r) /\ Named(r)
  BY <1>1, <1>3, <1>4, ScriptTasks
<1>7. db' = r
  BY <1>2, <1>4 DEF Execute
<1>8. calls' \in [Users \cup Workers -> Call]
  BY Moved DEF Execute
<1>9. ASSUME NEW w \in Workers, Idle(w) PROVE calls'[w] = NoCall
  <2>1. calls[w] = NoCall
    BY <1>9 DEF Inv, TypeOK
  <2>2. w # c
    BY <2>1 DEF NoCall, Execute
  <2>3. calls'[w] = calls[w]
    BY <2>2 DEF Execute, Move, Inv, TypeOK
  <2> QED  BY <2>1, <2>3
<1>10. log' \in Seq(Entry)
  <2>1. PICK e : e = [by |-> c, add |-> ToSet(calls[c].add), rm |-> ToSet(calls[c].rm),
                      ok |-> ~r.error]
    OBVIOUS
  <2>2. e \in Entry
    BY <1>5, <2>1, CallType, DbType DEF Entry
  <2>3. log' = Append(log, e)
    BY <1>2, <1>4, <2>1 DEF Execute
  <2> QED  BY <2>2, <2>3 DEF Inv
<1>11. odd' \in BOOLEAN
  BY DEF Execute
<1>12. UNCHANGED <<scenario, processing, jobs, deleted, acked, spent>>
  BY DEF Execute
<1>13. TypeOK'
  BY <1>1, <1>5, <1>7, <1>8, <1>9, <1>11, <1>12 DEF Inv, TypeOK, Idle, Users
<1>14. Tasked'
  BY <1>6, <1>7, <1>12 DEF Inv, Tasked, Idle
<1>15. Entry' = Entry
  BY <1>12 DEF Entry, Users
<1> QED  BY <1>10, <1>13, <1>14, <1>15 DEF Inv

\* A queue without its head.
Beheaded(d, r, q) ==
  /\ r \in Db /\ SameFiles(d, r) /\ r.drops = d.drops /\ r.uuids = d.uuids
  /\ \A p \in Queues \ {q} : r.idle[p] = d.idle[p]
  /\ \A i \in DOMAIN r.idle[q] : i \in Nat /\ i + 1 \in DOMAIN d.idle[q]
                                 /\ r.idle[q][i] = d.idle[q][i + 1]
  /\ \A i \in DOMAIN d.idle[q] \ {1} : i \in Nat /\ i - 1 \in DOMAIN r.idle[q]
  /\ 1 \in DOMAIN d.idle[q] /\ d.idle[q][1] = Head(d.idle[q]) /\ Head(d.idle[q]) \in Task

\* Taking the head of an idle queue off does that, and only that.
LEMMA TailIs ==
  ASSUME NEW d \in Db, NEW q \in Queues, d.idle[q] # <<>>,
         NEW r, r = [d EXCEPT !.idle[q] = Tail(@)]
  PROVE  Beheaded(d, r, q)
<1>1. d.idle \in [Queues -> Seq(Task)]
  BY DbType
<1>2. PICK s \in Seq(Task) : s = d.idle[q]
  BY <1>1
<1>3. PICK n \in Nat \ {0} : n = Len(s)
  BY <1>2
<1>4. DOMAIN s = 1 .. n
  BY <1>3
<1>5. PICK t \in Seq(Task) : t = Tail(s)
  BY <1>2, HeadTailProperties
<1>6. DOMAIN t = 1 .. (n - 1) /\ \A i \in 1 .. (n - 1) : t[i] = s[i + 1]
  BY <1>2, <1>3, <1>5
<1>7. PICK z : z = [d.idle EXCEPT ![q] = t]
  OBVIOUS
<1>8. z \in [Queues -> Seq(Task)] /\ z[q] = t /\ \A p \in Queues \ {q} : z[p] = d.idle[p]
  BY <1>1, <1>7
<1>9. r = [d EXCEPT !.idle = z]
  BY <1>2, <1>5, <1>7 DEF Db
<1>10. r \in Db /\ SameFiles(d, r) /\ r.drops = d.drops /\ r.uuids = d.uuids /\ r.idle = z
  BY <1>8, <1>9 DEF Db, SameFiles
<1>11. \A i \in DOMAIN t : i \in Nat /\ i + 1 \in DOMAIN s /\ t[i] = s[i + 1]
  BY <1>4, <1>6
<1>12. \A i \in DOMAIN s \ {1} : i \in Nat /\ i - 1 \in DOMAIN t
  BY <1>4, <1>6
<1>13. 1 \in DOMAIN s /\ s[1] = Head(s) /\ Head(s) \in Task
  BY <1>2, <1>3, <1>4
<1> QED  BY <1>2, <1>8, <1>10, <1>11, <1>12, <1>13 DEF Beheaded

\* A worker gets a task.
LEMMA ReceiveTypes ==
  ASSUME Inv, NEW w \in Workers, NEW task \in Task, Sorted(task.files),
         NEW d \in Db, QueuesSorted(d), Named(d), Receive(w, task, d)
  PROVE  /\ db' \in Db /\ SameFiles(d, db') /\ db'.drops = d.drops /\ db'.idle = d.idle
         /\ d.uuids <= db'.uuids /\ QueuesSorted(db') /\ Named(db')
         /\ \E j \in Job : /\ jobs' = [jobs EXCEPT ![w] = j]
                           /\ j.id = task.id /\ j.files = task.files
         /\ jobs' \in [Workers -> Job]
         /\ \A v \in Workers : jobs'[v] # NoJob => Sorted(jobs'[v].files)
<1>1. d.uuids \in Nat /\ task.id \in Nat /\ task.files \in SUBSET File
  BY DbType DEF Task
<1>2. PICK u \in Nat : u = IF Kind(task) = "merge" THEN d.uuids + 1 ELSE d.uuids
  BY <1>1
<1>3. db' = [d EXCEPT !.uuids = u]
  BY <1>2 DEF Receive, Db
<1>4. PICK r : r = db'
  OBVIOUS
<1>5. /\ r \in Db /\ SameFiles(d, r) /\ r.drops = d.drops /\ r.idle = d.idle
      /\ d.uuids <= r.uuids /\ r.uuids \in Nat
  <2>1. r \in Db /\ SameFiles(d, r) /\ r.drops = d.drops /\ r.idle = d.idle /\ r.uuids = u
    BY <1>3, <1>4 DEF Db, SameFiles
  <2>2. d.uuids <= u
    BY <1>1, <1>2
  <2> QED  BY <2>1, <2>2
<1>6. QueuesSorted(r)
  BY <1>5 DEF QueuesSorted
<1>7. Named(r)
  BY <1>1, <1>5 DEF Named
<1>8. PICK o \in Nat : o = IF Kind(task) = "merge" THEN d.uuids + 1 ELSE task.id
  BY <1>1
<1>9. PICK j : j = [id |-> task.id, files |-> task.files, again |-> task.again, to |-> o]
  OBVIOUS
<1>10. j \in Job /\ j.id = task.id /\ j.files = task.files
  <2>1. task.again \in Seq(File) /\ ToSet(task.again) \subseteq task.files
    BY DEF Task
  <2> QED  BY <1>1, <1>9, <2>1 DEF Job
<1>11. jobs' = [jobs EXCEPT ![w] = j]
  BY <1>8, <1>9 DEF Receive
<1>12. jobs \in [Workers -> Job] /\ \A v \in Workers : ~Idle(v) => Sorted(jobs[v].files)
  BY DEF Inv, Tasked
<1>13. jobs' \in [Workers -> Job]
  BY <1>10, <1>11, <1>12
<1>14. \A v \in Workers : jobs'[v] # NoJob => Sorted(jobs'[v].files)
  BY <1>10, <1>11, <1>12 DEF Idle
<1> QED  BY <1>4, <1>5, <1>6, <1>7, <1>10, <1>11, <1>13, <1>14

\* The queues stay sorted, and their tasks named, when one is taken.
LEMMA BeheadedTasks ==
  ASSUME NEW d \in Db, NEW q \in Queues, NEW r, Beheaded(d, r, q), QueuesSorted(d), Named(d)
  PROVE  /\ QueuesSorted(r) /\ Named(r)
         /\ OfQueue(Head(d.idle[q]).files, q) /\ Sorted(Head(d.idle[q]).files)
<1>1. ASSUME NEW p \in Queues, NEW i \in DOMAIN r.idle[p]
      PROVE  \E k \in DOMAIN d.idle[p] : r.idle[p][i] = d.idle[p][k] /\ k = IF p = q THEN i + 1 ELSE i
  BY DEF Beheaded
<1>2. ASSUME NEW p \in Queues, NEW i \in DOMAIN r.idle[p] PROVE OfQueue(r.idle[p][i].files, p)
  BY <1>1 DEF QueuesSorted
<1>3. ASSUME NEW p \in Queues, NEW i \in DOMAIN r.idle[p] PROVE r.idle[p][i].id \in 1 .. r.uuids
  BY <1>1 DEF Named, Beheaded
<1>4. ASSUME NEW p \in Queues, NEW o \in Queues,
             NEW i \in DOMAIN r.idle[p], NEW j \in DOMAIN r.idle[o],
             r.idle[p][i].id = r.idle[o][j].id
      PROVE  p = o /\ i = j
  <2>1. PICK k \in DOMAIN d.idle[p] : r.idle[p][i] = d.idle[p][k] /\ k = IF p = q THEN i + 1 ELSE i
    BY <1>1
  <2>2. PICK l \in DOMAIN d.idle[o] : r.idle[o][j] = d.idle[o][l] /\ l = IF o = q THEN j + 1 ELSE j
    BY <1>1
  <2>3. p = o /\ k = l
    BY <1>4, <2>1, <2>2 DEF Named
  <2>4. p = q => i \in Nat /\ j \in Nat
    BY <2>3 DEF Beheaded
  <2> QED  BY <2>1, <2>2, <2>3, <2>4
<1>5. OfQueue(Head(d.idle[q]).files, q)
  BY DEF Beheaded, QueuesSorted
<1>6. Sorted(Head(d.idle[q]).files)
  BY <1>5 DEF Sorted
<1> QED  BY <1>2, <1>3, <1>4, <1>5, <1>6 DEF QueuesSorted, Named

\* A worker gets a task from a queue.
LEMMA GetTaskTypes ==
  ASSUME Inv, NEW w \in Workers, NEW q \in Queues, GetTask(w, q)
  PROVE  Inv'
<1>1. db \in Db /\ QueuesSorted(db) /\ Named(db) /\ deleted \subseteq db.drops
  BY DEF Inv, TypeOK, Tasked
<1>2. PICK d : d = [db EXCEPT !.idle[q] = Tail(@)]
  OBVIOUS
<1>3. Beheaded(db, d, q)
  BY <1>1, <1>2, TailIs DEF GetTask
<1>4. PICK task \in Task : task = Head(db.idle[q])
  BY <1>3 DEF Beheaded
<1>5. QueuesSorted(d) /\ Named(d) /\ Sorted(task.files)
  BY <1>1, <1>3, <1>4, BeheadedTasks
<1>6. d \in Db /\ d.drops = db.drops
  BY <1>3 DEF Beheaded
<1>7. Receive(w, task, d) /\ processing' = processing \cup {task}
  BY <1>2, <1>4 DEF GetTask
<1>8. /\ db' \in Db /\ db'.drops = d.drops /\ QueuesSorted(db') /\ Named(db')
      /\ jobs' \in [Workers -> Job]
      /\ \A v \in Workers : jobs'[v] # NoJob => Sorted(jobs'[v].files)
      /\ \E j : jobs' = [jobs EXCEPT ![w] = j]
  BY <1>5, <1>6, <1>7, ReceiveTypes
<1>9. ASSUME NEW v \in Workers, jobs'[v] = NoJob PROVE calls'[v] = NoCall
  <2>1. Idle(v)
    BY <1>8, <1>9 DEF GetTask, Idle, Inv, Tasked
  <2> QED  BY <2>1 DEF GetTask, Inv, TypeOK
<1>10. UNCHANGED <<scenario, calls, deleted, log, acked, odd, spent>>
  BY DEF GetTask
<1>11. TypeOK'
  BY <1>1, <1>6, <1>7, <1>8, <1>9, <1>10 DEF Inv, TypeOK, Idle, Users
<1>12. Tasked'
  BY <1>5, <1>7, <1>8 DEF Inv, Tasked, Idle
<1> QED  BY <1>10, <1>11, <1>12 DEF Inv, Entry, Users

\* The script throws a task away.
LEMMA GetUntimedTypes ==
  ASSUME Inv, NEW w \in Workers, NEW q \in Queues, GetUntimed(w, q)
  PROVE  Inv'
<1>1. db \in Db /\ QueuesSorted(db) /\ Named(db) /\ deleted \subseteq db.drops
  BY DEF Inv, TypeOK, Tasked
<1>2. Beheaded(db, db', q)
  BY <1>1, TailIs DEF GetUntimed
<1>3. db' \in Db /\ db'.drops = db.drops /\ QueuesSorted(db') /\ Named(db')
  BY <1>1, <1>2, BeheadedTasks DEF Beheaded
<1>4. UNCHANGED <<scenario, processing, calls, jobs, deleted, log, acked, odd, spent>>
  BY DEF GetUntimed
<1>5. TypeOK'
  BY <1>1, <1>3, <1>4 DEF Inv, TypeOK, Idle, Users
<1>6. Tasked'
  BY <1>3, <1>4 DEF Inv, Tasked, Idle
<1> QED  BY <1>4, <1>5, <1>6 DEF Inv, Entry, Users

\* A worker gets a task again.
LEMMA GetStaleTypes ==
  ASSUME Inv, NEW w \in Workers, GetStale(w)
  PROVE  Inv'
<1>1. db \in Db /\ QueuesSorted(db) /\ Named(db) /\ deleted \subseteq db.drops
  BY DEF Inv, TypeOK, Tasked
<1>2. PICK task \in processing : Receive(w, task, db)
  BY DEF GetStale
<1>3. task \in Task /\ Sorted(task.files)
  BY DEF Inv, TypeOK, Tasked
<1>4. /\ db' \in Db /\ db'.drops = db.drops /\ QueuesSorted(db') /\ Named(db')
      /\ jobs' \in [Workers -> Job]
      /\ \A v \in Workers : jobs'[v] # NoJob => Sorted(jobs'[v].files)
      /\ \E j : jobs' = [jobs EXCEPT ![w] = j]
  BY <1>1, <1>2, <1>3, ReceiveTypes
<1>5. ASSUME NEW v \in Workers, jobs'[v] = NoJob PROVE calls'[v] = NoCall
  <2>1. Idle(v)
    BY <1>4, <1>5 DEF GetStale, Idle, Inv, Tasked
  <2> QED  BY <2>1 DEF GetStale, Inv, TypeOK
<1>6. UNCHANGED <<scenario, processing, calls, deleted, log, acked, odd>>
  BY DEF GetStale
<1>7. spent' \in [DOMAIN scenario.faults -> Nat]
  <2>1. spent \in [DOMAIN scenario.faults -> Nat]
    BY DEF Inv, TypeOK
  <2>2. spent' = [spent EXCEPT !["redeliver"] = @ + 1]
    BY DEF GetStale, Spend
  <2>3. \A x \in DOMAIN spent' : spent'[x] = spent[x] \/ spent'[x] = spent[x] + 1
    BY <2>2
  <2>4. DOMAIN spent' = DOMAIN spent /\ spent' = [x \in DOMAIN spent |-> spent'[x]]
    BY <2>2
  <2> QED  BY <2>1, <2>3, <2>4
<1>8. TypeOK'
  BY <1>1, <1>4, <1>5, <1>6, <1>7 DEF Inv, TypeOK, Idle, Users
<1>9. Tasked'
  BY <1>4, <1>6 DEF Inv, Tasked, Idle
<1> QED  BY <1>6, <1>8, <1>9 DEF Inv, Entry, Users

\* A sequence and another one with elements of it.
LEMMA JoinedSet ==
  ASSUME NEW s \in Seq(File), NEW t \in Seq(File), ToSet(t) \subseteq ToSet(s), NEW u, u = s \o t
  PROVE  u \in Seq(File) /\ ToSet(u) = ToSet(s)
<1>1. PICK a \in Nat : a = Len(s)
  OBVIOUS
<1>2. PICK b \in Nat : b = Len(t)
  OBVIOUS
<1>3. u \in Seq(File)
  BY ConcatProperties
<1>4. OneThenOther(u, s, t, a, b)
  BY <1>1, <1>2, Concatenated
<1>5. DOMAIN s = 1 .. a /\ DOMAIN t = 1 .. b
  BY <1>1, <1>2
<1>6. ASSUME NEW i \in DOMAIN u PROVE u[i] \in ToSet(s)
  <2>1. CASE i \in 1 .. a
    BY <1>4, <1>5, <2>1 DEF OneThenOther, ToSet
  <2>2. CASE i \notin 1 .. a
    <3>1. PICK k \in 1 .. b : i = a + k
      <4>1. i - a \in 1 .. b /\ i = a + (i - a)
        BY <1>4, <2>2 DEF OneThenOther
      <4> QED  BY <4>1
    <3>2. u[i] \in ToSet(t)
      BY <1>4, <1>5, <3>1 DEF OneThenOther, ToSet
    <3> QED  BY <3>2
  <2> QED  BY <2>1, <2>2
<1>7. ASSUME NEW i \in DOMAIN s PROVE s[i] \in ToSet(u)
  <2>1. i \in DOMAIN u /\ u[i] = s[i]
    BY <1>4, <1>5 DEF OneThenOther
  <2> QED  BY <2>1 DEF ToSet
<1>8. ToSet(u) \subseteq ToSet(s)
  BY <1>6 DEF ToSet
<1>9. ToSet(s) \subseteq ToSet(u)
  BY <1>7 DEF ToSet
<1> QED  BY <1>3, <1>8, <1>9

\* No task, as a job.
LEMMA NoJobIs == NoJob \in Job
<1>1. <<>> \in Seq(File) /\ ToSet(<<>>) \subseteq {}
  BY DEF ToSet
<1> QED  BY <1>1 DEF NoJob, Job

\* A worker writes the result of its task and calls Batch.
LEMMA WorkTypes ==
  ASSUME Inv, NEW w \in Workers, Work(w)
  PROVE  Inv' /\ ToSet(calls'[w].rm) = jobs[w].files
<1>1. jobs[w] \in Job /\ Sorted(jobs[w].files) /\ ~Idle(w)
  BY DEF Work, Inv, Tasked
<1>2. PICK f \in File : f = Output(w)
  BY <1>1, OutputIsFile
<1>3. PICK t : t = SetToSeq(jobs[w].files) \o jobs[w].again
  OBVIOUS
<1>4. t \in Seq(File) /\ ToSet(t) = jobs[w].files
  <2>1. jobs[w].files \in SUBSET File /\ IsFiniteSet(jobs[w].files)
    BY <1>1 DEF Job, Sorted, OfQueue
  <2>2. PICK x : x = SetToSeq(jobs[w].files)
    OBVIOUS
  <2>3. x \in Seq(File) /\ ToSet(x) = jobs[w].files
    BY <2>1, <2>2, SetInSeq
  <2>4. PICK y \in Seq(File) : y = jobs[w].again /\ ToSet(y) \subseteq jobs[w].files
    BY <1>1 DEF Job
  <2>5. t = x \o y
    BY <1>3, <2>2, <2>4
  <2>6. ToSet(y) \subseteq ToSet(x)
    BY <2>3, <2>4
  <2>7. t \in Seq(File) /\ ToSet(t) = ToSet(x)
    BY <2>3, <2>4, <2>5, <2>6, JoinedSet
  <2> QED  BY <2>3, <2>7
<1>5. PICK x : x = [add |-> <<f>>, rm |-> t, at |-> "sent"]
  OBVIOUS
<1>6. x \in Call /\ x.rm = t
  BY <1>4, <1>5 DEF Call
<1>7. calls' = [calls EXCEPT ![w] = x]
  BY <1>2, <1>3, <1>5 DEF Work
<1>8. calls' \in [Users \cup Workers -> Call] /\ calls'[w] = x
  BY <1>6, <1>7 DEF Inv, TypeOK
<1>9. \A v \in Workers : Idle(v) => calls'[v] = NoCall
  BY <1>1, <1>7 DEF Inv, TypeOK
<1>10. UNCHANGED <<scenario, db, processing, jobs, deleted, log, acked, odd, spent>>
  BY DEF Work
<1>11. Inv'
  BY <1>8, <1>9, <1>10 DEF Inv, TypeOK, Tasked, Entry, Idle, Users
<1> QED  BY <1>4, <1>6, <1>8, <1>11

\* A worker leaves its task, or ends it.
LEMMA LeaveTypes ==
  ASSUME Inv, NEW w \in Workers, Abandon(w) \/ EndTask(w)
  PROVE  Inv'
<1>1. /\ jobs' = [jobs EXCEPT ![w] = NoJob] /\ calls' = [calls EXCEPT ![w] = NoCall]
      /\ UNCHANGED <<scenario, db, deleted, log, acked, odd, spent>>
      /\ processing' \subseteq processing
  BY DEF Abandon, EndTask
<1>2. NoCall \in Call /\ NoJob \in Job
  BY NoJobIs DEF NoCall, Call
<1>3. /\ calls \in [Users \cup Workers -> Call] /\ jobs \in [Workers -> Job]
      /\ \A v \in Workers : Idle(v) => calls[v] = NoCall
      /\ \A v \in Workers : ~Idle(v) => Sorted(jobs[v].files)
  BY DEF Inv, TypeOK, Tasked
<1>4. calls' \in [Users \cup Workers -> Call] /\ jobs' \in [Workers -> Job]
  BY <1>1, <1>2, <1>3
<1>5. \A v \in Workers : v = w \/ (calls'[v] = calls[v] /\ jobs'[v] = jobs[v])
  BY <1>1, <1>3
<1>6. jobs'[w] = NoJob /\ calls'[w] = NoCall
  BY <1>1, <1>3
<1>7. \A v \in Workers : /\ jobs'[v] = NoJob => calls'[v] = NoCall
                         /\ jobs'[v] # NoJob => Sorted(jobs'[v].files)
  BY <1>3, <1>5, <1>6 DEF Idle
<1>8. TypeOK'
  BY <1>1, <1>4, <1>7 DEF Inv, TypeOK, Idle, Users
<1>9. Tasked'
  BY <1>1, <1>4, <1>7 DEF Inv, Tasked, Idle
<1> QED  BY <1>1, <1>8, <1>9 DEF Inv, Entry, Users

\* Nothing is to be done at first.
LEMMA InitTypes == Init => Inv
<1> SUFFICES ASSUME Init PROVE Inv
  OBVIOUS
<1>1. scenario \in Scenarios /\ scenario.faults \in [{"repeat", "fail", "redeliver"} -> Nat]
  BY RedisIndexAssumption DEF Init
<1>2. NoCall \in Call /\ NoJob \in Job
  BY NoJobIs DEF NoCall, Call
<1>3. db \in Db
  <2>1. [d \in Dirs |-> 0] \in [Dirs -> Int] /\ [q \in Queues |-> <<>>] \in [Queues -> Seq(Task)]
    <3>1. <<>> \in Seq(Task)
      OBVIOUS
    <3> QED  BY <3>1
  <2> QED  BY <2>1 DEF Init, Db
<1>4. calls \in [Users \cup Workers -> Call] /\ \A w \in Workers : calls[w] = NoCall
  BY <1>2 DEF Init
<1>5. jobs \in [Workers -> Job] /\ \A w \in Workers : Idle(w)
  BY <1>2 DEF Init, Idle
<1>6. QueuesSorted(db) /\ Named(db)
  BY DEF Init, QueuesSorted, Named
<1>7. TypeOK
  BY <1>1, <1>3, <1>4 DEF Init, TypeOK
<1> QED  BY <1>5, <1>6, <1>7 DEF Init, Inv, Tasked

\* Every step keeps this.
LEMMA NextTypes ==
  ASSUME Inv, [Next]_vars
  PROVE  Inv'
<1>1. ASSUME NEW c \in Users \cup Workers, Send(c) PROVE Inv'
  BY <1>1, SendTypes
<1>2. ASSUME NEW c \in Users \cup Workers, Execute(c) PROVE Inv'
  BY <1>2, ExecuteTypes
<1>3. ASSUME NEW c \in Users \cup Workers, Repeat(c) \/ GiveUp(c) \/ Answer(c) PROVE Inv'
  BY <1>3, MoveTypes
<1>4. ASSUME NEW w \in Workers, NEW q \in Queues, GetTask(w, q) PROVE Inv'
  BY <1>4, GetTaskTypes
<1>5. ASSUME NEW w \in Workers, GetStale(w) PROVE Inv'
  BY <1>5, GetStaleTypes
<1>6. ASSUME NEW w \in Workers, Work(w) PROVE Inv'
  BY <1>6, WorkTypes
<1>7. ASSUME NEW w \in Workers, Abandon(w) \/ EndTask(w) PROVE Inv'
  BY <1>7, LeaveTypes
<1>8. ASSUME NEW f \in db.drops, Drop(f) PROVE Inv'
  BY <1>8 DEF Drop, Inv, TypeOK, Tasked, Entry, Idle, Users
<1>9. CASE UNCHANGED vars
  BY <1>9 DEF vars, Inv, TypeOK, Tasked, Entry, Idle, Users
<1>10. ASSUME NEW w \in Workers, NEW q \in Queues, GetUntimed(w, q) PROVE Inv'
  BY <1>10, GetUntimedTypes
<1> QED  BY <1>1, <1>2, <1>3, <1>4, <1>5, <1>6, <1>7, <1>8, <1>9, <1>10 DEF Next

\* Inv is an invariant.
LEMMA Typed == Spec => []Inv
<1>1. Init => Inv
  BY InitTypes
<1>2. Inv /\ [Next]_vars => Inv'
  BY NextTypes
<1> QED  BY <1>1, <1>2, PTL DEF Spec

\* The state has the shape TypeOK says: what the script, the workers and the client
\* library do, faults included, leaves hashes, queues and calls well-formed.
THEOREM TypeCorrect == Spec => []TypeOK
<1>1. Inv => TypeOK
  BY DEF Inv
<1> QED  BY <1>1, Typed, PTL

-----------------------------------------------------------------------------
(* Steps: the script runs, or nothing happens to the index.                *)

\* Entry e of the log, a run of the script, turned the indexed files F into G.
Change(F, G, e) ==
  /\ e.ok => G = (F \cup e.add) \ e.rm
  /\ ~e.ok => F \subseteq G /\ G \subseteq F \cup e.add
Ran(c, e) ==
  /\ e \in Entry /\ log' = Append(log, e)
  /\ e.by = c /\ e.add = ToSet(calls[c].add) /\ e.rm = ToSet(calls[c].rm)
  /\ e.ok <=> calls'[c].at = "executed"
  /\ calls'[c].add = calls[c].add /\ calls'[c].rm = calls[c].rm
  /\ \A u \in (Users \cup Workers) \ {c} : calls'[u] = calls[u]
  /\ Change(db.files, db'.files, e)
  /\ db.drops \subseteq db'.drops
  /\ db'.drops \subseteq IF e.ok THEN db.drops \cup e.rm ELSE db.drops
Quiet ==
  /\ UNCHANGED <<scenario, log, odd>>
  /\ SameFiles(db, db') /\ db'.drops = db.drops
  /\ \A u \in Users \cup Workers : calls'[u].at = "executed" => calls'[u] = calls[u]

\* A run of the script.
LEMMA ExecuteRan ==
  ASSUME Inv, NEW c \in Users \cup Workers, Execute(c)
  PROVE  \E e : Ran(c, e)
<1>1. PICK x \in Call : x = calls[c]
  BY DEF Inv, TypeOK
<1>2. PICK r : r = Script(db, x)
  OBVIOUS
<1>3. /\ r \in Db
      /\ r.error => /\ db.files \subseteq r.files /\ r.files \subseteq db.files \cup ToSet(x.add)
                    /\ r.drops = db.drops
      /\ ~r.error => /\ r.files = (db.files \cup ToSet(x.add)) \ ToSet(x.rm)
                     /\ r.drops = db.drops \cup ToSet(x.rm)
  <2>1. db \in Db /\ x.add \in Seq(File) /\ x.rm \in Seq(File)
    BY DEF Inv, TypeOK, Call
  <2> QED  BY <1>2, <2>1, ScriptDoes
<1>4. PICK e : e = [by |-> c, add |-> ToSet(x.add), rm |-> ToSet(x.rm), ok |-> ~r.error]
  OBVIOUS
<1>5. e \in Entry
  BY <1>1, <1>3, <1>4, CallType, DbType DEF Entry
<1>6. db' = r /\ log' = Append(log, e)
  BY <1>1, <1>2, <1>4 DEF Execute
<1>7. e.by = c /\ e.add = ToSet(x.add) /\ e.rm = ToSet(x.rm) /\ e.ok = ~r.error
  BY <1>4
<1>8. calls' = [calls EXCEPT ![c].at = IF r.error THEN "failed" ELSE "executed"]
  BY <1>1, <1>2 DEF Execute, Move
<1>9. /\ calls'[c].at = IF r.error THEN "failed" ELSE "executed"
      /\ calls'[c].add = x.add /\ calls'[c].rm = x.rm
      /\ \A u \in (Users \cup Workers) \ {c} : calls'[u] = calls[u]
  BY <1>1, <1>8 DEF Inv, TypeOK, Call
<1>10. r.error \in BOOLEAN
  BY <1>3, DbType
<1>11. e.ok <=> calls'[c].at = "executed"
  BY <1>7, <1>9, <1>10
<1>12. Change(db.files, db'.files, e)
  BY <1>3, <1>6, <1>7 DEF Change
<1>13. /\ db.drops \subseteq db'.drops
       /\ db'.drops \subseteq IF e.ok THEN db.drops \cup e.rm ELSE db.drops
  BY <1>3, <1>6, <1>7
<1> QED  BY <1>1, <1>5, <1>6, <1>7, <1>9, <1>11, <1>12, <1>13 DEF Ran

\* Every other step is quiet.
LEMMA Steps ==
  ASSUME Inv, [Next]_vars
  PROVE  Quiet \/ \E c \in Users \cup Workers : Execute(c)
<1>1. /\ calls \in [Users \cup Workers -> Call] /\ db \in Db
  BY DEF Inv, TypeOK
<1>2. ASSUME NEW c \in Users \cup Workers, Send(c) PROVE Quiet
  BY <1>1, <1>2 DEF Send, Quiet, SameFiles
<1>3. ASSUME NEW c \in Users \cup Workers, Repeat(c) \/ GiveUp(c) \/ Answer(c) PROVE Quiet
  <2>1. PICK where \in {"sent", "failed", "done"} : Move(c, where)
    BY <1>3 DEF Repeat, GiveUp, Answer
  <2>2. calls'[c].at = where /\ \A u \in (Users \cup Workers) \ {c} : calls'[u] = calls[u]
    BY <1>1, <2>1 DEF Move, Call
  <2>3. UNCHANGED <<scenario, db, log, odd>>
    BY <1>3 DEF Repeat, GiveUp, Answer
  <2> QED  BY <2>1, <2>2, <2>3 DEF Quiet, SameFiles
<1>4. ASSUME NEW w \in Workers, NEW q \in Queues, GetTask(w, q) PROVE Quiet
  <2>1. PICK d : d = [db EXCEPT !.idle[q] = Tail(@)]
    OBVIOUS
  <2>2. SameFiles(db, d) /\ d.drops = db.drops
    BY <1>1, <2>1 DEF Db, SameFiles
  <2>3. SameFiles(d, db') /\ db'.drops = d.drops
    <3>1. \E u : db' = [d EXCEPT !.uuids = u]
      BY <1>4, <2>1 DEF GetTask, Receive
    <3> QED  BY <1>1, <2>1, <3>1 DEF Db, SameFiles
  <2> QED  BY <1>4, <2>2, <2>3 DEF GetTask, Quiet, SameFiles
<1>5. ASSUME NEW w \in Workers, GetStale(w) PROVE Quiet
  <2>1. \E u : db' = [db EXCEPT !.uuids = u]
    BY <1>5 DEF GetStale, Receive
  <2>2. SameFiles(db, db') /\ db'.drops = db.drops
    BY <1>1, <2>1 DEF Db, SameFiles
  <2> QED  BY <1>5, <2>2 DEF GetStale, Quiet
<1>6. ASSUME NEW w \in Workers, Work(w) PROVE Quiet
  BY <1>1, <1>6 DEF Work, Quiet, SameFiles
<1>7. ASSUME NEW w \in Workers, Abandon(w) \/ EndTask(w) PROVE Quiet
  <2>1. calls' = [calls EXCEPT ![w] = NoCall] /\ UNCHANGED <<scenario, db, log, odd>>
    BY <1>7 DEF Abandon, EndTask
  <2> QED  BY <1>1, <2>1 DEF Quiet, SameFiles, NoCall
<1>8. ASSUME NEW f \in db.drops, Drop(f) PROVE Quiet
  BY <1>8 DEF Drop, Quiet, SameFiles
<1>9. CASE UNCHANGED vars
  BY <1>9 DEF vars, Quiet, SameFiles
<1>10. ASSUME NEW w \in Workers, NEW q \in Queues, GetUntimed(w, q) PROVE Quiet
  <2>1. SameFiles(db, db') /\ db'.drops = db.drops
    BY <1>1, <1>10 DEF GetUntimed, Db, SameFiles
  <2> QED  BY <1>10, <2>1 DEF GetUntimed, Quiet
<1> QED  BY <1>2, <1>3, <1>4, <1>5, <1>6, <1>7, <1>8, <1>9, <1>10 DEF Next

-----------------------------------------------------------------------------
(* The folders.                                                            *)

FoldersInv == odd \/ Exact(db)

\* The folders stay exact.
LEMMA NextFolders ==
  ASSUME Inv, FoldersInv, [Next]_vars
  PROVE  FoldersInv'
<1>1. CASE Quiet
  BY <1>1 DEF Quiet, FoldersInv, Exact, SameFiles
<1>2. ASSUME NEW c \in Users \cup Workers, Execute(c), ~odd' PROVE Exact(db')
  <2>1. PICK x \in Call : x = calls[c]
    BY DEF Inv, TypeOK
  <2>2. PICK r : r = Script(db, x)
    OBVIOUS
  <2>3. /\ ~odd /\ db' = r
        /\ ToSet(x.add) \cap db.files = {} /\ IsInjective(x.add)
        /\ r.error \/ (ToSet(x.rm) \subseteq db.files /\ IsInjective(x.rm))
    BY <1>2, <2>1, <2>2 DEF Execute
  <2>4. db \in Db /\ x.add \in Seq(File) /\ x.rm \in Seq(File) /\ Exact(db)
    BY <2>3 DEF Inv, TypeOK, Call, FoldersInv
  <2> QED  BY <2>2, <2>3, <2>4, ScriptExact
<1> QED  BY <1>1, <1>2, Steps DEF FoldersInv

\* The hash of the folders is exact as long as no file is added twice or removed twice:
\* for any sequence of scripts, also those that ended in an error.
THEOREM FoldersCount == Spec => []FoldersExact
<1>1. Init => FoldersInv
  <2> SUFFICES ASSUME Init PROVE Exact(db)
    BY DEF FoldersInv
  <2>1. IsFiniteSet({}) /\ Cardinality({}) = 0
    BY FS_EmptySet
  <2>2. \A x : In({}, x) = {}
    BY DEF In
  <2>3. db.files = {} /\ db.folders = {} /\ \A x \in Dirs : db.count[x] = 0
    BY DEF Init
  <2> QED  BY <2>1, <2>2, <2>3 DEF Exact
<1>2. Inv /\ FoldersInv /\ [Next]_vars => FoldersInv'
  BY NextFolders
<1>3. FoldersInv => FoldersExact
  BY DEF FoldersInv, Exact, FoldersExact, In
<1> QED  BY <1>1, <1>2, <1>3, Typed, PTL DEF Spec

-----------------------------------------------------------------------------
(* Acknowledged calls.                                                     *)

\* The index F shows call i of the log, of A and R, or calls after it have undone it.
Shown(F, lg, i, A, R) ==
  /\ \A f \in A : f \in F \/ \E j \in i .. Len(lg) : lg[j].ok /\ f \in lg[j].rm
  /\ \A f \in R : f \notin F \/ \E j \in i + 1 .. Len(lg) : f \in lg[j].add

\* It does so after another call.
LEMMA ShownOn ==
  ASSUME NEW S, NEW lg \in Seq(S), NEW e \in S, NEW lh, lh = Append(lg, e),
         NEW F, NEW G, Change(F, G, e),
         NEW i \in DOMAIN lg, NEW A, NEW R, Shown(F, lg, i, A, R)
  PROVE  Shown(G, lh, i, A, R)
<1>1. PICK n \in Nat : n = Len(lg)
  OBVIOUS
<1>2. /\ Len(lh) = n + 1 /\ DOMAIN lg = 1 .. n /\ lh[n + 1] = e
      /\ \A j \in 1 .. n : lh[j] = lg[j]
  BY <1>1, Appended
<1>3. i \in 1 .. n
  BY <1>2
<1>4. ASSUME NEW f \in A PROVE f \in G \/ \E j \in i .. n + 1 : lh[j].ok /\ f \in lh[j].rm
  <2>1. CASE f \in F
    <3>1. f \in G \/ (e.ok /\ f \in e.rm)
      BY <2>1 DEF Change
    <3>2. n + 1 \in i .. n + 1
      BY <1>3
    <3> QED  BY <1>2, <3>1, <3>2
  <2>2. ASSUME NEW j \in i .. n, lg[j].ok /\ f \in lg[j].rm
        PROVE  j \in i .. n + 1 /\ lh[j].ok /\ f \in lh[j].rm
    BY <1>2, <1>3, <2>2
  <2> QED  BY <1>1, <2>1, <2>2 DEF Shown
<1>5. ASSUME NEW f \in R PROVE f \notin G \/ \E j \in i + 1 .. n + 1 : f \in lh[j].add
  <2>1. CASE f \notin F
    <3>1. f \notin G \/ f \in e.add
      BY <2>1 DEF Change
    <3>2. n + 1 \in i + 1 .. n + 1
      BY <1>3
    <3> QED  BY <1>2, <3>1, <3>2
  <2>2. ASSUME NEW j \in i + 1 .. n, f \in lg[j].add
        PROVE  j \in i + 1 .. n + 1 /\ f \in lh[j].add
    BY <1>2, <1>3, <2>2
  <2> QED  BY <1>1, <2>1, <2>2 DEF Shown
<1> QED  BY <1>2, <1>4, <1>5 DEF Shown

\* And after the call itself.
LEMMA ShownNew ==
  ASSUME NEW S, NEW lg \in Seq(S), NEW e \in S, NEW lh, lh = Append(lg, e),
         NEW F, NEW G, Change(F, G, e), e.ok
  PROVE  Len(lh) \in DOMAIN lh /\ lh[Len(lh)] = e /\ Shown(G, lh, Len(lh), e.add, e.rm)
<1>1. PICK n \in Nat : n = Len(lh)
  OBVIOUS
<1>2. n \in DOMAIN lh /\ lh[n] = e
  BY <1>1, Appended
<1>3. n \in n .. n
  OBVIOUS
<1>4. G = (F \cup e.add) \ e.rm
  BY DEF Change
<1> QED  BY <1>1, <1>2, <1>3, <1>4 DEF Shown

\* What is executed, but not yet acknowledged, is shown as what is acknowledged is.
Recorded ==
  \A u \in Users : calls[u].at = "executed" =>
    \E i \in DOMAIN log :
      log[i].by = u /\ Shown(db.files, log, i, ToSet(calls[u].add), ToSet(calls[u].rm))
AckedShown ==
  \A a \in acked : \E i \in DOMAIN log : log[i].by = a.by /\ Shown(db.files, log, i, a.add, a.rm)

\* What was shown is shown after every step.
LEMMA StillShown ==
  ASSUME Inv, [Next]_vars, NEW i \in DOMAIN log, NEW A, NEW R, Shown(db.files, log, i, A, R)
  PROVE  i \in DOMAIN log' /\ log'[i] = log[i] /\ Shown(db'.files, log', i, A, R)
<1>1. CASE Quiet
  BY <1>1 DEF Quiet, SameFiles
<1>2. ASSUME NEW c \in Users \cup Workers, Execute(c)
      PROVE  i \in DOMAIN log' /\ log'[i] = log[i] /\ Shown(db'.files, log', i, A, R)
  <2>1. PICK e : Ran(c, e)
    BY <1>2, ExecuteRan
  <2>2. log \in Seq(Entry) /\ e \in Entry /\ log' = Append(log, e)
        /\ Change(db.files, db'.files, e)
    BY <2>1 DEF Ran, Inv
  <2>3. i \in DOMAIN log' /\ log'[i] = log[i]
    BY <2>2, Appended
  <2>4. PICK lh, G : lh = log' /\ G = db'.files
    OBVIOUS
  <2>5. Shown(G, lh, i, A, R)
    BY <2>2, <2>4, ShownOn
  <2> QED  BY <2>3, <2>4, <2>5
<1> QED  BY <1>1, <1>2, Steps

\* The users stay the same.
LEMMA SameUsers ==
  ASSUME Inv, [Next]_vars
  PROVE  scenario' = scenario /\ Users' = Users
<1>1. ASSUME NEW c, Execute(c) PROVE scenario' = scenario
  BY <1>1 DEF Execute
<1> QED  BY <1>1, Steps DEF Quiet, Users

\* A call that is acknowledged was executed.
LEMMA AckedFrom ==
  ASSUME [Next]_vars, NEW a \in acked'
  PROVE  a \in acked \/ \E u \in Users : /\ calls[u].at = "executed" /\ a.by = u
                                         /\ a.add = ToSet(calls[u].add)
                                         /\ a.rm = ToSet(calls[u].rm)
<1>1. ASSUME NEW u \in Users \cup Workers, Answer(u)
      PROVE  a \in acked \/ \E v \in Users : /\ calls[v].at = "executed" /\ a.by = v
                                             /\ a.add = ToSet(calls[v].add)
                                             /\ a.rm = ToSet(calls[v].rm)
  BY <1>1 DEF Answer
<1>2. (\A u \in Users \cup Workers : ~Answer(u)) => acked' = acked
  BY DEF Next, vars, Send, Execute, Repeat, GiveUp, GetTask, GetUntimed, GetStale, Work,
         Abandon, EndTask, Drop
<1> QED  BY <1>1, <1>2

\* Every step keeps both.
LEMMA NextRecorded ==
  ASSUME Inv, Recorded, AckedShown, [Next]_vars
  PROVE  Recorded' /\ AckedShown'
<1>1. Users' = Users
  BY SameUsers
<1>2. Recorded'
  <2>1. ASSUME NEW u \in Users, calls'[u].at = "executed"
        PROVE  \E i \in DOMAIN log' :
                 /\ log'[i].by = u
                 /\ Shown(db'.files, log', i, ToSet(calls'[u].add), ToSet(calls'[u].rm))
    <3>1. CASE calls'[u] = calls[u]
      <4>1. PICK i \in DOMAIN log :
              log[i].by = u /\ Shown(db.files, log, i, ToSet(calls[u].add), ToSet(calls[u].rm))
        BY <2>1, <3>1 DEF Recorded
      <4>2. /\ i \in DOMAIN log' /\ log'[i] = log[i]
            /\ Shown(db'.files, log', i, ToSet(calls[u].add), ToSet(calls[u].rm))
        BY <4>1, StillShown
      <4> QED  BY <3>1, <4>1, <4>2
    <3>2. ASSUME NEW c \in Users \cup Workers, Execute(c), calls'[u] # calls[u]
          PROVE  \E i \in DOMAIN log' :
                   /\ log'[i].by = u
                   /\ Shown(db'.files, log', i, ToSet(calls'[u].add), ToSet(calls'[u].rm))
      <4>1. PICK e : Ran(c, e)
        BY <3>2, ExecuteRan
      <4>2. c = u
        BY <3>2, <4>1 DEF Ran
      <4>3. /\ log \in Seq(Entry) /\ e \in Entry /\ log' = Append(log, e)
            /\ Change(db.files, db'.files, e) /\ e.ok
            /\ e.by = u /\ e.add = ToSet(calls'[u].add) /\ e.rm = ToSet(calls'[u].rm)
        BY <2>1, <4>1, <4>2 DEF Ran, Inv
      <4>4. PICK lh, G : lh = log' /\ G = db'.files
        OBVIOUS
      <4>5. Len(lh) \in DOMAIN lh /\ lh[Len(lh)] = e /\ Shown(G, lh, Len(lh), e.add, e.rm)
        BY <4>3, <4>4, ShownNew
      <4> QED  BY <4>3, <4>4, <4>5
    <3> QED  BY <2>1, <3>1, <3>2, Steps DEF Quiet
  <2> QED  BY <1>1, <2>1 DEF Recorded
<1>3. AckedShown'
  <2>1. ASSUME NEW a \in acked'
        PROVE  \E i \in DOMAIN log : log[i].by = a.by /\ Shown(db.files, log, i, a.add, a.rm)
    BY AckedFrom DEF AckedShown, Recorded
  <2>2. ASSUME NEW a \in acked'
        PROVE  \E i \in DOMAIN log' : log'[i].by = a.by /\ Shown(db'.files, log', i, a.add, a.rm)
    BY <2>1, StillShown
  <2> QED  BY <2>2 DEF AckedShown
<1> QED  BY <1>2, <1>3

\* A Batch answered without an error was executed, and the index shows it unless a call
\* executed later undid it: for any users, and requests repeated, lost and overtaken.
THEOREM AcknowledgedShown == Spec => []AckedIndexed
<1>1. Init => Recorded /\ AckedShown
  BY DEF Init, Recorded, AckedShown, NoCall
<1>2. Inv /\ Recorded /\ AckedShown /\ [Next]_vars => Recorded' /\ AckedShown'
  BY NextRecorded
<1>3. AckedShown => AckedIndexed
  BY DEF AckedShown, Shown, AckedIndexed
<1> QED  BY <1>1, <1>2, <1>3, Typed, PTL DEF Spec

-----------------------------------------------------------------------------
(* Data of indexed files.                                                  *)

\* A file in the drop queue was removed, and is indexed only if it was added later.
Dropped ==
  \A f \in db.drops : \E i \in DOMAIN log :
    f \in log[i].rm /\ (f \in db.files => \E j \in DOMAIN log : i < j /\ f \in log[j].add)

\* The removals put files into the drop queue as they take them out of the index.
LEMMA NextDropped ==
  ASSUME Inv, Dropped, [Next]_vars
  PROVE  Dropped'
<1>1. CASE Quiet
  BY <1>1 DEF Quiet, SameFiles, Dropped
<1>2. ASSUME NEW c \in Users \cup Workers, Execute(c) PROVE Dropped'
  <2>1. PICK e : Ran(c, e)
    BY <1>2, ExecuteRan
  <2>2. PICK n \in Nat : n = Len(log)
    BY DEF Inv
  <2>3. /\ DOMAIN log = 1 .. n /\ DOMAIN log' = DOMAIN log \cup {n + 1} /\ log'[n + 1] = e
        /\ \A j \in DOMAIN log : log'[j] = log[j]
    BY <2>1, <2>2, Appended DEF Ran, Inv
  <2>4. ASSUME NEW f \in db'.drops
        PROVE  \E i \in DOMAIN log' :
                 f \in log'[i].rm /\ (f \in db'.files => \E j \in DOMAIN log' : i < j /\ f \in log'[j].add)
    <3>1. CASE f \in db.drops
      <4>1. PICK i \in DOMAIN log :
              f \in log[i].rm /\ (f \in db.files => \E j \in DOMAIN log : i < j /\ f \in log[j].add)
        BY <3>1 DEF Dropped
      <4>2. f \in db'.files => f \in db.files \/ f \in e.add
        BY <2>1 DEF Ran, Change
      <4>3. i < n + 1
        BY <2>3
      <4> QED  BY <2>3, <4>1, <4>2, <4>3
    <3>2. CASE f \notin db.drops
      <4>1. f \in e.rm /\ e.ok
        BY <2>1, <3>2 DEF Ran
      <4>2. f \notin db'.files
        BY <2>1, <4>1 DEF Ran, Change
      <4> QED  BY <2>3, <4>1, <4>2
    <3> QED  BY <3>1, <3>2
  <2> QED  BY <2>4 DEF Dropped
<1> QED  BY <1>1, <1>2, Steps

\* The drop worker deletes no data of an indexed file, unless a request that added the
\* file was executed after one that removed it.
THEOREM DeletedNotIndexed == Spec => []DeletedUnindexed
<1>1. Init => Dropped
  BY DEF Init, Dropped
<1>2. Inv /\ Dropped /\ [Next]_vars => Dropped'
  BY NextDropped
<1>3. Inv /\ Dropped => DeletedUnindexed
  <2> SUFFICES ASSUME Inv, Dropped, NEW f \in db.files \cap deleted
               PROVE  \E i, j \in DOMAIN log : i < j /\ f \in log[i].rm /\ f \in log[j].add
    BY DEF DeletedUnindexed
  <2>1. f \in db.drops
    BY DEF Inv, TypeOK
  <2> QED  BY <2>1 DEF Dropped
<1> QED  BY <1>1, <1>2, <1>3, Typed, PTL DEF Spec

-----------------------------------------------------------------------------
(* Every file of an iteration that is merged is in a task.                 *)

\* Tasks are known by their names: those in the queues are at no worker, and the tasks in
\* process, and their copies at the workers, agree on their files.
Apart ==
  \A q \in Queues : \A i \in DOMAIN db.idle[q] :
    /\ \A p \in processing : p.id # db.idle[q][i].id
    /\ \A w \in Workers : jobs[w].id # db.idle[q][i].id
Agree ==
  /\ \A p, t \in processing : p.id = t.id => p = t
  /\ \A p \in processing : p.id \in 1 .. db.uuids
  /\ \A w \in Workers : ~Idle(w) => jobs[w].id \in 1 .. db.uuids
  /\ \A p \in processing, w \in Workers :
       ~Idle(w) /\ p.id = jobs[w].id => p.files = jobs[w].files

\* A worker's call removes the files of its task.
Assigned == \A w \in Workers : calls[w] # NoCall => ToSet(calls[w].rm) = jobs[w].files

\* A task in process is open if no worker has done it and is about to end it.
Open(p) == \A w \in Workers : calls[w].at = "executed" => jobs[w].id # p.id
Ready(f) == Held(db, f) \/ \E p \in processing : f \in p.files /\ Open(p)
AllReady == \A f \in db.files : Due(f) => Ready(f)
Scheduled == Apart /\ Agree /\ Assigned /\ AllReady

\* Calls that are not made or not executed, and tasks that are not taken, change nothing.
LEMMA SameScheduled ==
  ASSUME Inv, Scheduled, UNCHANGED <<db, processing, jobs>>,
         \A w \in Workers : /\ calls'[w].at = "executed" => calls[w].at = "executed"
                            /\ calls'[w] # NoCall => ToSet(calls'[w].rm) = jobs[w].files
  PROVE  Scheduled'
<1>1. Apart' /\ Agree'
  BY DEF Scheduled, Apart, Agree, Idle
<1>2. Assigned'
  BY DEF Assigned
<1>3. \A p : Open(p) => Open(p)'
  BY DEF Open
<1>4. ASSUME NEW f \in db.files, Due(f) PROVE Held(db, f) \/ \E p \in processing : f \in p.files /\ Open(p)'
  BY <1>3, <1>4 DEF Scheduled, AllReady, Ready
<1>5. AllReady'
  BY <1>4 DEF AllReady, Ready
<1> QED  BY <1>1, <1>2, <1>5 DEF Scheduled

\* Calls of users, repetitions and given up requests.
LEMMA MoveScheduled ==
  ASSUME Inv, Scheduled, NEW c \in Users \cup Workers,
         Send(c) \/ Repeat(c) \/ GiveUp(c) \/ Answer(c)
  PROVE  Scheduled'
<1>1. calls \in [Users \cup Workers -> Call] /\ Users \cap Workers = {}
  BY UsersApart DEF Inv, TypeOK
<1>2. UNCHANGED <<db, processing, jobs>>
  BY DEF Send, Repeat, GiveUp, Answer
<1>3. ASSUME NEW w \in Workers
      PROVE  /\ calls'[w].at = "executed" => calls[w].at = "executed"
             /\ calls'[w] # NoCall => ToSet(calls'[w].rm) = jobs[w].files
  <2>1. calls[w] # NoCall => ToSet(calls[w].rm) = jobs[w].files
    BY DEF Scheduled, Assigned
  <2>2. CASE Send(c)
    <3>1. calls'[w] = calls[w]
      BY <1>1, <2>2 DEF Send
    <3> QED  BY <2>1, <3>1
  <2>3. CASE Repeat(c) \/ GiveUp(c) \/ Answer(c)
    <3>1. PICK where \in {"sent", "failed", "done"} : Move(c, where)
      BY <2>3 DEF Repeat, GiveUp, Answer
    <3>2. CASE w # c
      <4>1. calls'[w] = calls[w]
        BY <1>1, <3>1, <3>2 DEF Move
      <4> QED  BY <2>1, <4>1
    <3>3. CASE w = c
      <4>1. calls'[w].at = where /\ calls'[w].rm = calls[w].rm
        BY <1>1, <3>1, <3>3 DEF Move, Call
      <4>2. calls[w] # NoCall
        BY <2>3, <3>3 DEF Repeat, GiveUp, Answer, NoCall
      <4> QED  BY <2>1, <4>1, <4>2
    <3> QED  BY <3>2, <3>3
  <2> QED  BY <2>2, <2>3
<1> QED  BY <1>2, <1>3, SameScheduled

\* A worker calls Batch.
LEMMA WorkScheduled ==
  ASSUME Inv, Scheduled, NEW w \in Workers, Work(w)
  PROVE  Scheduled'
<1>1. ToSet(calls'[w].rm) = jobs[w].files
  BY WorkTypes
<1>2. UNCHANGED <<db, processing, jobs>>
  BY DEF Work
<1>3. calls'[w].at = "sent" /\ \A v \in Workers \ {w} : calls'[v] = calls[v]
  BY DEF Work, Inv, TypeOK
<1>4. \A v \in Workers : calls[v] # NoCall => ToSet(calls[v].rm) = jobs[v].files
  BY DEF Scheduled, Assigned
<1>5. ASSUME NEW v \in Workers
      PROVE  /\ calls'[v].at = "executed" => calls[v].at = "executed"
             /\ calls'[v] # NoCall => ToSet(calls'[v].rm) = jobs[v].files
  BY <1>1, <1>3, <1>4
<1> QED  BY <1>2, <1>5, SameScheduled

\* The script runs: what it indexes is in the queues, and if it was a worker's call, what
\* the worker's task held is not indexed any more.
LEMMA ExecuteScheduled ==
  ASSUME Inv, Scheduled, NEW c \in Users \cup Workers, Execute(c)
  PROVE  Scheduled'
<1>1. PICK e : Ran(c, e)
  BY ExecuteRan
<1>2. PICK r : r = db'
  OBVIOUS
<1>3. Grown(db, r) /\ NewHeld(db, r)
  <2>1. PICK x \in Call : x = calls[c]
    BY DEF Inv, TypeOK
  <2>2. db \in Db /\ x.add \in Seq(File) /\ x.rm \in Seq(File) /\ QueuesSorted(db) /\ Named(db)
    BY DEF Inv, TypeOK, Call, Tasked
  <2>3. r = Script(db, x)
    BY <1>2, <2>1 DEF Execute
  <2> QED  BY <2>2, <2>3, ScriptTasks
<1>4. UNCHANGED <<processing, jobs>> /\ calls[c].at = "sent"
  BY DEF Execute
<1>5. /\ db \in Db /\ r \in Db /\ db.uuids \in Nat /\ r.uuids \in Nat /\ db.uuids <= r.uuids
  <2>1. Inv'
    BY ExecuteTypes
  <2> QED  BY <1>2, <1>3, <2>1, DbType DEF Inv, TypeOK, Grown
<1>6. Agree'
  BY <1>2, <1>4, <1>5 DEF Scheduled, Agree, Idle
<1>7. Assigned'
  <2>1. ASSUME NEW w \in Workers, calls'[w] # NoCall PROVE ToSet(calls'[w].rm) = jobs[w].files
    <3>1. calls[w] # NoCall /\ calls'[w].rm = calls[w].rm
      BY <1>1, <1>4, <2>1 DEF Ran, NoCall
    <3> QED  BY <3>1 DEF Scheduled, Assigned
  <2> QED  BY <1>4, <2>1 DEF Assigned
<1>8. Apart'
  <2>1. ASSUME NEW q \in Queues, NEW i \in DOMAIN r.idle[q]
        PROVE  /\ \A p \in processing : p.id # r.idle[q][i].id
               /\ \A w \in Workers : jobs[w].id # r.idle[q][i].id
    <3>1. CASE i \in DOMAIN db.idle[q]
      <4>1. r.idle[q][i].id = db.idle[q][i].id
        BY <1>3, <3>1 DEF Grown
      <4> QED  BY <3>1, <4>1 DEF Scheduled, Apart
    <3>2. CASE i \notin DOMAIN db.idle[q]
      <4>1. PICK n : n = r.idle[q][i].id
        OBVIOUS
      <4>2. db.uuids < n
        BY <1>3, <3>2, <4>1 DEF Grown
      <4>3. n \notin 0 .. db.uuids
        BY <1>5, <4>2
      <4>4. \A p \in processing : p.id \in 0 .. db.uuids
        BY <1>5 DEF Scheduled, Agree
      <4>5. \A w \in Workers : jobs[w].id \in 0 .. db.uuids
        BY <1>5 DEF Scheduled, Agree, Idle, NoJob
      <4> QED  BY <4>1, <4>3, <4>4, <4>5
    <3> QED  BY <3>1, <3>2
  <2> QED  BY <1>2, <1>4, <2>1 DEF Apart
<1>9. AllReady'
  <2>1. ASSUME NEW f \in r.files, Due(f)
        PROVE  Held(r, f) \/ \E p \in processing : f \in p.files /\ Open(p)'
    <3>1. CASE f \notin db.files
      BY <1>3, <2>1, <3>1 DEF NewHeld
    <3>2. CASE f \in db.files /\ Held(db, f)
      BY <1>3, <1>5, <2>1, <3>2, GrownHeld, DbType
    <3>3. ASSUME NEW p \in processing, f \in p.files, Open(p) PROVE Open(p)'
      <4>1. ASSUME NEW w \in Workers, calls'[w].at = "executed" PROVE jobs[w].id # p.id
        <5>1. CASE w # c
          BY <1>1, <3>3, <4>1, <5>1 DEF Ran, Open
        <5>2. CASE w = c
          <6>1. f \notin e.rm
            BY <1>1, <1>2, <4>1, <5>2 DEF Ran, Change
          <6>2. e.rm = jobs[w].files /\ ~Idle(w)
            BY <1>1, <1>4, <5>2 DEF Ran, Scheduled, Assigned, NoCall, Inv, TypeOK
          <6> QED  BY <3>3, <6>1, <6>2 DEF Scheduled, Agree
        <5> QED  BY <5>1, <5>2
      <4> QED  BY <1>4, <4>1 DEF Open
    <3> QED  BY <2>1, <3>1, <3>2, <3>3 DEF Scheduled, AllReady, Ready
  <2> QED  BY <1>2, <1>4, <2>1 DEF AllReady, Ready
<1> QED  BY <1>6, <1>7, <1>8, <1>9 DEF Scheduled

\* A worker gets a task from a queue.
LEMMA GetTaskScheduled ==
  ASSUME Inv, Scheduled, NEW w \in Workers, NEW q \in Queues, GetTask(w, q)
  PROVE  Scheduled'
<1>1. db \in Db /\ QueuesSorted(db) /\ Named(db) /\ jobs \in [Workers -> Job]
  BY DEF Inv, TypeOK, Tasked
<1>2. PICK d : d = [db EXCEPT !.idle[q] = Tail(@)]
  OBVIOUS
<1>3. Beheaded(db, d, q)
  BY <1>1, <1>2, TailIs DEF GetTask
<1>4. PICK task \in Task : task = Head(db.idle[q])
  BY <1>3 DEF Beheaded
<1>5. QueuesSorted(d) /\ Named(d) /\ Sorted(task.files) /\ OfQueue(task.files, q)
  BY <1>1, <1>3, <1>4, BeheadedTasks
<1>6. d \in Db /\ SameFiles(db, d) /\ d.uuids = db.uuids
  BY <1>3 DEF Beheaded
<1>7. Receive(w, task, d) /\ processing' = processing \cup {task}
  BY <1>2, <1>4 DEF GetTask
<1>8. PICK r : r = db'
  OBVIOUS
<1>9. /\ r \in Db /\ SameFiles(d, r) /\ r.idle = d.idle /\ d.uuids <= r.uuids
      /\ \E j \in Job : jobs' = [jobs EXCEPT ![w] = j] /\ j.id = task.id /\ j.files = task.files
  BY <1>5, <1>6, <1>7, <1>8, ReceiveTypes
<1>10. /\ jobs'[w].id = task.id /\ jobs'[w].files = task.files
       /\ \A v \in Workers \ {w} : jobs'[v] = jobs[v]
  BY <1>1, <1>9
<1>11. /\ task = db.idle[q][1] /\ 1 \in DOMAIN db.idle[q]
       /\ \A p \in processing : p.id # task.id
       /\ \A v \in Workers : jobs[v].id # task.id
  BY <1>3, <1>4 DEF Beheaded, Scheduled, Apart
<1>12. ASSUME NEW p \in Queues, NEW i \in DOMAIN r.idle[p]
       PROVE  r.idle[p][i].id # task.id
              /\ \E k \in DOMAIN db.idle[p] : r.idle[p][i] = db.idle[p][k]
  <2>1. PICK k \in DOMAIN db.idle[p] : r.idle[p][i] = db.idle[p][k] /\ (p = q => k # 1)
    <3>1. CASE p = q
      <4>1. i \in Nat /\ i + 1 \in DOMAIN db.idle[q] /\ r.idle[q][i] = db.idle[q][i + 1]
        BY <1>3, <1>9, <3>1 DEF Beheaded
      <4>2. i # 0
        <5>1. r.idle[q] \in Seq(Task)
          BY <1>9, DbType
        <5> QED  BY <3>1, <5>1
      <4>3. i + 1 # 1
        BY <4>1, <4>2
      <4> QED  BY <3>1, <4>1, <4>3
    <3>2. CASE p # q
      BY <1>3, <1>9, <3>2 DEF Beheaded
    <3> QED  BY <3>1, <3>2
  <2>2. db.idle[p][k].id # task.id
    BY <1>1, <1>11, <2>1 DEF Named
  <2> QED  BY <2>1, <2>2
<1>13. Apart'
  <2>1. ASSUME NEW p \in Queues, NEW i \in DOMAIN r.idle[p]
        PROVE  /\ \A t \in processing' : t.id # r.idle[p][i].id
               /\ \A v \in Workers : jobs'[v].id # r.idle[p][i].id
    <3>1. PICK k \in DOMAIN db.idle[p] : r.idle[p][i] = db.idle[p][k]
      BY <1>12
    <3>2. /\ \A t \in processing : t.id # r.idle[p][i].id
          /\ \A v \in Workers : jobs[v].id # r.idle[p][i].id
      BY <3>1 DEF Scheduled, Apart
    <3>3. r.idle[p][i].id # task.id
      BY <1>12
    <3> QED  BY <1>7, <1>10, <3>2, <3>3
  <2> QED  BY <1>8, <2>1 DEF Apart
<1>14. Agree'
  <2>1. /\ db.uuids \in Nat /\ r.uuids \in Nat /\ db.uuids <= r.uuids
        /\ task.id \in 1 .. db.uuids
    BY <1>1, <1>6, <1>9, <1>11, DbType DEF Named
  <2>2. \A p, t \in processing' : p.id = t.id => p = t
    BY <1>7, <1>11 DEF Scheduled, Agree
  <2>3. \A p \in processing' : p.id \in 1 .. r.uuids
    BY <1>7, <2>1 DEF Scheduled, Agree
  <2>4. \A v \in Workers : jobs'[v] # NoJob => jobs'[v].id \in 1 .. r.uuids
    BY <1>10, <2>1 DEF Scheduled, Agree, Idle
  <2>5. ASSUME NEW p \in processing', NEW v \in Workers, jobs'[v] # NoJob, p.id = jobs'[v].id
        PROVE  p.files = jobs'[v].files
    BY <1>7, <1>10, <1>11, <2>5 DEF Scheduled, Agree, Idle
  <2> QED  BY <1>8, <2>2, <2>3, <2>4, <2>5 DEF Agree, Idle
<1>15. calls[w] = NoCall /\ calls' = calls
  BY DEF GetTask, Inv, TypeOK
<1>16. Assigned'
  BY <1>10, <1>15 DEF Scheduled, Assigned
<1>17. ASSUME NEW p, Open(p) PROVE Open(p)'
  BY <1>10, <1>15, <1>17 DEF Open, NoCall
<1>18. Open(task)'
  BY <1>10, <1>11, <1>15 DEF Open, NoCall
<1>19. AllReady'
  <2>1. ASSUME NEW f \in r.files, Due(f)
        PROVE  Held(r, f) \/ \E p \in processing' : f \in p.files /\ Open(p)'
    <3>1. f \in db.files
      BY <1>6, <1>9 DEF SameFiles
    <3>2. QueueOf(f) \in Queues
      BY <1>1, <2>1, <3>1, DbType, FileType, DueQueued DEF Queued
    <3>3. CASE \E p \in processing : f \in p.files /\ Open(p)
      BY <1>7, <1>17, <3>3
    <3>4. CASE Held(db, f)
      <4>1. PICK i \in DOMAIN db.idle[QueueOf(f)] : f \in db.idle[QueueOf(f)][i].files
        BY <3>4 DEF Held
      <4>2. CASE QueueOf(f) # q
        <5>1. r.idle[QueueOf(f)] = db.idle[QueueOf(f)]
          BY <1>3, <1>9, <3>2, <4>2 DEF Beheaded
        <5> QED  BY <4>1, <5>1 DEF Held
      <4>3. CASE QueueOf(f) = q /\ i # 1
        <5>1. i \in Nat /\ i - 1 \in DOMAIN r.idle[q]
          BY <1>3, <1>9, <4>1, <4>3 DEF Beheaded
        <5>2. r.idle[q][i - 1] = db.idle[q][i]
          <6>1. (i - 1) + 1 = i
            BY <5>1
          <6>2. r.idle[q][i - 1] = db.idle[q][(i - 1) + 1]
            BY <1>3, <1>9, <5>1 DEF Beheaded
          <6> QED  BY <6>1, <6>2
        <5> QED  BY <4>1, <4>3, <5>1, <5>2 DEF Held
      <4>4. CASE QueueOf(f) = q /\ i = 1
        BY <1>7, <1>11, <1>18, <4>1, <4>4
      <4> QED  BY <4>2, <4>3, <4>4
    <3> QED  BY <2>1, <3>1, <3>3, <3>4 DEF Scheduled, AllReady, Ready
  <2> QED  BY <1>8, <2>1 DEF AllReady, Ready
<1> QED  BY <1>13, <1>14, <1>16, <1>19 DEF Scheduled

\* A task that is thrown away holds no file with a time: its queue is one of moves, and it
\* holds one file.
LEMMA UntimedUndue ==
  ASSUME NEW d \in Db, NEW q \in Queues, OfQueue(Head(d.idle[q]).files, q), ~HasTime(Head(d.idle[q])),
         NEW f \in Head(d.idle[q]).files
  PROVE  ~Due(f)
<1>1. PICK F : F = Head(d.idle[q]).files
  OBVIOUS
<1>2. PICK g \in F : ~Merges(g)
  BY <1>1 DEF HasTime
<1>3. QueueOf(g) = q /\ Route(g) # "merge"
  BY <1>1, <1>2 DEF OfQueue, Route
<1>4. q[1] \in {"merge", "move"}
  BY DEF Queues
<1>5. q[1] = "move"
  BY <1>3, <1>4 DEF QueueOf
<1>6. f = g
  BY <1>1, <1>5 DEF OfQueue
<1> QED  BY <1>2, <1>6 DEF Due

\* A task without a time is thrown away.
LEMMA GetUntimedScheduled ==
  ASSUME Inv, Scheduled, NEW w \in Workers, NEW q \in Queues, GetUntimed(w, q)
  PROVE  Scheduled'
<1>1. db \in Db /\ QueuesSorted(db) /\ Named(db) /\ jobs \in [Workers -> Job]
  BY DEF Inv, TypeOK, Tasked
<1>2. PICK r : r = db'
  OBVIOUS
<1>3. Beheaded(db, r, q)
  BY <1>1, <1>2, TailIs DEF GetUntimed
<1>4. r \in Db /\ SameFiles(db, r) /\ r.uuids = db.uuids
  BY <1>3 DEF Beheaded
<1>5. UNCHANGED <<processing, calls, jobs>>
  BY DEF GetUntimed
<1>6. ASSUME NEW p \in Queues, NEW i \in DOMAIN r.idle[p]
      PROVE  \E k \in DOMAIN db.idle[p] : r.idle[p][i] = db.idle[p][k]
  BY <1>3 DEF Beheaded
<1>7. Apart'
  <2>1. ASSUME NEW p \in Queues, NEW i \in DOMAIN r.idle[p]
        PROVE  /\ \A t \in processing : t.id # r.idle[p][i].id
               /\ \A v \in Workers : jobs[v].id # r.idle[p][i].id
    BY <1>6 DEF Scheduled, Apart
  <2> QED  BY <1>2, <1>5, <2>1 DEF Apart
<1>8. Agree'
  BY <1>2, <1>4, <1>5 DEF Scheduled, Agree, Idle
<1>9. Assigned'
  BY <1>5 DEF Scheduled, Assigned
<1>10. \A p : Open(p) => Open(p)'
  BY <1>5 DEF Open
<1>11. AllReady'
  <2>1. ASSUME NEW f \in r.files, Due(f)
        PROVE  Held(r, f) \/ \E p \in processing : f \in p.files /\ Open(p)'
    <3>1. f \in db.files
      BY <1>4 DEF SameFiles
    <3>2. QueueOf(f) \in Queues
      BY <1>1, <2>1, <3>1, DbType, FileType, DueQueued DEF Queued
    <3>3. CASE \E p \in processing : f \in p.files /\ Open(p)
      BY <1>10, <3>3
    <3>4. CASE Held(db, f)
      <4>1. PICK i \in DOMAIN db.idle[QueueOf(f)] : f \in db.idle[QueueOf(f)][i].files
        BY <3>4 DEF Held
      <4>2. CASE QueueOf(f) # q
        <5>1. r.idle[QueueOf(f)] = db.idle[QueueOf(f)]
          BY <1>3, <3>2, <4>2 DEF Beheaded
        <5> QED  BY <4>1, <5>1 DEF Held
      <4>3. CASE QueueOf(f) = q /\ i # 1
        <5>1. i \in Nat /\ i - 1 \in DOMAIN r.idle[q]
          BY <1>3, <4>1, <4>3 DEF Beheaded
        <5>2. r.idle[q][i - 1] = db.idle[q][i]
          <6>1. (i - 1) + 1 = i
            BY <5>1
          <6>2. r.idle[q][i - 1] = db.idle[q][(i - 1) + 1]
            BY <1>3, <5>1 DEF Beheaded
          <6> QED  BY <6>1, <6>2
        <5> QED  BY <4>1, <4>3, <5>1, <5>2 DEF Held
      <4>4. CASE QueueOf(f) = q /\ i = 1
        <5>1. f \in Head(db.idle[q]).files
          BY <1>3, <4>1, <4>4 DEF Beheaded
        <5>2. OfQueue(Head(db.idle[q]).files, q) /\ ~HasTime(Head(db.idle[q]))
          BY <1>1, <1>3, BeheadedTasks DEF GetUntimed
        <5> QED  BY <1>1, <2>1, <5>1, <5>2, UntimedUndue
      <4> QED  BY <4>2, <4>3, <4>4
    <3> QED  BY <2>1, <3>1, <3>3, <3>4 DEF Scheduled, AllReady, Ready
  <2> QED  BY <1>2, <1>5, <2>1 DEF AllReady, Ready
<1> QED  BY <1>7, <1>8, <1>9, <1>11 DEF Scheduled

\* A worker gets a task again.
LEMMA GetStaleScheduled ==
  ASSUME Inv, Scheduled, NEW w \in Workers, GetStale(w)
  PROVE  Scheduled'
<1>1. db \in Db /\ QueuesSorted(db) /\ Named(db) /\ jobs \in [Workers -> Job]
  BY DEF Inv, TypeOK, Tasked
<1>2. PICK task \in processing : Receive(w, task, db)
  BY DEF GetStale
<1>3. task \in Task /\ Sorted(task.files)
  BY DEF Inv, TypeOK, Tasked
<1>4. PICK r : r = db'
  OBVIOUS
<1>5. /\ r \in Db /\ SameFiles(db, r) /\ r.idle = db.idle /\ db.uuids <= r.uuids
      /\ \E j \in Job : jobs' = [jobs EXCEPT ![w] = j] /\ j.id = task.id /\ j.files = task.files
  BY <1>1, <1>2, <1>3, <1>4, ReceiveTypes
<1>6. /\ jobs'[w].id = task.id /\ jobs'[w].files = task.files
      /\ \A v \in Workers \ {w} : jobs'[v] = jobs[v]
  BY <1>1, <1>5
<1>7. UNCHANGED <<processing, calls>> /\ calls[w] = NoCall
  BY DEF GetStale, Inv, TypeOK
<1>8. Apart'
  <2>1. \A p \in Queues : \A i \in DOMAIN r.idle[p] :
          /\ \A t \in processing : t.id # r.idle[p][i].id
          /\ \A v \in Workers : jobs'[v].id # r.idle[p][i].id
    BY <1>2, <1>5, <1>6 DEF Scheduled, Apart
  <2> QED  BY <1>4, <1>7, <2>1 DEF Apart
<1>9. Agree'
  <2>1. db.uuids \in Nat /\ r.uuids \in Nat /\ db.uuids <= r.uuids
    BY <1>1, <1>5, DbType
  <2>2. \A p \in processing : p.id \in 1 .. r.uuids
    BY <2>1 DEF Scheduled, Agree
  <2>3. \A v \in Workers : jobs'[v] # NoJob => jobs'[v].id \in 1 .. r.uuids
    BY <1>2, <1>6, <2>1, <2>2 DEF Scheduled, Agree, Idle
  <2>4. ASSUME NEW p \in processing, NEW v \in Workers, jobs'[v] # NoJob, p.id = jobs'[v].id
        PROVE  p.files = jobs'[v].files
    BY <1>2, <1>6, <2>4 DEF Scheduled, Agree, Idle
  <2> QED  BY <1>4, <1>7, <2>2, <2>3, <2>4 DEF Scheduled, Agree, Idle
<1>10. Assigned'
  BY <1>6, <1>7 DEF Scheduled, Assigned
<1>11. ASSUME NEW p, Open(p) PROVE Open(p)'
  BY <1>6, <1>7, <1>11 DEF Open, NoCall
<1>12. AllReady'
  <2>1. ASSUME NEW f \in r.files, Due(f)
        PROVE  Held(r, f) \/ \E p \in processing : f \in p.files /\ Open(p)'
    BY <1>5, <1>11, <2>1 DEF SameFiles, Scheduled, AllReady, Ready, Held
  <2> QED  BY <1>4, <1>7, <2>1 DEF AllReady, Ready
<1> QED  BY <1>8, <1>9, <1>10, <1>12 DEF Scheduled

\* A worker leaves its task, or ends it: then the task was not open.
LEMMA LeaveScheduled ==
  ASSUME Inv, Scheduled, NEW w \in Workers, Abandon(w) \/ EndTask(w)
  PROVE  Scheduled'
<1>1. /\ jobs' = [jobs EXCEPT ![w] = NoJob] /\ calls' = [calls EXCEPT ![w] = NoCall] /\ db' = db
      /\ processing' \subseteq processing
  BY DEF Abandon, EndTask
<1>2. /\ jobs'[w] = NoJob /\ calls'[w] = NoCall
      /\ \A v \in Workers \ {w} : jobs'[v] = jobs[v] /\ calls'[v] = calls[v]
  BY <1>1 DEF Inv, TypeOK, Tasked
<1>3. ASSUME NEW q \in Queues, NEW i \in DOMAIN db.idle[q] PROVE db.idle[q][i].id # 0
  <2>1. db.idle[q][i].id \in 1 .. db.uuids /\ db.uuids \in Nat
    BY DbType DEF Inv, TypeOK, Tasked, Named
  <2> QED  BY <2>1
<1>4. Apart'
  BY <1>1, <1>2, <1>3 DEF Scheduled, Apart, NoJob
<1>5. Agree'
  BY <1>1, <1>2 DEF Scheduled, Agree, Idle
<1>6. Assigned'
  BY <1>2 DEF Scheduled, Assigned
<1>7. ASSUME NEW p \in processing, Open(p) PROVE p \in processing' /\ Open(p)'
  <2>1. Open(p)'
    BY <1>2, <1>7 DEF Open, NoCall
  <2>2. CASE Abandon(w)
    BY <2>1, <2>2 DEF Abandon
  <2>3. CASE EndTask(w)
    BY <1>7, <2>1, <2>3 DEF EndTask, Open
  <2> QED  BY <2>1, <2>2, <2>3
<1>8. AllReady'
  <2>1. ASSUME NEW f \in db.files, Due(f)
        PROVE  Held(db, f) \/ \E p \in processing' : f \in p.files /\ Open(p)'
    BY <1>7, <2>1 DEF Scheduled, AllReady, Ready
  <2> QED  BY <1>1, <2>1 DEF AllReady, Ready
<1> QED  BY <1>4, <1>5, <1>6, <1>8 DEF Scheduled

\* Every step keeps files in tasks.
LEMMA NextScheduled ==
  ASSUME Inv, Scheduled, [Next]_vars
  PROVE  Scheduled'
<1>1. ASSUME NEW c \in Users \cup Workers, Send(c) \/ Repeat(c) \/ GiveUp(c) \/ Answer(c)
      PROVE  Scheduled'
  BY <1>1, MoveScheduled
<1>2. ASSUME NEW c \in Users \cup Workers, Execute(c) PROVE Scheduled'
  BY <1>2, ExecuteScheduled
<1>3. ASSUME NEW w \in Workers, NEW q \in Queues, GetTask(w, q) PROVE Scheduled'
  BY <1>3, GetTaskScheduled
<1>4. ASSUME NEW w \in Workers, GetStale(w) PROVE Scheduled'
  BY <1>4, GetStaleScheduled
<1>5. ASSUME NEW w \in Workers, Work(w) PROVE Scheduled'
  BY <1>5, WorkScheduled
<1>6. ASSUME NEW w \in Workers, Abandon(w) \/ EndTask(w) PROVE Scheduled'
  BY <1>6, LeaveScheduled
<1>7. CASE UNCHANGED <<db, processing, calls, jobs>>
  BY <1>7, SameScheduled DEF Scheduled, Assigned
<1>8. ASSUME NEW f \in db.drops, Drop(f) PROVE Scheduled'
  BY <1>7, <1>8 DEF Drop
<1>9. CASE UNCHANGED vars
  BY <1>7, <1>9 DEF vars
<1>10. ASSUME NEW w \in Workers, NEW q \in Queues, GetUntimed(w, q) PROVE Scheduled'
  BY <1>10, GetUntimedScheduled
<1> QED  BY <1>1, <1>2, <1>3, <1>4, <1>5, <1>6, <1>8, <1>9, <1>10 DEF Next

\* At the start there are no files.
LEMMA InitScheduled == Init => Scheduled
<1> SUFFICES ASSUME Init PROVE Scheduled
  OBVIOUS
<1>1. Apart /\ AllReady
  BY DEF Init, Apart, AllReady
<1>2. Agree /\ Assigned
  BY DEF Init, Agree, Assigned, Idle
<1> QED  BY <1>1, <1>2 DEF Scheduled

\* Every indexed file of an iteration that is merged is in a task: the script, workers that
\* leave their tasks or do them twice, and requests that fail lose none, and the tasks that
\* the script throws away for want of a time hold no such file.
THEOREM AllScheduled == Spec => []StillScheduled
<1>1. Init => Scheduled
  BY InitScheduled
<1>2. Inv /\ Scheduled /\ [Next]_vars => Scheduled'
  BY NextScheduled
<1>3. Inv /\ Scheduled => StillScheduled
  <2> SUFFICES ASSUME Inv, Scheduled, NEW f \in db.files, f.layer \in Layers, Merges(f)
               PROVE  \E t \in Tasks : f \in t.files
    BY DEF StillScheduled
  <2>1. f \in File
    BY DbType DEF Inv, TypeOK
  <2>2. QueueOf(f) \in Queues
    BY <2>1, FileType, DueQueued DEF Due, Queued
  <2>3. CASE Held(db, f)
    <3>1. PICK i \in DOMAIN db.idle[QueueOf(f)] : f \in db.idle[QueueOf(f)][i].files
      BY <2>3 DEF Held
    <3>2. db.idle[QueueOf(f)][i] \in ToSet(db.idle[QueueOf(f)])
      BY <3>1 DEF ToSet
    <3> QED  BY <2>2, <3>1, <3>2 DEF Tasks
  <2>4. CASE \E p \in processing : f \in p.files
    BY <2>4 DEF Tasks
  <2> QED  BY <2>3, <2>4 DEF Scheduled, AllReady, Ready, Due
<1> QED  BY <1>1, <1>2, <1>3, Typed, PTL DEF Spec

-----------------------------------------------------------------------------
(* The rows in the tasks.                                                  *)

\* The files of task id have names made before that of its result: the result of a move
\* has the name of the task, that of a merge a name made later.
Older(F, id, n) == \A f \in F : f.uid <= n /\ (Route(f) = "move" => f.uid < id)
Dated(d) ==
  \A q \in Queues : \A i \in DOMAIN d.idle[q] :
    Older(d.idle[q][i].files, d.idle[q][i].id, d.uuids)

\* No row is in two of the tasks in the queues, and none of file f is in one.
Scattered(d) ==
  \A p, q \in Queues : \A i \in DOMAIN d.idle[p], j \in DOMAIN d.idle[q] :
    \A f \in d.idle[p][i].files, g \in d.idle[q][j].files : Share(f, g) => p = q /\ i = j
Unqueued(d, f) == \A q \in Queues : \A i \in DOMAIN d.idle[q] : \A g \in d.idle[q][i].files : ~Share(f, g)

\* File g was in this task before.
Was(d, q, k, g) == k \in DOMAIN d.idle[q] /\ g \in d.idle[q][k].files

\* The only file that came to the tasks is f, and to one task.
OnlyAt(d, r, f, p, i) ==
  \A q \in Queues : \A k \in DOMAIN r.idle[q] : \A g \in r.idle[q][k].files :
    Was(d, q, k, g) \/ (g = f /\ q = p /\ k = i)

\* A file shares rows with itself, and others share rows with it as it does with them.
LEMMA Shares ==
  ASSUME NEW f \in File, NEW g
  PROVE  Share(f, f) /\ (Share(f, g) <=> Share(g, f))
BY FileType DEF Share

\* An addition leaves the tasks dated.
LEMMA FiledDated ==
  ASSUME NEW d \in Db, NEW f \in File, NEW r, Filed(d, r, f), QueueOf(f) \in Queues,
         Dated(d), f.uid <= d.uuids
  PROVE  Dated(r)
<1>1. PICK q \in Queues : q = QueueOf(f)
  OBVIOUS
<1>2. PICK k : FiledAt(d, r, f, k)
  BY FiledSomewhere
<1>3. PICK s, t : s = d.idle[q] /\ t = r.idle[q]
  OBVIOUS
<1>4. /\ \A p \in Queues \ {q} : r.idle[p] = d.idle[p]
      /\ DOMAIN t = DOMAIN s \cup {k} /\ \A i \in DOMAIN s \ {k} : t[i] = s[i]
      /\ k \in DOMAIN s => /\ t[k].id = s[k].id /\ t[k].files = s[k].files \cup {f}
                           /\ r.uuids = d.uuids /\ Route(f) = "merge"
      /\ k \notin DOMAIN s => /\ t[k].id = d.uuids + 1 /\ t[k].files = {f}
                              /\ r.uuids = d.uuids + 1
  BY <1>1, <1>2, <1>3 DEF FiledAt
<1>5. d.uuids \in Nat /\ r.uuids \in Nat /\ d.uuids <= r.uuids /\ f.uid \in Int
  BY <1>4, DbType, FileType
<1>6. ASSUME NEW p \in Queues, NEW i \in DOMAIN r.idle[p], NEW g \in r.idle[p][i].files
      PROVE  g.uid <= r.uuids /\ (Route(g) = "move" => g.uid < r.idle[p][i].id)
  <2>1. CASE i \in DOMAIN d.idle[p] /\ r.idle[p][i].id = d.idle[p][i].id /\ g \in d.idle[p][i].files
    <3>1. g.uid <= d.uuids /\ (Route(g) = "move" => g.uid < d.idle[p][i].id)
      BY <2>1 DEF Dated, Older
    <3>2. g.uid \in Int
      <4>1. PICK z \in Seq(Task) : z = d.idle[p]
        BY DbType
      <4>2. z[i] \in Task
        BY <2>1, <4>1
      <4>3. z[i].files \in SUBSET File
        BY <4>2 DEF Task
      <4> QED  BY <2>1, <4>1, <4>3, FileType
    <3> QED  BY <1>5, <2>1, <3>1, <3>2
  <2>2. CASE p = q /\ i = k /\ g = f
    <3>1. CASE k \in DOMAIN s
      BY <1>4, <1>5, <2>2, <3>1
    <3>2. CASE k \notin DOMAIN s
      <4>1. r.idle[p][i].id = d.uuids + 1
        BY <1>3, <1>4, <2>2, <3>2
      <4> QED  BY <1>5, <2>2, <4>1
    <3> QED  BY <3>1, <3>2
  <2>3. CASE p # q
    BY <1>4, <2>1, <2>3
  <2>4. CASE p = q /\ i # k
    BY <1>3, <1>4, <2>1, <2>4
  <2>5. CASE p = q /\ i = k
    BY <1>3, <1>4, <2>1, <2>2, <2>5
  <2> QED  BY <2>3, <2>4, <2>5
<1> QED  BY <1>6 DEF Dated, Older

\* An addition puts its file into one task at most, and keeps the tasks dated.
LEMMA AddedRows ==
  ASSUME NEW d \in Db, NEW f \in File, NEW r, Added(d, r, f)
  PROVE  /\ \E p, i : OnlyAt(d, r, f, p, i)
         /\ f.iteration = 0 => \A q \in Queues : r.idle[q] = d.idle[q]
         /\ Dated(d) /\ f.uid <= d.uuids => Dated(r)
<1>1. CASE SameTasks(d, r)
  BY <1>1 DEF SameTasks, OnlyAt, Was, Dated
<1>2. CASE Filed(d, r, f) /\ Queued(f) /\ f.iteration # 0
  <2>1. QueueOf(f) \in Queues
    BY <1>2, FileType DEF Queued
  <2>2. PICK q \in Queues : q = QueueOf(f)
    BY <2>1
  <2>3. PICK k : FiledAt(d, r, f, k)
    BY <1>2, <2>1, FiledSomewhere
  <2>4. OnlyAt(d, r, f, q, k)
    <3>1. ASSUME NEW p \in Queues, NEW i \in DOMAIN r.idle[p], NEW g \in r.idle[p][i].files
          PROVE  Was(d, p, i, g) \/ (g = f /\ p = q /\ i = k)
      <4>1. CASE p # q
        BY <2>2, <2>3, <4>1 DEF FiledAt, Was
      <4>2. CASE p = q
        BY <2>2, <2>3, <4>2 DEF FiledAt, Was
      <4> QED  BY <4>1, <4>2
    <3> QED  BY <3>1 DEF OnlyAt
  <2>5. Dated(d) /\ f.uid <= d.uuids => Dated(r)
    BY <1>2, <2>1, FiledDated
  <2> QED  BY <1>2, <2>4, <2>5
<1> QED  BY <1>1, <1>2 DEF Added

\* If that file shares no row with the tasks, they stay scattered.
LEMMA OnlyAtScattered ==
  ASSUME NEW d, NEW r, NEW f \in File, NEW p, NEW i, OnlyAt(d, r, f, p, i),
         Scattered(d), Unqueued(d, f),
         \A q \in Queues : \A k \in DOMAIN d.idle[q] : d.idle[q][k].files \subseteq File
  PROVE  Scattered(r)
<1>1. ASSUME NEW q \in Queues, NEW o \in Queues, NEW k \in DOMAIN r.idle[q],
             NEW l \in DOMAIN r.idle[o], NEW g \in r.idle[q][k].files,
             NEW h \in r.idle[o][l].files, Share(g, h)
      PROVE  q = o /\ k = l
  <2>1. Was(d, q, k, g) \/ (g = f /\ q = p /\ k = i)
    BY DEF OnlyAt
  <2>2. Was(d, o, l, h) \/ (h = f /\ o = p /\ l = i)
    BY DEF OnlyAt
  <2>3. CASE Was(d, q, k, g) /\ Was(d, o, l, h)
    BY <1>1, <2>3 DEF Was, Scattered
  <2>4. CASE g = f /\ Was(d, o, l, h)
    BY <1>1, <2>4 DEF Was, Unqueued
  <2>5. CASE Was(d, q, k, g) /\ h = f
    <3>1. Share(h, g)
      BY <1>1, <2>5, Shares
    <3> QED  BY <2>5, <3>1 DEF Was, Unqueued
  <2> QED  BY <2>1, <2>2, <2>3, <2>4, <2>5
<1> QED  BY <1>1 DEF Scattered

\* The files in the tasks are files.
LEMMA TaskFiles ==
  ASSUME NEW d \in Db, NEW q \in Queues, NEW i \in DOMAIN d.idle[q]
  PROVE  d.idle[q][i] \in Task /\ d.idle[q][i].files \in SUBSET File /\ d.idle[q][i].id \in Nat
<1>1. PICK s \in Seq(Task) : s = d.idle[q]
  BY DbType
<1>2. s[i] \in Task
  BY <1>1
<1> QED  BY <1>1, <1>2 DEF Task

\* The files in the tasks after the first n additions: those there were, and the added.
FromThese(d, r, s, n) ==
  \A q \in Queues : \A k \in DOMAIN r.idle[q] : \A g \in r.idle[q][k].files :
    Was(d, q, k, g) \/ \E i \in 1 .. n : g = s[i] /\ g.iteration # 0

\* The additions share no rows, with each other or with the tasks.
Separate(d, s) ==
  \A i \in DOMAIN s : s[i].iteration # 0 =>
    /\ Unqueued(d, s[i])
    /\ \A j \in DOMAIN s : s[j].iteration # 0 /\ Share(s[i], s[j]) => i = j

\* An addition after others.
LEMMA AddedOn ==
  ASSUME NEW d \in Db, NEW x \in Db, NEW s \in Seq(File), NEW i \in Nat, i + 1 \in DOMAIN s,
         NEW f \in File, f = s[i + 1], NEW y, Added(x, y, f), FromThese(d, x, s, i)
  PROVE  /\ FromThese(d, y, s, i + 1)
         /\ Separate(d, s) /\ Scattered(x) => Scattered(y)
<1>1. PICK p, o : OnlyAt(x, y, f, p, o)
  BY AddedRows
<1>2. \A n \in 1 .. i : n \in 1 .. i + 1
  OBVIOUS
<1>3. CASE f.iteration = 0
  <2>1. \A q \in Queues : y.idle[q] = x.idle[q]
    BY <1>3, AddedRows
  <2> QED  BY <1>2, <2>1 DEF FromThese, Was, Scattered
<1>4. CASE f.iteration # 0
  <2>1. FromThese(d, y, s, i + 1)
    <3>1. ASSUME NEW q \in Queues, NEW k \in DOMAIN y.idle[q], NEW g \in y.idle[q][k].files
          PROVE  Was(d, q, k, g) \/ \E n \in 1 .. i + 1 : g = s[n] /\ g.iteration # 0
      <4>1. CASE Was(x, q, k, g)
        BY <1>2, <4>1 DEF Was, FromThese
      <4>2. CASE g = f
        <5>1. i + 1 \in 1 .. i + 1
          OBVIOUS
        <5> QED  BY <1>4, <4>2, <5>1
      <4> QED  BY <1>1, <4>1, <4>2 DEF OnlyAt
    <3> QED  BY <3>1 DEF FromThese
  <2>2. ASSUME Separate(d, s), Scattered(x) PROVE Scattered(y)
    <3>1. Unqueued(x, f)
      <4>1. ASSUME NEW q \in Queues, NEW k \in DOMAIN x.idle[q], NEW g \in x.idle[q][k].files
            PROVE  ~Share(f, g)
        <5>1. CASE Was(d, q, k, g)
          BY <1>4, <2>2, <5>1 DEF Was, Separate, Unqueued
        <5>2. ASSUME NEW n \in 1 .. i, g = s[n], g.iteration # 0 PROVE ~Share(f, g)
          <6>1. n \in DOMAIN s /\ n # i + 1
            <7>1. PICK l \in Nat : l = Len(s) /\ DOMAIN s = 1 .. l
              OBVIOUS
            <7> QED  BY <7>1
          <6> QED  BY <1>4, <2>2, <5>2, <6>1 DEF Separate
        <5> QED  BY <5>1, <5>2 DEF FromThese
      <4> QED  BY <4>1 DEF Unqueued
    <3>2. \A q \in Queues : \A k \in DOMAIN x.idle[q] : x.idle[q][k].files \subseteq File
      BY TaskFiles
    <3> QED  BY <1>1, <2>2, <3>1, <3>2, OnlyAtScattered
  <2> QED  BY <2>1, <2>2
<1> QED  BY <1>3, <1>4

\* What the additions of a call do to the rows in the queues; that of a file with an
\* unusable name is an error.
LEMMA AddRows ==
  ASSUME NEW d \in Db, NEW s \in Seq(File), NEW run, Adds(run, d, s), ~d.error,
         NEW r, r = run[Len(s)]
  PROVE  /\ FromThese(d, r, s, Len(s))
         /\ Separate(d, s) /\ Scattered(d) => Scattered(r)
         /\ Dated(d) /\ (\A i \in DOMAIN s : s[i].uid <= d.uuids) => Dated(r)
         /\ ~r.error => \A i \in DOMAIN s : s[i].iteration # 0
<1> DEFINE n == Len(s)
           Named0 == Dated(d) /\ \A i \in DOMAIN s : s[i].uid <= d.uuids
           P(i) == /\ run[i] \in Db /\ d.uuids <= run[i].uuids /\ FromThese(d, run[i], s, i)
                   /\ Separate(d, s) /\ Scattered(d) => Scattered(run[i])
                   /\ Named0 => Dated(run[i])
                   /\ ~run[i].error => \A k \in 1 .. i : s[k].iteration # 0
           G == {i \in 0 .. n : P(i)}
<1>1. n \in Nat /\ DOMAIN s = 1 .. n
  OBVIOUS
<1>2. 0 \in G
  <2>1. run[0] = d /\ d.uuids <= d.uuids /\ FromThese(d, d, s, 0)
    BY DbType DEF Adds, FromThese, Was
  <2> QED  BY <1>1, <2>1
<1>3. ASSUME NEW i \in 0 .. n - 1, i \in G PROVE i + 1 \in G
  <2>1. i + 1 \in 0 .. n /\ i \in Nat /\ i + 1 \in DOMAIN s
    BY <1>1
  <2>2. P(i)
    BY <1>3
  <2>3. /\ run[i + 1] \in Db /\ s[i + 1] \in File
        /\ \/ run[i].error /\ run[i + 1] = run[i]
           \/ ~run[i].error /\ Added(run[i], run[i + 1], s[i + 1])
    BY <2>2, AddStep
  <2>4. CASE run[i].error
    <3>1. FromThese(d, run[i], s, i + 1)
      <4>1. \A k \in 1 .. i : k \in 1 .. i + 1
        BY <2>1
      <4> QED  BY <2>2, <4>1 DEF FromThese
    <3> QED  BY <2>1, <2>2, <2>3, <2>4, <3>1
  <2>5. CASE ~run[i].error
    <3>1. PICK x \in Db, f \in File : x = run[i] /\ f = s[i + 1]
      BY <2>2, <2>3
    <3>2. PICK y \in Db : y = run[i + 1]
      BY <2>3
    <3>3. Added(x, y, f)
      BY <2>3, <2>5, <3>1, <3>2
    <3>4. /\ FromThese(d, y, s, i + 1)
          /\ Separate(d, s) /\ Scattered(x) => Scattered(y)
      BY <2>1, <2>2, <3>1, <3>3, AddedOn
    <3>5. d.uuids \in Nat /\ x.uuids \in Nat /\ y.uuids \in Nat /\ x.uuids <= y.uuids /\ d.uuids <= x.uuids
      BY <2>2, <3>1, <3>3, AddedTasks, DbType DEF Grown
    <3>6. Named0 => Dated(y)
      <4>1. ASSUME Named0 PROVE f.uid <= x.uuids
        BY <2>1, <3>1, <3>5, <4>1, FileType
      <4> QED  BY <2>2, <3>1, <3>3, <4>1, AddedRows
    <3>7. d.uuids <= y.uuids
      BY <3>5
    <3>8. ~y.error => \A k \in 1 .. i + 1 : s[k].iteration # 0
      <4>1. ~y.error => f.iteration # 0
        BY <3>3 DEF Added
      <4>2. \A k \in 1 .. i + 1 : k \in 1 .. i \/ k = i + 1
        BY <2>1
      <4> QED  BY <2>2, <2>5, <3>1, <4>1, <4>2
    <3> QED  BY <2>1, <2>2, <3>1, <3>2, <3>4, <3>6, <3>7, <3>8
  <2> QED  BY <2>4, <2>5
<1>4. 0 .. n \subseteq G
  <2> HIDE DEF G, n
  <2> QED  BY <1>1, <1>2, <1>3, Induct
<1>5. P(n)
  BY <1>1, <1>4
<1> QED  BY <1>5

\* What the script does to the rows in the queues, and that one that adds a file with an
\* unusable name ends in an error.
LEMMA ScriptRows ==
  ASSUME NEW d \in Db, NEW c, c.add \in Seq(File), c.rm \in Seq(File), NEW r, r = Script(d, c)
  PROVE  /\ FromThese(d, r, c.add, Len(c.add))
         /\ Separate(d, c.add) /\ Scattered(d) => Scattered(r)
         /\ Dated(d) /\ (\A i \in DOMAIN c.add : c.add[i].uid <= d.uuids) => Dated(r)
         /\ ~r.error => \A i \in DOMAIN c.add : c.add[i].iteration # 0
<1>1. PICK e : e = [d EXCEPT !.error = FALSE]
  OBVIOUS
<1>2. e \in Db /\ ~e.error /\ SameTasks(d, e)
  BY <1>1 DEF Db, SameTasks
<1>3. PICK adds, deletes : /\ Adds(adds, e, c.add)
                           /\ Deletes(deletes, adds[Len(c.add)], c.rm)
                           /\ r = deletes[Len(c.rm)]
  BY <1>1, ScriptInTwo
<1>4. PICK m : m = adds[Len(c.add)]
  OBVIOUS
<1>5. /\ FromThese(e, m, c.add, Len(c.add))
      /\ Separate(e, c.add) /\ Scattered(e) => Scattered(m)
      /\ Dated(e) /\ (\A i \in DOMAIN c.add : c.add[i].uid <= e.uuids) => Dated(m)
      /\ ~m.error => \A i \in DOMAIN c.add : c.add[i].iteration # 0
  BY <1>2, <1>3, <1>4, AddRows
<1>6. m \in Db
  BY <1>2, <1>3, <1>4, AddPhase
<1>7. SameTasks(m, r) /\ (~r.error => ~m.error)
  BY <1>3, <1>4, <1>6, DeleteStops, DeletePhase DEF SameTasks
<1>8. /\ FromThese(d, r, c.add, Len(c.add)) <=> FromThese(e, m, c.add, Len(c.add))
      /\ Separate(d, c.add) <=> Separate(e, c.add)
      /\ Scattered(d) <=> Scattered(e)
      /\ Scattered(r) <=> Scattered(m)
  BY <1>2, <1>7 DEF SameTasks, FromThese, Was, Separate, Unqueued, Scattered
<1>9. (Dated(d) <=> Dated(e)) /\ (Dated(r) <=> Dated(m))
  BY <1>2, <1>7 DEF SameTasks, Dated
<1>10. Dated(d) /\ (\A i \in DOMAIN c.add : c.add[i].uid <= d.uuids) => Dated(r)
  BY <1>2, <1>5, <1>9 DEF SameTasks
<1>11. ~r.error => \A i \in DOMAIN c.add : c.add[i].iteration # 0
  BY <1>5, <1>7
<1> QED  BY <1>2, <1>5, <1>8, <1>10, <1>11

\* What is queued, in process or at a worker was named before the result it will have, and
\* so was everything in it.
Handed == \A p \in processing : Older(p.files, p.id, db.uuids)
Begun ==
  \A w \in Workers : ~Idle(w) =>
    jobs[w].to <= db.uuids /\ \A f \in jobs[w].files : f.uid < jobs[w].to
\* What calls add.
Requested ==
  /\ \A u \in Users : calls[u] # NoCall => calls[u].add = scenario.calls[u].add
  /\ \A w \in Workers : calls[w] # NoCall => calls[w].add = <<Output(w)>>
Made == Dated(db) /\ Handed /\ Begun /\ Requested

\* More names have been made.
LEMMA OlderOn ==
  ASSUME NEW F \in SUBSET File, NEW id, NEW n \in Nat, NEW m \in Nat, n <= m, Older(F, id, n)
  PROVE  Older(F, id, m)
<1>1. ASSUME NEW f \in F PROVE f.uid <= m
  <2>1. f.uid \in Int /\ f.uid <= n
    BY FileType DEF Older
  <2> QED  BY <2>1
<1> QED  BY <1>1 DEF Older

\* The tasks that left the queues stay so.
LEMMA MadeOn ==
  ASSUME Inv, Handed, Begun, db'.uuids \in Nat, db.uuids <= db'.uuids, UNCHANGED <<processing, jobs>>
  PROVE  Handed' /\ Begun'
<1>1. db.uuids \in Nat /\ processing \subseteq Task /\ jobs \in [Workers -> Job]
  BY DbType DEF Inv, TypeOK, Tasked
<1>2. ASSUME NEW p \in processing PROVE Older(p.files, p.id, db'.uuids)
  <2>1. p.files \in SUBSET File /\ Older(p.files, p.id, db.uuids)
    BY <1>1 DEF Task, Handed
  <2> QED  BY <1>1, <2>1, OlderOn
<1>3. ASSUME NEW w \in Workers, ~Idle(w) PROVE jobs[w].to <= db'.uuids
  <2>1. jobs[w].to \in Nat /\ jobs[w].to <= db.uuids
    BY <1>1, <1>3 DEF Job, Begun
  <2> QED  BY <1>1, <2>1
<1> QED  BY <1>2, <1>3 DEF Handed, Begun, Idle

\* What calls add does not change when they are repeated, given up, answered or executed.
LEMMA RequestedOn ==
  ASSUME Inv, Requested, UNCHANGED <<scenario, jobs>>,
         \A c \in Users \cup Workers :
           calls'[c] # NoCall => calls[c] # NoCall /\ calls'[c].add = calls[c].add
  PROVE  Requested'
BY DEF Requested, Output, Users

\* A worker gets a task that is older than its name.
LEMMA ReceiveMade ==
  ASSUME Inv, Handed, Begun, NEW w \in Workers, NEW task \in Task, Sorted(task.files),
         Older(task.files, task.id, db.uuids), task.id \in 1 .. db.uuids,
         NEW d \in Db, d.uuids = db.uuids, Dated(d), QueuesSorted(d), Named(d), Receive(w, task, d),
         processing' \subseteq processing \cup {task}
  PROVE  Dated(db') /\ Handed' /\ Begun'
<1>1. db.uuids \in Nat /\ processing \subseteq Task /\ jobs \in [Workers -> Job]
  BY DbType DEF Inv, TypeOK, Tasked
<1>2. /\ db' \in Db /\ db'.idle = d.idle /\ db.uuids <= db'.uuids
      /\ \E j \in Job : /\ jobs' = [jobs EXCEPT ![w] = j]
                        /\ j.id = task.id /\ j.files = task.files
  BY ReceiveTypes
<1>3. db'.uuids \in Nat
  BY <1>2, DbType
<1>4. task.files \in SUBSET File /\ task.id \in Nat
  BY DEF Task
<1>5. Dated(db')
  <2>1. ASSUME NEW q \in Queues, NEW i \in DOMAIN d.idle[q]
        PROVE  Older(d.idle[q][i].files, d.idle[q][i].id, db'.uuids)
    <3>1. d.idle[q][i].files \in SUBSET File /\ Older(d.idle[q][i].files, d.idle[q][i].id, db.uuids)
      BY TaskFiles DEF Dated
    <3> QED  BY <1>1, <1>2, <1>3, <3>1, OlderOn
  <2> QED  BY <1>2, <2>1 DEF Dated
<1>6. Handed'
  <2>1. ASSUME NEW p \in processing' PROVE Older(p.files, p.id, db'.uuids)
    <3>1. p.files \in SUBSET File /\ Older(p.files, p.id, db.uuids)
      BY <1>1, <1>4 DEF Task, Handed
    <3> QED  BY <1>1, <1>2, <1>3, <3>1, OlderOn
  <2> QED  BY <2>1 DEF Handed
<1>7. ASSUME NEW f \in task.files
      PROVE  /\ Kind(task) = "merge" => f.uid < db.uuids + 1
             /\ Kind(task) # "merge" => f.uid < task.id
  <2>1. f.uid \in Int /\ f.uid <= db.uuids /\ (Route(f) = "move" => f.uid < task.id)
    BY <1>4, FileType DEF Older
  <2>2. PICK g \in task.files : g = CHOOSE h \in task.files : TRUE
    OBVIOUS
  <2>3. Route(f) = Route(g) /\ Route(f) \in {"merge", "move"}
    BY <1>4, SortedAlike
  <2>4. Kind(task) = Route(f)
    BY <2>2, <2>3 DEF Kind
  <2> QED  BY <1>1, <2>1, <2>3, <2>4
<1>8. /\ jobs'[w].to = IF Kind(task) = "merge" THEN db.uuids + 1 ELSE task.id
      /\ jobs'[w].files = task.files
      /\ db'.uuids = IF Kind(task) = "merge" THEN db.uuids + 1 ELSE db.uuids
      /\ \A v \in Workers \ {w} : jobs'[v] = jobs[v]
  BY <1>1 DEF Receive, Db
<1>9. ASSUME NEW v \in Workers, jobs'[v] # NoJob
      PROVE  jobs'[v].to <= db'.uuids /\ \A f \in jobs'[v].files : f.uid < jobs'[v].to
  <2>1. CASE v = w
    <3>1. jobs'[w].to <= db'.uuids
      BY <1>1, <1>8
    <3> QED  BY <1>7, <1>8, <2>1, <3>1
  <2>2. CASE v # w
    <3>1. jobs'[v] = jobs[v] /\ jobs[v].to \in Nat
      BY <1>1, <1>8, <2>2 DEF Job
    <3>2. jobs[v].to <= db.uuids /\ \A f \in jobs[v].files : f.uid < jobs[v].to
      BY <1>9, <3>1 DEF Begun, Idle
    <3> QED  BY <1>1, <1>2, <1>3, <3>1, <3>2
  <2> QED  BY <2>1, <2>2
<1> QED  BY <1>5, <1>6, <1>9 DEF Begun, Idle

\* A worker that gets a task makes no call.
LEMMA RequestedGet ==
  ASSUME Inv, Requested, NEW w \in Workers, Idle(w), NEW j, jobs' = [jobs EXCEPT ![w] = j],
         UNCHANGED <<scenario, calls>>
  PROVE  Requested'
<1>1. calls[w] = NoCall /\ jobs \in [Workers -> Job]
  BY DEF Inv, TypeOK, Tasked
<1>2. \A v \in Workers \ {w} : jobs'[v] = jobs[v]
  BY <1>1
<1> QED  BY <1>1, <1>2 DEF Requested, Output, Users

\* A worker takes a task from a queue.
LEMMA GetTaskMade ==
  ASSUME Inv, Made, NEW w \in Workers, NEW q \in Queues, GetTask(w, q)
  PROVE  Made'
<1>1. db \in Db /\ QueuesSorted(db) /\ Named(db) /\ jobs \in [Workers -> Job]
  BY DEF Inv, TypeOK, Tasked
<1>2. PICK d : d = [db EXCEPT !.idle[q] = Tail(@)]
  OBVIOUS
<1>3. Beheaded(db, d, q)
  BY <1>1, <1>2, TailIs DEF GetTask
<1>4. PICK task \in Task : task = Head(db.idle[q])
  BY <1>3 DEF Beheaded
<1>5. QueuesSorted(d) /\ Named(d) /\ Sorted(task.files)
  BY <1>1, <1>3, <1>4, BeheadedTasks
<1>6. d \in Db /\ d.uuids = db.uuids
  BY <1>3 DEF Beheaded
<1>7. Receive(w, task, d) /\ processing' = processing \cup {task}
  BY <1>2, <1>4 DEF GetTask
<1>8. task.id \in 1 .. db.uuids /\ Older(task.files, task.id, db.uuids)
  BY <1>1, <1>3, <1>4 DEF Beheaded, Named, Made, Dated
<1>9. Dated(d)
  <2>1. ASSUME NEW p \in Queues, NEW i \in DOMAIN d.idle[p]
        PROVE  \E k \in DOMAIN db.idle[p] : d.idle[p][i] = db.idle[p][k]
    BY <1>3 DEF Beheaded
  <2>2. ASSUME NEW p \in Queues, NEW i \in DOMAIN d.idle[p]
        PROVE  Older(d.idle[p][i].files, d.idle[p][i].id, db.uuids)
    BY <2>1 DEF Made, Dated
  <2> QED  BY <1>6, <2>2 DEF Dated
<1>10. Dated(db') /\ Handed' /\ Begun'
  BY <1>5, <1>6, <1>7, <1>8, <1>9, ReceiveMade DEF Made
<1>11. Requested'
  BY <1>7, RequestedGet DEF GetTask, Receive, Made
<1> QED  BY <1>10, <1>11 DEF Made, Dated

\* Tasks that are thrown away leave the others as they are.
LEMMA GetUntimedMade ==
  ASSUME Inv, Made, NEW w \in Workers, NEW q \in Queues, GetUntimed(w, q)
  PROVE  Made'
<1>1. db \in Db
  BY DEF Inv, TypeOK
<1>2. PICK r : r = db'
  OBVIOUS
<1>3. Beheaded(db, r, q)
  BY <1>1, <1>2, TailIs DEF GetUntimed
<1>4. r.uuids = db.uuids /\ db.uuids \in Nat
  BY <1>1, <1>3, DbType DEF Beheaded
<1>5. Dated(r)
  <2>1. ASSUME NEW p \in Queues, NEW i \in DOMAIN r.idle[p]
        PROVE  \E k \in DOMAIN db.idle[p] : r.idle[p][i] = db.idle[p][k]
    BY <1>3 DEF Beheaded
  <2>2. ASSUME NEW p \in Queues, NEW i \in DOMAIN r.idle[p]
        PROVE  Older(r.idle[p][i].files, r.idle[p][i].id, db.uuids)
    BY <2>1 DEF Made, Dated
  <2> QED  BY <1>4, <2>2 DEF Dated
<1>6. UNCHANGED <<scenario, processing, calls, jobs>>
  BY DEF GetUntimed
<1>7. Handed' /\ Begun'
  BY <1>2, <1>4, <1>6, MadeOn DEF Made
<1>8. Requested'
  BY <1>6, RequestedOn DEF Made
<1> QED  BY <1>2, <1>5, <1>7, <1>8 DEF Made, Dated

\* Or again.
LEMMA GetStaleMade ==
  ASSUME Inv, Scheduled, Made, NEW w \in Workers, GetStale(w)
  PROVE  Made'
<1>1. db \in Db /\ QueuesSorted(db) /\ Named(db)
  BY DEF Inv, TypeOK, Tasked
<1>2. PICK task \in processing : Receive(w, task, db)
  BY DEF GetStale
<1>3. task \in Task /\ Sorted(task.files)
  BY DEF Inv, TypeOK, Tasked
<1>4. task.id \in 1 .. db.uuids /\ Older(task.files, task.id, db.uuids)
  BY DEF Scheduled, Agree, Made, Handed
<1>5. processing' \subseteq processing \cup {task}
  BY DEF GetStale
<1>6. Dated(db') /\ Handed' /\ Begun'
  BY <1>1, <1>2, <1>3, <1>4, <1>5, ReceiveMade DEF Made
<1>7. Requested'
  BY <1>2, RequestedGet DEF GetStale, Receive, Made
<1> QED  BY <1>6, <1>7 DEF Made, Dated

\* The files a call adds have names that were made before.
LEMMA AddsOlder ==
  ASSUME Inv, Made, NEW c \in Users \cup Workers, calls[c] # NoCall
  PROVE  \A i \in DOMAIN calls[c].add : calls[c].add[i].uid <= db.uuids
<1>1. db.uuids \in Nat
  BY DbType DEF Inv, TypeOK
<1>2. CASE c \in Users
  <2>1. \A i \in DOMAIN calls[c].add : calls[c].add[i].uid <= 0
    BY <1>2, RedisIndexAssumption DEF Made, Requested, Inv, TypeOK, Users
  <2>2. ASSUME NEW i \in DOMAIN calls[c].add PROVE calls[c].add[i].uid \in Int
    <3>1. PICK s \in Seq(File) : s = calls[c].add
      BY CallType
    <3> QED  BY <3>1, FileType
  <2> QED  BY <1>1, <2>1, <2>2
<1>3. CASE c \in Workers
  <2>1. calls[c].add = <<Output(c)>> /\ ~Idle(c)
    BY <1>3 DEF Made, Requested, Inv, TypeOK
  <2>2. Output(c).uid <= db.uuids
    BY <1>3, <2>1 DEF Made, Begun, Output
  <2> QED  BY <2>1, <2>2
<1> QED  BY <1>2, <1>3

\* The script runs.
LEMMA ExecuteMade ==
  ASSUME Inv, Made, NEW c \in Users \cup Workers, Execute(c)
  PROVE  Made'
<1>1. PICK e : Ran(c, e)
  BY ExecuteRan
<1>2. PICK x \in Call : x = calls[c]
  BY DEF Inv, TypeOK
<1>3. PICK r : r = db'
  OBVIOUS
<1>4. r = Script(db, x) /\ calls[c] # NoCall
  BY <1>2, <1>3 DEF Execute, NoCall
<1>5. db \in Db /\ x.add \in Seq(File) /\ x.rm \in Seq(File) /\ QueuesSorted(db) /\ Named(db)
  BY DEF Inv, TypeOK, Call, Tasked
<1>6. r \in Db /\ Grown(db, r)
  BY <1>4, <1>5, ScriptTasks, ScriptDoes
<1>7. Dated(r)
  BY <1>2, <1>4, <1>5, AddsOlder, ScriptRows DEF Made
<1>8. r.uuids \in Nat /\ db.uuids <= r.uuids
  BY <1>6, DbType DEF Grown
<1>9. Handed' /\ Begun'
  BY <1>3, <1>8, MadeOn DEF Execute, Made
<1>10. ASSUME NEW u \in Users \cup Workers, calls'[u] # NoCall
       PROVE  calls[u] # NoCall /\ calls'[u].add = calls[u].add
  BY <1>1, <1>4, <1>10 DEF Ran
<1>11. Requested'
  BY <1>10, RequestedOn DEF Execute, Made
<1> QED  BY <1>3, <1>7, <1>9, <1>11 DEF Made, Dated

\* The steps of calls, and of workers that leave.
LEMMA MoveMade ==
  ASSUME Inv, Made, NEW c \in Users \cup Workers,
         Send(c) \/ Repeat(c) \/ GiveUp(c) \/ Answer(c)
  PROVE  Made'
<1>1. calls \in [Users \cup Workers -> Call] /\ Users \cap Workers = {}
  BY UsersApart DEF Inv, TypeOK
<1>2. UNCHANGED <<scenario, db, processing, jobs>>
  BY DEF Send, Repeat, GiveUp, Answer
<1>3. Dated(db') /\ Handed' /\ Begun'
  BY <1>2 DEF Made, Dated, Handed, Begun, Idle
<1>4. CASE Send(c)
  <2>1. calls'[c].add = scenario.calls[c].add /\ c \in Users
    BY <1>1, <1>4 DEF Send
  <2>2. \A u \in (Users \cup Workers) \ {c} : calls'[u] = calls[u]
    BY <1>1, <1>4 DEF Send
  <2> QED  BY <1>1, <1>2, <1>3, <2>1, <2>2 DEF Made, Requested, Dated, Output, Users
<1>5. CASE Repeat(c) \/ GiveUp(c) \/ Answer(c)
  <2>1. PICK where \in {"sent", "failed", "done"} : Move(c, where)
    BY <1>5 DEF Repeat, GiveUp, Answer
  <2>2. calls'[c].add = calls[c].add /\ \A u \in (Users \cup Workers) \ {c} : calls'[u] = calls[u]
    BY <1>1, <2>1 DEF Move, Call
  <2>3. calls[c] # NoCall
    BY <1>5 DEF Repeat, GiveUp, Answer, NoCall
  <2>4. Requested'
    BY <1>2, <2>2, <2>3, RequestedOn DEF Made
  <2> QED  BY <1>3, <2>4 DEF Made, Dated
<1> QED  BY <1>4, <1>5

\* A worker calls Batch.
LEMMA WorkMade ==
  ASSUME Inv, Made, NEW w \in Workers, Work(w)
  PROVE  Made'
<1>1. UNCHANGED <<scenario, db, processing, jobs>>
  BY DEF Work
<1>2. calls'[w].add = <<Output(w)>> /\ \A u \in (Users \cup Workers) \ {w} : calls'[u] = calls[u]
  BY DEF Work, Inv, TypeOK
<1>3. Users \cap Workers = {}
  BY UsersApart
<1> QED  BY <1>1, <1>2, <1>3 DEF Made, Requested, Dated, Handed, Begun, Idle, Output, Users

\* A worker leaves its task.
LEMMA LeaveMade ==
  ASSUME Inv, Made, NEW w \in Workers, Abandon(w) \/ EndTask(w)
  PROVE  Made'
<1>1. /\ jobs' = [jobs EXCEPT ![w] = NoJob] /\ calls' = [calls EXCEPT ![w] = NoCall]
      /\ UNCHANGED <<scenario, db>> /\ processing' \subseteq processing
  BY DEF Abandon, EndTask
<1>2. /\ jobs'[w] = NoJob /\ calls'[w] = NoCall
      /\ \A v \in Workers \ {w} : jobs'[v] = jobs[v]
      /\ \A u \in (Users \cup Workers) \ {w} : calls'[u] = calls[u]
  BY <1>1 DEF Inv, TypeOK, Tasked
<1>3. Dated(db') /\ Handed' /\ Begun'
  BY <1>1, <1>2 DEF Made, Dated, Handed, Begun, Idle
<1>4. Requested'
  BY <1>1, <1>2 DEF Made, Requested, Output, Users
<1> QED  BY <1>3, <1>4 DEF Made, Dated

\* Every step keeps the names in order.
LEMMA NextMade ==
  ASSUME Inv, Scheduled, Made, [Next]_vars
  PROVE  Made'
<1>1. ASSUME NEW c \in Users \cup Workers, Send(c) \/ Repeat(c) \/ GiveUp(c) \/ Answer(c)
      PROVE  Made'
  BY <1>1, MoveMade
<1>2. ASSUME NEW c \in Users \cup Workers, Execute(c) PROVE Made'
  BY <1>2, ExecuteMade
<1>3. ASSUME NEW w \in Workers, NEW q \in Queues, GetTask(w, q) PROVE Made'
  BY <1>3, GetTaskMade
<1>4. ASSUME NEW w \in Workers, GetStale(w) PROVE Made'
  BY <1>4, GetStaleMade
<1>5. ASSUME NEW w \in Workers, Work(w) PROVE Made'
  BY <1>5, WorkMade
<1>6. ASSUME NEW w \in Workers, Abandon(w) \/ EndTask(w) PROVE Made'
  BY <1>6, LeaveMade
<1>7. CASE UNCHANGED <<scenario, db, processing, calls, jobs>>
  BY <1>7 DEF Made, Dated, Handed, Begun, Requested, Idle, Output, Users
<1>8. ASSUME NEW f \in db.drops, Drop(f) PROVE Made'
  BY <1>7, <1>8 DEF Drop
<1>9. CASE UNCHANGED vars
  BY <1>7, <1>9 DEF vars
<1>10. ASSUME NEW w \in Workers, NEW q \in Queues, GetUntimed(w, q) PROVE Made'
  BY <1>10, GetUntimedMade
<1> QED  BY <1>1, <1>2, <1>3, <1>4, <1>5, <1>6, <1>8, <1>9, <1>10 DEF Next

-----------------------------------------------------------------------------
(* Rows are kept.                                                          *)

\* A row is in the index, or a user removed it; those of executed calls are.
Shows(r) == Removed(r) \/ r \in RowsOf(db.files)
Kept ==
  /\ RowsKept
  /\ \A u \in Users : calls[u].at = "executed" => \A r \in RowsOf(ToSet(calls[u].add)) : Shows(r)

\* The result of a worker has the rows of the files of its task, and is none of them.
LEMMA OutputRows ==
  ASSUME Inv, Made, NEW w \in Workers, ~Idle(w)
  PROVE  /\ Output(w) \in File /\ Output(w).rows = RowsOf(jobs[w].files)
         /\ Output(w) \notin jobs[w].files
<1>1. jobs[w] \in Job /\ Sorted(jobs[w].files)
  BY DEF Inv, Tasked
<1>2. Output(w) \in File
  BY <1>1, OutputIsFile
<1>3. PICK n \in Nat : n = jobs[w].to
  BY <1>1 DEF Job
<1>4. Output(w).uid = n /\ Output(w).rows = RowsOf(jobs[w].files)
  BY <1>3 DEF Output, RowsOf
<1>5. \A f \in jobs[w].files : f.uid < n
  BY <1>3 DEF Made, Begun
<1> QED  BY <1>2, <1>3, <1>4, <1>5

\* A worker's call adds its result and removes the files of its task.
LEMMA WorkerCall ==
  ASSUME Inv, Scheduled, Made, NEW w \in Workers, calls[w].at = "sent", NEW e, Ran(w, e)
  PROVE  ~Idle(w) /\ e.add = {Output(w)} /\ e.rm = jobs[w].files
<1>1. calls[w] # NoCall
  BY DEF NoCall
<1>2. calls[w].add = <<Output(w)>> /\ ToSet(calls[w].rm) = jobs[w].files
  BY <1>1 DEF Made, Requested, Scheduled, Assigned
<1>3. ToSet(<<Output(w)>>) = {Output(w)}
  BY DEF ToSet
<1> QED  BY <1>1, <1>2, <1>3 DEF Ran, Inv, TypeOK

\* What the log of a run of the script is.
LEMMA RanLog ==
  ASSUME Inv, NEW c \in Users \cup Workers, NEW e, Ran(c, e)
  PROVE  \E n \in DOMAIN log' : /\ log'[n] = e
                                /\ \A i \in DOMAIN log : i \in DOMAIN log' /\ log'[i] = log[i]
                                /\ \A i \in DOMAIN log' : i = n \/ (i \in DOMAIN log /\ log'[i] = log[i])
<1>1. log \in Seq(Entry) /\ e \in Entry /\ log' = Append(log, e)
  BY DEF Ran, Inv
<1>2. PICK n \in Nat : n = Len(log)
  BY <1>1
<1>3. /\ DOMAIN log' = DOMAIN log \cup {n + 1} /\ log'[n + 1] = e
      /\ \A j \in DOMAIN log : log'[j] = log[j]
  BY <1>1, <1>2, Appended
<1> QED  BY <1>3

\* The rows a user's call adds or removes, when it is executed.
LEMMA UserShows ==
  ASSUME Inv, [Next]_vars, NEW u \in Users, NEW e, Ran(u, e), e.ok,
         NEW r \in RowsOf(e.add) \cup RowsOf(e.rm)
  PROVE  Shows(r)'
<1>1. db'.files = (db.files \cup e.add) \ e.rm
  BY DEF Ran, Change
<1>2. CASE r \in RowsOf(e.add \ e.rm)
  <2>1. r \in RowsOf(db'.files)
    BY <1>1, <1>2 DEF RowsOf
  <2> QED  BY <2>1 DEF Shows
<1>3. CASE r \in RowsOf(e.rm) \ RowsOf(e.add \ e.rm)
  <2>1. PICK n \in DOMAIN log' : log'[n] = e
    BY RanLog
  <2>2. e.by \in Users' /\ e.ok
    BY SameUsers DEF Ran
  <2>3. Removed(r)'
    BY <1>3, <2>1, <2>2 DEF Removed, RowsOf
  <2> QED  BY <2>3 DEF Shows
<1>4. r \in RowsOf(e.add) => r \in RowsOf(e.rm) \/ r \in RowsOf(e.add \ e.rm)
  BY DEF RowsOf
<1> QED  BY <1>2, <1>3, <1>4

\* A row that is shown is shown after every step.
LEMMA StillShows ==
  ASSUME Inv, Scheduled, Made, [Next]_vars, NEW r, Shows(r)
  PROVE  Shows(r)'
<1>1. CASE Quiet
  BY <1>1, SameUsers DEF Quiet, SameFiles, Shows, Removed, RowsOf
<1>2. ASSUME NEW c \in Users \cup Workers, Execute(c) PROVE Shows(r)'
  <2>1. PICK e : Ran(c, e)
    BY <1>2, ExecuteRan
  <2>2. CASE Removed(r)
    <3>1. PICK i \in DOMAIN log : /\ log[i].by \in Users /\ log[i].ok
                                  /\ r \in RowsOf(log[i].rm) \ RowsOf(log[i].add \ log[i].rm)
      BY <2>2 DEF Removed
    <3>2. i \in DOMAIN log' /\ log'[i] = log[i]
      BY <2>1, RanLog
    <3>3. Removed(r)'
      BY <3>1, <3>2, SameUsers DEF Removed, RowsOf
    <3> QED  BY <3>3 DEF Shows
  <2>3. ASSUME NEW f \in db.files, r \in f.rows PROVE Shows(r)'
    <3>1. CASE f \in db'.files
      BY <2>3, <3>1 DEF Shows, RowsOf
    <3>2. CASE f \notin db'.files
      <4>1. f \in e.rm /\ e.ok
        BY <2>1, <3>2 DEF Ran, Change
      <4>2. r \in RowsOf(e.rm)
        BY <2>3, <4>1 DEF RowsOf
      <4>3. CASE c \in Users
        BY <2>1, <4>1, <4>2, <4>3, UserShows
      <4>4. CASE c \in Workers
        <5>1. ~Idle(c) /\ e.add = {Output(c)} /\ e.rm = jobs[c].files
          BY <1>2, <2>1, <4>4, WorkerCall DEF Execute
        <5>2. Output(c) \in db'.files /\ r \in Output(c).rows
          BY <2>1, <4>1, <4>2, <4>4, <5>1, OutputRows DEF Ran, Change
        <5> QED  BY <5>2 DEF Shows, RowsOf
      <4> QED  BY <4>3, <4>4
    <3> QED  BY <3>1, <3>2
  <2> QED  BY <2>2, <2>3 DEF Shows, RowsOf
<1> QED  BY <1>1, <1>2, Steps

\* Every step keeps the rows.
LEMMA NextKept ==
  ASSUME Inv, Scheduled, Made, Kept, [Next]_vars
  PROVE  Kept'
<1>1. ASSUME NEW a \in acked', NEW r \in RowsOf(a.add) PROVE Shows(r)'
  <2>1. Shows(r)
    BY AckedFrom DEF Kept, RowsKept, Shows
  <2> QED  BY <2>1, StillShows
<1>2. RowsKept'
  BY <1>1 DEF RowsKept, Shows, RowsOf
<1>3. ASSUME NEW u \in Users, calls'[u].at = "executed", NEW r \in RowsOf(ToSet(calls'[u].add))
      PROVE  Shows(r)'
  <2>1. CASE calls'[u] = calls[u]
    BY <1>3, <2>1, StillShows DEF Kept
  <2>2. ASSUME NEW c \in Users \cup Workers, Execute(c), calls'[u] # calls[u] PROVE Shows(r)'
    <3>1. PICK e : Ran(c, e)
      BY <2>2, ExecuteRan
    <3>2. c = u /\ e.ok /\ e.add = ToSet(calls'[u].add)
      BY <1>3, <2>2, <3>1 DEF Ran
    <3> QED  BY <1>3, <3>1, <3>2, UserShows
  <2> QED  BY <1>3, <2>1, <2>2, Steps DEF Quiet
<1> QED  BY <1>2, <1>3, SameUsers DEF Kept, RowsOf, ToSet

-----------------------------------------------------------------------------
(* Rows are in one place.                                                  *)

Excused == \/ spent["repeat"] > 0 \/ spent["redeliver"] > 0
           \/ \E i \in DOMAIN log : ~log[i].ok

\* A worker still has its task, and a user has not added its files.
Busy(w) == ~Idle(w) /\ calls[w].at \in {"none", "sent"}
Awaited(u) == calls[u].at \in {"none", "sent"}

\* The rows of a task are in no other task,
WithWorkers ==
  \A w \in Workers : Busy(w) => \A f \in jobs[w].files :
    /\ Unqueued(db, f)
    /\ \A v \in Workers : Busy(v) => \A g \in jobs[v].files : Share(f, g) => v = w
\* those of an indexed file are in no other file and no task that has not this one,
Indexed ==
  \A g \in db.files :
    /\ \A h \in db.files : Share(g, h) => g = h
    /\ \A q \in Queues : \A i \in DOMAIN db.idle[q] : \A f \in db.idle[q][i].files :
         Share(g, f) => g \in db.idle[q][i].files
    /\ \A w \in Workers : Busy(w) => \A f \in jobs[w].files : Share(g, f) => g \in jobs[w].files
\* and those of a user that has not added them are nowhere.
Fresh ==
  \A u \in Users : Awaited(u) => \A f \in ToSet(scenario.calls[u].add) : f.iteration # 0 =>
    /\ \A g \in db.files : ~Share(f, g)
    /\ Unqueued(db, f)
    /\ \A w \in Workers : Busy(w) => \A g \in jobs[w].files : ~Share(f, g)
Spread == Scattered(db) /\ WithWorkers /\ Indexed /\ Fresh
Once == Excused \/ Spread

\* The files of tasks are files.
LEMMA JobFiles ==
  ASSUME Inv
  PROVE  /\ \A w \in Workers : jobs[w].files \in SUBSET File
         /\ \A u \in Users : ToSet(scenario.calls[u].add) \in SUBSET File
         /\ db.files \in SUBSET File
<1>1. ASSUME NEW w \in Workers PROVE jobs[w].files \in SUBSET File
  <2>1. jobs[w] \in Job
    BY DEF Inv, Tasked
  <2> QED  BY <2>1 DEF Job
<1>2. ASSUME NEW u \in Users PROVE ToSet(scenario.calls[u].add) \in SUBSET File
  <2>1. PICK s \in Seq(File) : s = scenario.calls[u].add
    BY UsersApart
  <2> QED  BY <2>1 DEF ToSet
<1> QED  BY <1>1, <1>2, DbType DEF Inv, TypeOK

\* An excuse stays one.
LEMMA StillExcused ==
  ASSUME Inv, Excused, [Next]_vars
  PROVE  Excused'
<1>1. PICK S : S = DOMAIN scenario.faults /\ spent \in [S -> Nat]
  BY DEF Inv, TypeOK
<1>2. S = {"repeat", "fail", "redeliver"}
  BY <1>1, RedisIndexAssumption DEF Inv, TypeOK
<1>3. \A what : Spend(what) => \A k \in S : spent'[k] \in Nat /\ spent'[k] >= spent[k]
  BY <1>1 DEF Spend
<1>4. \A k \in S : spent[k] \in Nat /\ spent'[k] \in Nat /\ spent'[k] >= spent[k]
  <2>1. UNCHANGED spent => \A k \in S : spent'[k] \in Nat /\ spent'[k] >= spent[k]
    BY <1>1
  <2>2. UNCHANGED spent \/ Spend("repeat") \/ Spend("fail") \/ Spend("redeliver")
    BY DEF Next, vars, Send, Execute, Repeat, GiveUp, Answer, GetTask, GetUntimed, GetStale,
           Work, Abandon, EndTask, Drop
  <2> QED  BY <1>1, <1>3, <2>1, <2>2
<1>5. CASE spent["repeat"] > 0 \/ spent["redeliver"] > 0
  <2>1. /\ spent["repeat"] \in Nat /\ spent'["repeat"] \in Nat /\ spent'["repeat"] >= spent["repeat"]
        /\ spent["redeliver"] \in Nat /\ spent'["redeliver"] \in Nat
        /\ spent'["redeliver"] >= spent["redeliver"]
    BY <1>2, <1>4
  <2> QED  BY <1>5, <2>1 DEF Excused
<1>6. ASSUME NEW i \in DOMAIN log, ~log[i].ok PROVE Excused'
  <2>1. CASE Quiet
    BY <1>6, <2>1 DEF Quiet, Excused
  <2>2. ASSUME NEW c \in Users \cup Workers, Execute(c) PROVE Excused'
    <3>1. PICK e : Ran(c, e)
      BY <2>2, ExecuteRan
    <3>2. i \in DOMAIN log' /\ log'[i] = log[i]
      BY <3>1, RanLog
    <3> QED  BY <1>6, <3>2 DEF Excused
  <2> QED  BY <2>1, <2>2, Steps
<1> QED  BY <1>5, <1>6 DEF Excused

\* Steps after which tasks and calls are what they were, or done.
LEMMA SameOnce ==
  ASSUME Inv, Spread, [Next]_vars, db'.files = db.files, db'.idle = db.idle,
         \A w \in Workers : Busy(w)' => Busy(w) /\ jobs'[w] = jobs[w],
         \A u \in Users : Awaited(u)' => Awaited(u)
  PROVE  Spread'
<1>1. scenario' = scenario /\ Users' = Users
  BY SameUsers
<1>2. Scattered(db')
  BY DEF Spread, Scattered
<1>3. WithWorkers'
  BY DEF Spread, WithWorkers, Unqueued
<1>4. Indexed'
  BY DEF Spread, Indexed
<1>5. Fresh'
  BY <1>1 DEF Spread, Fresh, Unqueued
<1> QED  BY <1>2, <1>3, <1>4, <1>5 DEF Spread, Scattered

\* A worker takes a task from a queue, and its rows with it.
LEMMA GetTaskOnce ==
  ASSUME Inv, Spread, NEW w \in Workers, NEW q \in Queues, GetTask(w, q)
  PROVE  Spread'
<1>1. db \in Db /\ QueuesSorted(db) /\ Named(db) /\ jobs \in [Workers -> Job]
  BY DEF Inv, TypeOK, Tasked
<1>2. PICK d : d = [db EXCEPT !.idle[q] = Tail(@)]
  OBVIOUS
<1>3. Beheaded(db, d, q)
  BY <1>1, <1>2, TailIs DEF GetTask
<1>4. PICK task \in Task : task = Head(db.idle[q])
  BY <1>3 DEF Beheaded
<1>5. QueuesSorted(d) /\ Named(d) /\ Sorted(task.files)
  BY <1>1, <1>3, <1>4, BeheadedTasks
<1>6. d \in Db /\ SameFiles(db, d)
  BY <1>3 DEF Beheaded
<1>7. Receive(w, task, d)
  BY <1>2, <1>4 DEF GetTask
<1>8. PICK r : r = db'
  OBVIOUS
<1>9. /\ r \in Db /\ r.files = db.files /\ r.idle = d.idle
      /\ \E j \in Job : jobs' = [jobs EXCEPT ![w] = j] /\ j.files = task.files
  BY <1>5, <1>6, <1>7, <1>8, ReceiveTypes DEF SameFiles
<1>10. /\ jobs'[w].files = task.files
       /\ \A v \in Workers \ {w} : jobs'[v] = jobs[v]
  BY <1>1, <1>9
<1>11. task = db.idle[q][1] /\ 1 \in DOMAIN db.idle[q] /\ task.files \in SUBSET File
  BY <1>3, <1>4 DEF Beheaded, Task
<1>12. ASSUME NEW p \in Queues, NEW i \in DOMAIN r.idle[p]
       PROVE  \E k \in DOMAIN db.idle[p] : /\ r.idle[p][i] = db.idle[p][k]
                                           /\ k = IF p = q THEN i + 1 ELSE i
                                           /\ p = q => i \in Nat /\ k # 1
  <2>1. CASE p = q
    <3>1. i \in Nat /\ i + 1 \in DOMAIN db.idle[q] /\ r.idle[q][i] = db.idle[q][i + 1]
      BY <1>3, <1>9, <2>1 DEF Beheaded
    <3>2. i # 0
      <4>1. r.idle[q] \in Seq(Task)
        BY <1>9, DbType
      <4> QED  BY <2>1, <4>1
    <3>3. i + 1 # 1
      BY <3>1, <3>2
    <3> QED  BY <2>1, <3>1, <3>3
  <2>2. CASE p # q
    BY <1>3, <1>9, <2>2 DEF Beheaded
  <2> QED  BY <2>1, <2>2
<1>13. UNCHANGED <<scenario, calls>> /\ Users' = Users /\ Idle(w)
  BY DEF GetTask, Users
<1>14. ASSUME NEW v \in Workers, Busy(v)' PROVE v = w \/ (v # w /\ Busy(v) /\ jobs'[v] = jobs[v])
  BY <1>10, <1>13, <1>14 DEF Busy, Idle
<1>15. ASSUME NEW f, Unqueued(db, f) PROVE Unqueued(r, f) /\ \A g \in task.files : ~Share(f, g)
  <2>1. Unqueued(r, f)
    BY <1>12, <1>15 DEF Unqueued
  <2>2. \A g \in task.files : ~Share(f, g)
    BY <1>11, <1>15 DEF Unqueued
  <2> QED  BY <2>1, <2>2
<1>16. Scattered(r)
  <2>1. ASSUME NEW p \in Queues, NEW o \in Queues,
               NEW i \in DOMAIN r.idle[p], NEW j \in DOMAIN r.idle[o],
               NEW f \in r.idle[p][i].files, NEW g \in r.idle[o][j].files, Share(f, g)
        PROVE  p = o /\ i = j
    <3>1. PICK k \in DOMAIN db.idle[p] : /\ r.idle[p][i] = db.idle[p][k]
                                         /\ k = IF p = q THEN i + 1 ELSE i
                                         /\ p = q => i \in Nat /\ k # 1
      BY <1>12
    <3>2. PICK l \in DOMAIN db.idle[o] : /\ r.idle[o][j] = db.idle[o][l]
                                         /\ l = IF o = q THEN j + 1 ELSE j
                                         /\ o = q => j \in Nat /\ l # 1
      BY <1>12
    <3>3. p = o /\ k = l
      BY <2>1, <3>1, <3>2 DEF Spread, Scattered
    <3> QED  BY <3>1, <3>2, <3>3
  <2> QED  BY <2>1 DEF Scattered
<1>17. ASSUME NEW f \in task.files PROVE Unqueued(r, f)
  <2>1. ASSUME NEW p \in Queues, NEW i \in DOMAIN r.idle[p], NEW g \in r.idle[p][i].files,
               Share(f, g)
        PROVE  FALSE
    <3>1. PICK k \in DOMAIN db.idle[p] : r.idle[p][i] = db.idle[p][k] /\ (p = q => k # 1)
      BY <1>12
    <3>2. p = q /\ k = 1
      BY <1>11, <2>1, <3>1 DEF Spread, Scattered
    <3> QED  BY <3>1, <3>2
  <2> QED  BY <2>1 DEF Unqueued
<1>18. WithWorkers'
  <2>1. ASSUME NEW v \in Workers, Busy(v)', NEW f \in jobs'[v].files
        PROVE  /\ Unqueued(r, f)
               /\ \A x \in Workers : Busy(x)' => \A g \in jobs'[x].files : Share(f, g) => x = v
    <3>1. CASE v = w
      <4>1. f \in task.files /\ f \in File
        BY <1>10, <1>11, <3>1
      <4>2. ASSUME NEW x \in Workers, x # w, Busy(x)', NEW g \in jobs'[x].files PROVE ~Share(f, g)
        <5>1. Busy(x) /\ g \in jobs[x].files
          BY <1>14, <4>2
        <5>2. Unqueued(db, g)
          BY <5>1 DEF Spread, WithWorkers
        <5>3. ~Share(g, f)
          BY <1>15, <4>1, <5>2
        <5> QED  BY <4>1, <5>3, Shares
      <4> QED  BY <1>17, <3>1, <4>1, <4>2
    <3>2. CASE v # w
      <4>1. Busy(v) /\ f \in jobs[v].files
        BY <1>14, <2>1, <3>2
      <4>2. Unqueued(db, f)
        BY <4>1 DEF Spread, WithWorkers
      <4>3. Unqueued(r, f) /\ \A g \in task.files : ~Share(f, g)
        BY <1>15, <4>2
      <4>4. ASSUME NEW x \in Workers, Busy(x)', NEW g \in jobs'[x].files, Share(f, g) PROVE x = v
        <5>1. x # w
          BY <1>10, <4>3, <4>4
        <5>2. Busy(x) /\ g \in jobs[x].files
          BY <1>14, <4>4, <5>1
        <5> QED  BY <4>1, <4>4, <5>2 DEF Spread, WithWorkers
      <4> QED  BY <4>3, <4>4
    <3> QED  BY <3>1, <3>2
  <2> QED  BY <1>8, <2>1 DEF WithWorkers, Unqueued
<1>19. Indexed'
  <2>1. ASSUME NEW g \in db.files, NEW p \in Queues, NEW i \in DOMAIN r.idle[p],
               NEW f \in r.idle[p][i].files, Share(g, f)
        PROVE  g \in r.idle[p][i].files
    BY <1>12, <2>1 DEF Spread, Indexed
  <2>2. ASSUME NEW g \in db.files, NEW v \in Workers, Busy(v)', NEW f \in jobs'[v].files, Share(g, f)
        PROVE  g \in jobs'[v].files
    <3>1. CASE v = w
      BY <1>10, <1>11, <2>2, <3>1 DEF Spread, Indexed
    <3>2. CASE v # w
      BY <1>14, <2>2, <3>2 DEF Spread, Indexed
    <3> QED  BY <3>1, <3>2
  <2>3. \A g, h \in db.files : Share(g, h) => g = h
    BY DEF Spread, Indexed
  <2> QED  BY <1>8, <1>9, <2>1, <2>2, <2>3 DEF Indexed
<1>20. Fresh'
  <2>1. ASSUME NEW u \in Users, Awaited(u), NEW f \in ToSet(scenario.calls[u].add), f.iteration # 0
        PROVE  /\ \A g \in db.files : ~Share(f, g)
               /\ Unqueued(r, f)
               /\ \A v \in Workers : Busy(v)' => \A g \in jobs'[v].files : ~Share(f, g)
    <3>1. /\ \A g \in db.files : ~Share(f, g)
          /\ Unqueued(db, f)
          /\ \A v \in Workers : Busy(v) => \A g \in jobs[v].files : ~Share(f, g)
      BY <2>1 DEF Spread, Fresh
    <3>2. Unqueued(r, f) /\ \A g \in task.files : ~Share(f, g)
      BY <1>15, <3>1
    <3>3. ASSUME NEW v \in Workers, Busy(v)', NEW g \in jobs'[v].files PROVE ~Share(f, g)
      <4>1. CASE v = w
        BY <1>10, <3>2, <3>3, <4>1
      <4>2. CASE v # w
        BY <1>14, <3>1, <3>3, <4>2
      <4> QED  BY <4>1, <4>2
    <3> QED  BY <3>1, <3>2, <3>3
  <2> QED  BY <1>8, <1>9, <1>13, <2>1 DEF Fresh, Awaited, Unqueued
<1> QED  BY <1>8, <1>16, <1>18, <1>19, <1>20 DEF Spread, Scattered

\* A task is thrown away, and its rows are in no task.
LEMMA GetUntimedOnce ==
  ASSUME Inv, Spread, NEW w \in Workers, NEW q \in Queues, GetUntimed(w, q)
  PROVE  Spread'
<1>1. db \in Db /\ QueuesSorted(db) /\ Named(db)
  BY DEF Inv, TypeOK, Tasked
<1>2. PICK r : r = db'
  OBVIOUS
<1>3. Beheaded(db, r, q)
  BY <1>1, <1>2, TailIs DEF GetUntimed
<1>4. r.files = db.files
  BY <1>3 DEF Beheaded, SameFiles
<1>5. UNCHANGED <<scenario, calls, jobs>> /\ Users' = Users
  BY DEF GetUntimed, Users
<1>6. ASSUME NEW p \in Queues, NEW i \in DOMAIN r.idle[p]
      PROVE  \E k \in DOMAIN db.idle[p] : /\ r.idle[p][i] = db.idle[p][k]
                                          /\ k = IF p = q THEN i + 1 ELSE i
                                          /\ p = q => i \in Nat
  BY <1>3 DEF Beheaded
<1>7. ASSUME NEW f, Unqueued(db, f) PROVE Unqueued(r, f)
  BY <1>6, <1>7 DEF Unqueued
<1>8. Scattered(r)
  <2>1. ASSUME NEW p \in Queues, NEW o \in Queues,
               NEW i \in DOMAIN r.idle[p], NEW j \in DOMAIN r.idle[o],
               NEW f \in r.idle[p][i].files, NEW g \in r.idle[o][j].files, Share(f, g)
        PROVE  p = o /\ i = j
    <3>1. PICK k \in DOMAIN db.idle[p] : /\ r.idle[p][i] = db.idle[p][k]
                                         /\ k = IF p = q THEN i + 1 ELSE i
                                         /\ p = q => i \in Nat
      BY <1>6
    <3>2. PICK l \in DOMAIN db.idle[o] : /\ r.idle[o][j] = db.idle[o][l]
                                         /\ l = IF o = q THEN j + 1 ELSE j
                                         /\ o = q => j \in Nat
      BY <1>6
    <3>3. p = o /\ k = l
      BY <2>1, <3>1, <3>2 DEF Spread, Scattered
    <3> QED  BY <3>1, <3>2, <3>3
  <2> QED  BY <2>1 DEF Scattered
<1>9. \A v \in Workers : (Busy(v)' <=> Busy(v)) /\ jobs'[v] = jobs[v]
  BY <1>5 DEF Busy, Idle
<1>10. WithWorkers'
  <2>1. ASSUME NEW v \in Workers, Busy(v), NEW f \in jobs[v].files
        PROVE  /\ Unqueued(r, f)
               /\ \A x \in Workers : Busy(x) => \A g \in jobs[x].files : Share(f, g) => x = v
    BY <1>7, <2>1 DEF Spread, WithWorkers
  <2> QED  BY <1>2, <1>9, <2>1 DEF WithWorkers, Unqueued
<1>11. Indexed'
  <2>1. ASSUME NEW g \in db.files, NEW p \in Queues, NEW i \in DOMAIN r.idle[p],
               NEW f \in r.idle[p][i].files, Share(g, f)
        PROVE  g \in r.idle[p][i].files
    BY <1>6, <2>1 DEF Spread, Indexed
  <2>2. /\ \A g, h \in db.files : Share(g, h) => g = h
        /\ \A g \in db.files : \A v \in Workers : Busy(v) =>
             \A f \in jobs[v].files : Share(g, f) => g \in jobs[v].files
    BY DEF Spread, Indexed
  <2> QED  BY <1>2, <1>4, <1>9, <2>1, <2>2 DEF Indexed
<1>12. Fresh'
  <2>1. ASSUME NEW u \in Users, Awaited(u), NEW f \in ToSet(scenario.calls[u].add), f.iteration # 0
        PROVE  /\ \A g \in db.files : ~Share(f, g)
               /\ Unqueued(r, f)
               /\ \A v \in Workers : Busy(v) => \A g \in jobs[v].files : ~Share(f, g)
    BY <1>7, <2>1 DEF Spread, Fresh
  <2> QED  BY <1>2, <1>4, <1>5, <1>9, <2>1 DEF Fresh, Awaited, Unqueued
<1> QED  BY <1>2, <1>8, <1>10, <1>11, <1>12 DEF Spread, Scattered

\* A call that adds files A and removes R brings rows that are in no file that stays, in no
\* task but its own, and not among those a user has yet to add.
Brings(c, A, R) ==
  /\ \A f, g \in A : Share(f, g) => f = g
  /\ \A f \in A, g \in db.files : Share(f, g) => g \in R
  /\ \A f \in A : Unqueued(db, f)
  /\ \A f \in A, w \in Workers \ {c} : Busy(w) => \A g \in jobs[w].files : ~Share(f, g)
  /\ \A f \in A, u \in Users \ {c} : Awaited(u) =>
       \A g \in ToSet(scenario.calls[u].add) : g.iteration # 0 => ~Share(f, g)

\* A user's call does.
LEMMA UserBrings ==
  ASSUME Inv, Made, Spread, NEW u \in Users, calls[u].at = "sent",
         \A i \in DOMAIN calls[u].add : calls[u].add[i].iteration # 0
  PROVE  /\ Separate(db, calls[u].add)
         /\ Brings(u, ToSet(calls[u].add), ToSet(calls[u].rm))
<1>1. PICK s \in Seq(File) : s = scenario.calls[u].add
  BY UsersApart
<1>2. calls[u].add = s
  BY <1>1 DEF Made, Requested, NoCall
<1>3. \A f \in ToSet(s) : \E i \in DOMAIN s : f = s[i]
  BY DEF ToSet
<1>4. \A i \in DOMAIN s : s[i] \in ToSet(s) /\ s[i].iteration # 0
  BY <1>2 DEF ToSet
<1>5. ASSUME NEW i \in DOMAIN s
      PROVE  /\ \A g \in db.files : ~Share(s[i], g)
             /\ Unqueued(db, s[i])
             /\ \A w \in Workers : Busy(w) => \A g \in jobs[w].files : ~Share(s[i], g)
  BY <1>1, <1>4 DEF Spread, Fresh, Awaited
<1>6. ASSUME NEW v \in Users, NEW i \in DOMAIN s, NEW j \in DOMAIN scenario.calls[v].add,
             scenario.calls[v].add[j].iteration # 0, Share(s[i], scenario.calls[v].add[j])
      PROVE  u = v /\ i = j
  <2>1. scenario \in Scenarios /\ u \in DOMAIN scenario.calls /\ v \in DOMAIN scenario.calls
    BY DEF Inv, TypeOK, Users
  <2> QED  BY <1>1, <1>4, <1>6, <2>1, RowsAssumption
<1>7. \A i, j \in DOMAIN s : Share(s[i], s[j]) => i = j
  BY <1>1, <1>4, <1>6
<1>8. Separate(db, s)
  BY <1>5, <1>7 DEF Separate
<1>9. ASSUME NEW f \in ToSet(s), NEW v \in Users \ {u}, NEW g \in ToSet(scenario.calls[v].add),
             g.iteration # 0
      PROVE  ~Share(f, g)
  <2>1. PICK j \in DOMAIN scenario.calls[v].add : g = scenario.calls[v].add[j]
    BY DEF ToSet
  <2> QED  BY <1>3, <1>6, <1>9, <2>1
<1>10. Brings(u, ToSet(s), ToSet(calls[u].rm))
  BY <1>3, <1>5, <1>7, <1>9 DEF Brings
<1> QED  BY <1>2, <1>8, <1>10

\* So does a worker's, whose result has the rows of its task.
LEMMA WorkerBrings ==
  ASSUME Inv, Scheduled, Made, Spread, NEW w \in Workers, calls[w].at = "sent"
  PROVE  /\ Separate(db, calls[w].add)
         /\ Brings(w, ToSet(calls[w].add), ToSet(calls[w].rm))
<1>1. calls[w] # NoCall
  BY DEF NoCall
<1>2. /\ ~Idle(w) /\ Busy(w)
      /\ calls[w].add = <<Output(w)>> /\ ToSet(calls[w].rm) = jobs[w].files
  BY <1>1 DEF Made, Requested, Scheduled, Assigned, Inv, TypeOK, Busy
<1>3. PICK o \in File : o = Output(w) /\ o.rows = RowsOf(jobs[w].files)
  BY <1>2, OutputRows
<1>4. jobs[w].files \in SUBSET File
  BY JobFiles
<1>5. ASSUME NEW g, Share(o, g) PROVE \E f \in jobs[w].files : f \in File /\ Share(f, g)
  BY <1>3, <1>4, <1>5 DEF Share, RowsOf
<1>6. Unqueued(db, o)
  BY <1>2, <1>5 DEF Spread, WithWorkers, Unqueued
<1>7. ASSUME NEW g \in db.files, Share(o, g) PROVE g \in jobs[w].files
  <2>1. PICK f \in jobs[w].files : f \in File /\ Share(g, f)
    BY <1>5, <1>7, Shares
  <2> QED  BY <1>2, <2>1 DEF Spread, Indexed
<1>8. ASSUME NEW v \in Workers \ {w}, Busy(v), NEW g \in jobs[v].files PROVE ~Share(o, g)
  BY <1>2, <1>5, <1>8 DEF Spread, WithWorkers
<1>9. ASSUME NEW u \in Users, Awaited(u), NEW g \in ToSet(scenario.calls[u].add), g.iteration # 0,
             Share(o, g)
      PROVE  FALSE
  <2>1. PICK f \in jobs[w].files : f \in File /\ Share(g, f)
    BY <1>5, <1>9, Shares
  <2> QED  BY <1>2, <1>9, <2>1 DEF Spread, Fresh
<1>10. ToSet(<<o>>) = {o}
  BY DEF ToSet
<1>11. Brings(w, {o}, jobs[w].files)
  BY <1>6, <1>7, <1>8, <1>9 DEF Brings
<1>12. PICK s : s = <<o>> /\ DOMAIN s = {1} /\ s[1] = o
  <2>1. DOMAIN <<o>> = 1 .. 1 /\ 1 .. 1 = {1} /\ <<o>>[1] = o
    OBVIOUS
  <2> QED  BY <2>1
<1>13. Separate(db, s)
  BY <1>6, <1>12 DEF Separate
<1> QED  BY <1>2, <1>3, <1>10, <1>11, <1>12, <1>13

\* After such a call rows are in one place.
LEMMA BroughtOnce ==
  ASSUME Inv, Spread, NEW c \in Users \cup Workers, Execute(c), NEW e, Ran(c, e), e.ok,
         Brings(c, e.add, e.rm), NEW r \in Db, r = db', Scattered(r), Grown(db, r),
         \A q \in Queues : \A k \in DOMAIN r.idle[q] : \A g \in r.idle[q][k].files :
           Was(db, q, k, g) \/ g \in e.add
  PROVE  Spread'
<1>1. r.files = (db.files \cup e.add) \ e.rm /\ e.add \in SUBSET File /\ db.files \in SUBSET File
  BY CallType, JobFiles DEF Ran, Change
<1>2. UNCHANGED <<scenario, jobs>> /\ Users' = Users
  BY DEF Execute, Users
<1>3. \A w \in Workers : Busy(w)' => w # c /\ Busy(w)
  BY <1>2 DEF Ran, Busy, Idle
<1>4. \A u \in Users : Awaited(u)' => u # c /\ Awaited(u)
  BY DEF Ran, Awaited
<1>5. ASSUME NEW f \in File, Unqueued(db, f), \A g \in e.add : ~Share(g, f) PROVE Unqueued(r, f)
  <2>1. ASSUME NEW q \in Queues, NEW k \in DOMAIN r.idle[q], NEW g \in r.idle[q][k].files
        PROVE  ~Share(f, g)
    <3>1. CASE Was(db, q, k, g)
      BY <1>5, <3>1 DEF Was, Unqueued
    <3>2. CASE g \in e.add
      BY <1>1, <1>5, <3>2, Shares
    <3> QED  BY <3>1, <3>2
  <2> QED  BY <2>1 DEF Unqueued
<1>6. WithWorkers'
  <2>1. ASSUME NEW v \in Workers, Busy(v)', NEW f \in jobs[v].files
        PROVE  /\ Unqueued(r, f)
               /\ \A w \in Workers : Busy(w)' => \A g \in jobs[w].files : Share(f, g) => w = v
    <3>1. Busy(v) /\ v # c /\ f \in File
      BY <1>3, <2>1, JobFiles
    <3>2. Unqueued(r, f)
      BY <1>5, <3>1 DEF Spread, WithWorkers, Brings
    <3> QED  BY <1>3, <3>1, <3>2 DEF Spread, WithWorkers
  <2> QED  BY <1>2, <2>1 DEF WithWorkers, Unqueued
<1>7. ASSUME NEW g \in r.files, NEW h \in r.files, Share(g, h) PROVE g = h
  <2>1. g \in File /\ h \in File /\ Share(h, g) /\ g \notin e.rm /\ h \notin e.rm
    BY <1>1, <1>7, Shares
  <2>2. (g \in db.files \/ g \in e.add) /\ (h \in db.files \/ h \in e.add)
    BY <1>1
  <2> QED  BY <1>7, <2>1, <2>2 DEF Brings, Spread, Indexed
<1>8. ASSUME NEW g \in r.files, NEW q \in Queues, NEW k \in DOMAIN r.idle[q],
             NEW f \in r.idle[q][k].files, Share(g, f)
      PROVE  g \in r.idle[q][k].files
  <2>1. g \in File /\ g \notin e.rm /\ (g \in db.files \/ g \in e.add)
    BY <1>1
  <2>2. CASE Was(db, q, k, f)
    <3>1. g \notin e.add
      BY <1>8, <2>2 DEF Brings, Unqueued, Was
    <3>2. g \in db.idle[q][k].files
      BY <1>8, <2>1, <2>2, <3>1 DEF Was, Spread, Indexed
    <3> QED  BY <2>2, <3>2 DEF Grown, Was
  <2>3. CASE f \in e.add
    <3>1. Share(f, g)
      BY <1>8, <2>1, Shares
    <3>2. g = f
      BY <2>1, <2>3, <3>1 DEF Brings
    <3> QED  BY <3>2
  <2> QED  BY <2>2, <2>3
<1>9. ASSUME NEW g \in r.files, NEW w \in Workers, Busy(w)', NEW f \in jobs[w].files, Share(g, f)
      PROVE  g \in jobs[w].files
  <2>1. Busy(w) /\ w # c
    BY <1>3, <1>9
  <2> QED  BY <1>1, <1>9, <2>1 DEF Brings, Spread, Indexed
<1>10. Indexed'
  BY <1>2, <1>7, <1>8, <1>9 DEF Indexed
<1>11. Fresh'
  <2>1. ASSUME NEW u \in Users, Awaited(u)', NEW f \in ToSet(scenario.calls[u].add), f.iteration # 0
        PROVE  /\ \A g \in r.files : ~Share(f, g)
               /\ Unqueued(r, f)
               /\ \A w \in Workers : Busy(w)' => \A g \in jobs[w].files : ~Share(f, g)
    <3>1. /\ \A g \in db.files : ~Share(f, g)
          /\ Unqueued(db, f)
          /\ \A w \in Workers : Busy(w) => \A g \in jobs[w].files : ~Share(f, g)
      BY <1>4, <2>1 DEF Spread, Fresh
    <3>2. f \in File /\ \A g \in e.add : ~Share(g, f)
      BY <1>4, <2>1, JobFiles DEF Brings
    <3>3. \A g \in e.add : ~Share(f, g)
      BY <3>2, Shares
    <3>4. Unqueued(r, f)
      BY <1>5, <3>1, <3>2
    <3> QED  BY <1>1, <1>3, <3>1, <3>3, <3>4
  <2> QED  BY <1>2, <2>1 DEF Fresh, Unqueued
<1> QED  BY <1>6, <1>10, <1>11 DEF Spread, Scattered

\* The script runs.
LEMMA ExecuteOnce ==
  ASSUME Inv, Scheduled, Made, Spread, NEW c \in Users \cup Workers, Execute(c)
  PROVE  Once'
<1>1. PICK e : Ran(c, e)
  BY ExecuteRan
<1>2. CASE ~e.ok
  <2>1. Excused'
    BY <1>1, <1>2, RanLog DEF Excused
  <2> QED  BY <2>1 DEF Once
<1>3. CASE e.ok
  <2>1. PICK x \in Call : x = calls[c]
    BY DEF Inv, TypeOK
  <2>2. PICK r : r = db'
    OBVIOUS
  <2>3. r = Script(db, x) /\ calls[c].at = "sent"
    BY <2>1, <2>2 DEF Execute
  <2>4. db \in Db /\ x.add \in Seq(File) /\ x.rm \in Seq(File) /\ QueuesSorted(db) /\ Named(db)
    BY DEF Inv, TypeOK, Call, Tasked
  <2>5. r \in Db /\ Grown(db, r)
    BY <2>3, <2>4, ScriptTasks, ScriptDoes
  <2>6. ~r.error
    <3>1. calls'[c].at = IF r.error THEN "failed" ELSE "executed"
      BY <2>1, <2>3 DEF Execute, Move, Inv, TypeOK
    <3> QED  BY <1>1, <1>3, <3>1 DEF Ran
  <2>7. /\ FromThese(db, r, x.add, Len(x.add))
        /\ Separate(db, x.add) /\ Scattered(db) => Scattered(r)
        /\ \A i \in DOMAIN x.add : x.add[i].iteration # 0
    BY <2>3, <2>4, <2>6, ScriptRows
  <2>8. Separate(db, x.add) /\ Brings(c, e.add, e.rm)
    BY <1>1, <2>1, <2>3, <2>7, UserBrings, WorkerBrings DEF Ran
  <2>9. \A q \in Queues : \A k \in DOMAIN r.idle[q] : \A g \in r.idle[q][k].files :
          Was(db, q, k, g) \/ g \in e.add
    <3>1. e.add = ToSet(x.add) /\ DOMAIN x.add = 1 .. Len(x.add)
      BY <1>1, <2>1, <2>4 DEF Ran
    <3> QED  BY <2>7, <3>1 DEF FromThese, ToSet
  <2>10. Spread'
    BY <1>1, <1>3, <2>2, <2>5, <2>7, <2>8, <2>9, BroughtOnce DEF Spread
  <2> QED  BY <2>10 DEF Once
<1> QED  BY <1>2, <1>3

\* Every step keeps the rows in one place, or is an excuse.
LEMMA NextOnce ==
  ASSUME Inv, Scheduled, Made, Once, [Next]_vars
  PROVE  Once'
<1>1. CASE Excused
  BY <1>1, StillExcused DEF Once
<1> SUFFICES ASSUME Spread PROVE Once'
  BY <1>1 DEF Once
<1>2. /\ calls \in [Users \cup Workers -> Call] /\ jobs \in [Workers -> Job]
      /\ Users \cap Workers = {}
  BY UsersApart DEF Inv, TypeOK, Tasked
<1>3. \A what \in {"repeat", "redeliver"} : Spend(what) => Once'
  <2>1. PICK S : S = DOMAIN scenario.faults /\ spent \in [S -> Nat]
    BY DEF Inv, TypeOK
  <2>2. S = {"repeat", "fail", "redeliver"}
    BY <2>1, RedisIndexAssumption DEF Inv, TypeOK
  <2>3. \A what \in S : Spend(what) => spent'[what] = spent[what] + 1 /\ spent[what] \in Nat
    BY <2>1 DEF Spend
  <2>4. \A what \in S : Spend(what) => spent'[what] > 0
    BY <2>3
  <2> QED  BY <2>2, <2>4 DEF Once, Excused
<1>4. ASSUME NEW c \in Users \cup Workers, Send(c) \/ GiveUp(c) \/ Answer(c)
      PROVE  Once'
  <2>1. UNCHANGED <<db, jobs>> /\ \A u \in (Users \cup Workers) \ {c} : calls'[u] = calls[u]
    BY <1>2, <1>4 DEF Send, GiveUp, Answer, Move
  <2>2. calls'[c].at \in {"none", "sent"} => c \notin Workers /\ calls[c].at = "none"
    <3>1. CASE Send(c)
      BY <1>2, <3>1 DEF Send, NoCall
    <3>2. CASE GiveUp(c) \/ Answer(c)
      BY <1>2, <3>2 DEF GiveUp, Answer, Move, Call
    <3> QED  BY <1>4, <3>1, <3>2
  <2>3. \A w \in Workers : Busy(w)' => Busy(w) /\ jobs'[w] = jobs[w]
    BY <1>2, <2>1, <2>2 DEF Busy, Idle
  <2>4. \A u \in Users : Awaited(u)' => Awaited(u)
    BY <2>1, <2>2 DEF Awaited
  <2> QED  BY <2>1, <2>3, <2>4, SameOnce DEF Once
<1>5. ASSUME NEW c \in Users \cup Workers, Repeat(c) PROVE Once'
  BY <1>3, <1>5 DEF Repeat
<1>6. ASSUME NEW c \in Users \cup Workers, Execute(c) PROVE Once'
  BY <1>6, ExecuteOnce
<1>7. ASSUME NEW w \in Workers, NEW q \in Queues, GetTask(w, q) PROVE Once'
  BY <1>7, GetTaskOnce DEF Once
<1>8. ASSUME NEW w \in Workers, GetStale(w) PROVE Once'
  BY <1>3, <1>8 DEF GetStale
<1>9. ASSUME NEW w \in Workers, Work(w) \/ Abandon(w) \/ EndTask(w) PROVE Once'
  <2>1. db' = db /\ \A u \in (Users \cup Workers) \ {w} : calls'[u] = calls[u]
    BY <1>2, <1>9 DEF Work, Abandon, EndTask
  <2>2. \A v \in Workers \ {w} : jobs'[v] = jobs[v]
    BY <1>2, <1>9 DEF Work, Abandon, EndTask
  <2>3. Busy(w)' => Busy(w) /\ jobs'[w] = jobs[w]
    <3>1. CASE Work(w)
      BY <3>1 DEF Work, Busy, Idle, NoCall
    <3>2. CASE Abandon(w) \/ EndTask(w)
      BY <1>2, <3>2 DEF Abandon, EndTask, Busy, Idle
    <3> QED  BY <1>9, <3>1, <3>2
  <2>4. \A v \in Workers : Busy(v)' => Busy(v) /\ jobs'[v] = jobs[v]
    BY <2>1, <2>2, <2>3 DEF Busy, Idle
  <2>5. \A u \in Users : Awaited(u)' => Awaited(u)
    BY <1>2, <2>1 DEF Awaited
  <2> QED  BY <2>1, <2>4, <2>5, SameOnce DEF Once
<1>10. CASE UNCHANGED <<db, jobs, calls>>
  <2>1. \A w \in Workers : Busy(w)' => Busy(w) /\ jobs'[w] = jobs[w]
    BY <1>10 DEF Busy, Idle
  <2>2. \A u \in Users : Awaited(u)' => Awaited(u)
    BY <1>10 DEF Awaited
  <2> QED  BY <1>10, <2>1, <2>2, SameOnce DEF Once
<1>11. ASSUME NEW f \in db.drops, Drop(f) PROVE Once'
  BY <1>10, <1>11 DEF Drop
<1>12. CASE UNCHANGED vars
  BY <1>10, <1>12 DEF vars
<1>13. ASSUME NEW w \in Workers, NEW q \in Queues, GetUntimed(w, q) PROVE Once'
  BY <1>13, GetUntimedOnce DEF Once
<1> QED  BY <1>4, <1>5, <1>6, <1>7, <1>8, <1>9, <1>11, <1>12, <1>13 DEF Next

\* Files stay in tasks and names in order.
LEMMA Ordered == Spec => [](Scheduled /\ Made)
<1>1. Init => Scheduled
  BY InitScheduled
<1>2. Init => Made
  BY DEF Init, Made, Dated, Handed, Begun, Requested, Idle
<1>3. Inv /\ Scheduled /\ Made /\ [Next]_vars => Scheduled' /\ Made'
  BY NextScheduled, NextMade
<1> QED  BY <1>1, <1>2, <1>3, Typed, PTL DEF Spec

\* No merge or move loses a row of an acknowledged call, however tasks are abandoned, handed
\* out again and done twice, and requests lost, repeated and overtaken. And no row is in two
\* files, unless a request was repeated or ended in an error, or a task was handed out again.
THEOREM RowsNeitherLostNorDoubled == Spec => []RowsExact
<1>1. Init => Kept /\ Once
  <2>1. Init => Kept
    BY DEF Init, Kept, RowsKept, NoCall
  <2>2. Init => Scattered(db)
    BY DEF Init, Scattered
  <2>3. Init => WithWorkers
    BY DEF Init, WithWorkers, Busy, Idle
  <2>4. Init => Indexed
    BY DEF Init, Indexed
  <2>5. Init => Fresh
    BY DEF Init, Fresh, Unqueued, Busy, Idle
  <2> QED  BY <2>1, <2>2, <2>3, <2>4, <2>5 DEF Once, Spread
<1>2. Inv /\ Scheduled /\ Made /\ Kept /\ Once /\ [Next]_vars => Kept' /\ Once'
  BY NextKept, NextOnce
<1>3. Kept /\ Once => RowsExact
  <2>1. Once => RowsOnce
    BY DEF Once, Excused, Spread, Indexed, RowsOnce
  <2> QED  BY <2>1 DEF Kept, RowsExact
<1> QED  BY <1>1, <1>2, <1>3, Typed, Ordered, PTL DEF Spec

\* A query finds every row of its range that was acknowledged and that no user removed, in
\* whatever file it is now, and every indexed file that holds it, however hours and days
\* divide the time; as long as the row's file is in the directory of its hour, not before
\* that of After, and the query reads the days of its range.
THEOREM QueriesComplete == Spec => []QueryComplete
<1>1. Inv /\ RowsExact => QueryComplete
  <2> SUFFICES ASSUME Inv, RowsExact, NEW r \in Ranges, ReadsDays(r)
               PROVE  /\ \A f \in db.files : (\E row \in f.rows : Sought(r, row)) => f \in Query(r)
                      /\ \A a \in acked : \A row \in RowsOf(a.add) :
                           Sought(r, row) => Removed(row) \/ row \in RowsOf(Query(r))
    BY DEF QueryComplete
  <2>1. ASSUME NEW f \in db.files, NEW row \in f.rows, Sought(r, row) PROVE f \in Query(r)
    <3>1. f \in File
      BY DbType DEF Inv, TypeOK
    <3> QED  BY <2>1, <3>1, QueryFinds
  <2>2. ASSUME NEW a \in acked, NEW row \in RowsOf(a.add), Sought(r, row), ~Removed(row)
        PROVE  row \in RowsOf(Query(r))
    <3>1. PICK f \in db.files : row \in f.rows
      BY <2>2 DEF RowsExact, RowsKept, RowsOf
    <3>2. f \in Query(r)
      BY <2>1, <2>2, <3>1
    <3> QED  BY <3>1, <3>2 DEF RowsOf
  <2> QED  BY <2>1, <2>2
<1> QED  BY <1>1, Typed, RowsNeitherLostNorDoubled, PTL
========================================
