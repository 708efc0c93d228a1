------------------------- MODULE JsonPartIndexProofs -------------------------
(* Theorems about one partition of the JSON index, for every set of files,  *)
(* every set of requests and every bound.                                   *)
EXTENDS JsonPartIndex, FiniteSetTheorems, TLAPS

-----------------------------------------------------------------------------
(* The shape of the state.                                                 *)

\* What Batch leaves in memory has the shape of a partition.
LEMMA ApplyBatchType ==
  ASSUME TypeOK, NEW add \in SUBSET Paths, NEW rm \in SUBSET Paths,
         ApplyBatch(add, rm)
  PROVE  mem' \in MemRecord /\ idIssued' \in BOOLEAN
<1> DEFINE indexed == mem.files \cup add
           removed == Removed(rm, indexed)
           kept    == indexed \ rm
<1>1. /\ mem.files \subseteq Paths /\ mem.rowCount \in Int
      /\ mem.minTime \in Nat /\ mem.maxTime \in Nat
      /\ mem.dropQueue \in Seq(Paths \cup {Blank})
  BY DEF TypeOK, MemRecord
<1> DEFINE Result(low, high, q) ==
             [files     |-> kept,
              rowCount  |-> mem.rowCount + Cardinality(add) - Cardinality(removed),
              minTime   |-> low,
              maxTime   |-> high,
              dropQueue |-> mem.dropQueue \o q]
<1>2. PICK first \in FirstBounds(add), q \in Listings(rm) :
        \E low \in LowAfterAdd(first[1], add), high \in HighAfterAdd(first[2], add) :
        \E newLow \in LowAfterRm(low, removed, kept, q),
           newHigh \in HighAfterRm(high, removed, kept, q) :
             mem' = Result(newLow, newHigh, q)
  BY DEF ApplyBatch
<1>0. PICK low \in LowAfterAdd(first[1], add), high \in HighAfterAdd(first[2], add) :
        \E newLow \in LowAfterRm(low, removed, kept, q),
           newHigh \in HighAfterRm(high, removed, kept, q) :
             mem' = Result(newLow, newHigh, q)
  BY <1>2
<1>3. PICK newLow \in LowAfterRm(low, removed, kept, q),
           newHigh \in HighAfterRm(high, removed, kept, q) :
        mem' = Result(newLow, newHigh, q)
  BY <1>0
<1>4. Cardinality(add) \in Nat /\ Cardinality(removed) \in Nat
  <2>1. IsFiniteSet(add) /\ IsFiniteSet(removed)
    BY FilesAssumption, FS_Subset, <1>1 DEF Removed
  <2> QED  BY <2>1, FS_CardinalityType
<1>5. q \in Seq(Paths \cup {Blank}) /\ DOMAIN q = 1 .. Cardinality(rm)
      /\ \A i \in DOMAIN q : q[i] \in rm
  <2>1. IsFiniteSet(rm)
    BY FilesAssumption, FS_Subset
  <2>2. Cardinality(rm) \in Nat
    BY <2>1, FS_CardinalityType
  <2>3. q \in [1 .. Cardinality(rm) -> rm]
    BY DEF Listings
  <2> QED  BY <2>2, <2>3
<1>6. low \in Nat /\ high \in Nat
  <2>1. first[1] \in Nat /\ first[2] \in Nat
    BY <1>1, FilesAssumption DEF FirstBounds
  <2> QED  BY <2>1, FilesAssumption DEF LowAfterAdd, HighAfterAdd, Timed, Least, Greatest
<1>7. LastRemoved(q, removed) \subseteq Paths /\ kept \subseteq Paths
  BY <1>1, <1>5 DEF LastRemoved
<1>8. newLow \in Nat /\ newHigh \in Nat
  <2>1. newLow \in Nat
    <3>1. newLow \in LowAfterRm(low, removed, kept, q)
      BY <1>3
    <3> HIDE DEF removed, kept
    <3> QED  BY <1>6, <1>7, <3>1, FilesAssumption DEF LowAfterRm, Least
  <2>2. newHigh \in Nat
    <3>1. newHigh \in HighAfterRm(high, removed, kept, q)
      BY <1>3
    <3> HIDE DEF removed, kept
    <3> QED  BY <1>6, <1>7, <3>1, FilesAssumption DEF HighAfterRm, Greatest
  <2> QED  BY <2>1, <2>2
<1>9. mem.dropQueue \o q \in Seq(Paths \cup {Blank})
  BY <1>1, <1>5
<1>10. mem' \in MemRecord
  BY <1>1, <1>3, <1>4, <1>7, <1>8, <1>9 DEF MemRecord
<1>11. idIssued' \in BOOLEAN
  BY DEF ApplyBatch
<1> QED  BY <1>10, <1>11
\* A call is appended to the log; a queued one is due in the next flush.
LEMMA LogType ==
  ASSUME calls \in Seq(CallRecord), NEW c \in CallRecord, calls' = Append(calls, c)
  PROVE  /\ calls' \in Seq(CallRecord)
         /\ DOMAIN calls' = DOMAIN calls \cup {Len(calls) + 1}
         /\ Len(calls) + 1 \notin DOMAIN calls
         /\ \A i \in DOMAIN calls : calls'[i] = calls[i]
         /\ calls'[Len(calls) + 1] = c
<1>1. DOMAIN calls = 1 .. Len(calls) /\ Len(calls) \in Nat
  OBVIOUS
<1>2. calls' \in Seq(CallRecord) /\ Len(calls') = Len(calls) + 1
  OBVIOUS
<1>3. DOMAIN calls' = 1 .. Len(calls')
  BY <1>2
<1>4. \A i \in DOMAIN calls : calls'[i] = calls[i]
  BY <1>1
<1>5. calls'[Len(calls) + 1] = c
  BY <1>1
<1> QED  BY <1>1, <1>2, <1>3, <1>4, <1>5

\* Every record that Call builds is a call record.
LEMMA CallType ==
  ASSUME NEW kind \in {"batch", "drop", "merge"}, NEW add \in SUBSET Paths,
         NEW rm \in SUBSET Paths, NEW queued \in BOOLEAN, NEW again \in BOOLEAN
  PROVE  Call(kind, add, rm, queued, again) \in CallRecord
BY DEF Call, CallRecord

\* Setting the result of a call keeps it a call record.
LEMMA ResultType ==
  ASSUME NEW c \in CallRecord, NEW res \in {"pending", "ok", "err", "lost"}
  PROVE  [c EXCEPT !.res = res] \in CallRecord
BY DEF CallRecord

\* What populate reads from metadata.json has the shape of a partition in memory.
LEMMA ReloadedType ==
  /\ \A d \in DiskRecord : Reloaded(d) \in MemRecord
  /\ EmptyDisk \in DiskRecord
<1>1. ASSUME NEW d \in DiskRecord
      PROVE  Reloaded(d) \in MemRecord
  <2>1. d.drops \in Nat
    BY DEF DiskRecord
  <2>2. [i \in 1 .. d.drops |-> Blank] \in Seq(Paths \cup {Blank})
    BY <2>1
  <2> QED  BY <2>2 DEF DiskRecord, MemRecord, Reloaded
<1>2. EmptyDisk \in DiskRecord
  BY DEF EmptyDisk, DiskRecord
<1> QED  BY <1>1, <1>2

\* Every step of the partition preserves the shape of the state: in particular
\* no step puts a promise both in J.promises and in the running flush.
LEMMA TypeStep ==
  ASSUME TypeOK, [Next]_vars
  PROVE  TypeOK'
<1> USE DEF loopVars
<1>1. ASSUME NEW r \in Requests, Batch(r[1], r[2])
      PROVE  TypeOK'
  <2> DEFINE add == r[1]
             rm == r[2]
             again == add \cap mem.files # {}
  <2>1. add \in SUBSET Paths /\ rm \in SUBSET Paths
    BY FilesAssumption
  <2>2. again \in BOOLEAN
    OBVIOUS
  <2> HIDE DEF add, rm, again
  <2>3. CASE AnswerNow(Call("batch", add, rm, FALSE, again)) /\ UNCHANGED <<stopped, filesInMerge, loopVars, disk, plan, crashes>>
    <3>1. Call("batch", add, rm, FALSE, again) \in CallRecord
      BY <2>1, <2>2, CallType
    <3>2. calls' = Append(calls, Call("batch", add, rm, FALSE, again)) /\ calls \in Seq(CallRecord)
      BY <2>3 DEF AnswerNow, TypeOK
    <3>3. calls' \in Seq(CallRecord) /\ DOMAIN calls \subseteq DOMAIN calls'
      BY <3>1, <3>2, LogType
    <3> QED  BY <2>3, <3>3 DEF TypeOK, AnswerNow
  <2>4. CASE /\ ApplyBatch(add, rm)
             /\ Queue(Call("batch", add, rm, TRUE, again))
             /\ Signal
             /\ UNCHANGED <<stopped, filesInMerge, loopVars, disk, plan, crashes>>
    <3>1. Call("batch", add, rm, TRUE, again) \in CallRecord
      BY <2>1, <2>2, CallType
    <3>2. calls' = Append(calls, Call("batch", add, rm, TRUE, again)) /\ calls \in Seq(CallRecord)
      BY <2>4 DEF Queue, TypeOK
    <3>3. /\ calls' \in Seq(CallRecord) /\ DOMAIN calls' = DOMAIN calls \cup {Len(calls) + 1}
          /\ Len(calls) + 1 \notin DOMAIN calls
      BY <3>1, <3>2, LogType
    <3>4. mem' \in MemRecord /\ idIssued' \in BOOLEAN
      BY <2>1, <2>4, ApplyBatchType
    <3> QED  BY <2>4, <3>3, <3>4 DEF TypeOK, Queue, Signal
  <2> QED  BY <1>1, <2>3, <2>4 DEF Batch, add, rm, again
<1>2. ASSUME NEW p \in Paths, RmFromDropQueue(p)
      PROVE  TypeOK'
  <2>1. Call("drop", {}, {}, TRUE, FALSE) \in CallRecord
    BY CallType
  <2>2. calls' = Append(calls, Call("drop", {}, {}, TRUE, FALSE)) /\ calls \in Seq(CallRecord)
    BY <1>2 DEF RmFromDropQueue, Queue, TypeOK
  <2>3. /\ calls' \in Seq(CallRecord) /\ DOMAIN calls' = DOMAIN calls \cup {Len(calls) + 1}
        /\ Len(calls) + 1 \notin DOMAIN calls
    BY <2>1, <2>2, LogType
  <2>4. PICK i \in Slots(p) : mem' = [mem EXCEPT !.dropQueue = SwapRemove(@, i)]
    BY <1>2 DEF RmFromDropQueue, Greatest
  <2>5. mem.dropQueue \in Seq(Paths \cup {Blank})
    BY DEF TypeOK, MemRecord
  <2>6. SwapRemove(mem.dropQueue, i) \in Seq(Paths \cup {Blank})
    BY <2>5, <2>4 DEF SwapRemove, Slots
  <2>7. mem' \in MemRecord
    BY <2>4, <2>6 DEF TypeOK, MemRecord
  <2> QED  BY <1>2, <2>3, <2>7 DEF TypeOK, RmFromDropQueue, Queue, Signal
<1>3. ASSUME NEW w \in Workers, NEW it \in DOMAIN MaxSize, NEW ripe \in SUBSET Paths,
             GetMergePlan(w, it, ripe)
      PROVE  TypeOK'
  <2>1. PICK from \in SUBSET Eligible(it, ripe) :
          /\ filesInMerge' = filesInMerge \cup from
          /\ plan' = [plan EXCEPT ![w] = from]
    BY <1>3 DEF GetMergePlan
  <2>2. from \subseteq Paths
    BY DEF Eligible
  <2> QED  BY <1>3, <2>1, <2>2 DEF TypeOK, GetMergePlan
<1>4. ASSUME NEW w \in Workers, EndMerge(w)
      PROVE  TypeOK'
  <2> DEFINE c(queued) == Call("merge", {}, {}, queued, FALSE)
  <2>1. c(TRUE) \in CallRecord /\ c(FALSE) \in CallRecord
    BY CallType
  <2>2. calls \in Seq(CallRecord)
    BY DEF TypeOK
  <2> HIDE DEF c
  <2>3. CASE Queue(c(TRUE)) /\ UNCHANGED <<mem, idIssued, armed>>
    <3>1. /\ calls' \in Seq(CallRecord) /\ DOMAIN calls' = DOMAIN calls \cup {Len(calls) + 1}
          /\ Len(calls) + 1 \notin DOMAIN calls
      BY <2>1, <2>2, <2>3, LogType DEF Queue
    <3> QED  BY <1>4, <2>3, <3>1 DEF TypeOK, EndMerge, Queue, Unmark
  <2>4. CASE AnswerNow(c(FALSE))
    <3>1. calls' \in Seq(CallRecord) /\ DOMAIN calls \subseteq DOMAIN calls'
      BY <2>1, <2>2, <2>4, LogType DEF AnswerNow
    <3> QED  BY <1>4, <2>4, <3>1 DEF TypeOK, EndMerge, AnswerNow, Unmark
  <2> QED  BY <1>4, <2>3, <2>4 DEF EndMerge, c
<1>5. ASSUME FlushBegin
      PROVE  TypeOK'
  <2>1. Persisted(mem) \in DiskRecord
    BY DEF TypeOK, MemRecord, DiskRecord, Persisted
  <2> QED  BY <1>5, <2>1 DEF TypeOK, FlushBegin
<1>6. ASSUME FlushRename \/ FlushFail
      PROVE  TypeOK'
  BY <1>6 DEF TypeOK, FlushRename, FlushFail
<1>7. ASSUME FlushReply
      PROVE  TypeOK'
  <2>1. PICK i \in held : calls' = [calls EXCEPT ![i].res = outcome] /\ held' = held \ {i}
    BY <1>7 DEF FlushReply, Least
  <2>2. i \in DOMAIN calls /\ calls \in Seq(CallRecord) /\ outcome \in {"ok", "err"}
    BY DEF TypeOK
  <2>3. calls[i] \in CallRecord
    BY <2>2
  <2>4. [calls[i] EXCEPT !.res = outcome] \in CallRecord
    BY <2>2, <2>3, ResultType
  <2>5. calls' \in Seq(CallRecord) /\ DOMAIN calls' = DOMAIN calls
    BY <2>1, <2>2, <2>4
  <2> QED  BY <1>7, <2>1, <2>5 DEF TypeOK, FlushReply
<1>8. ASSUME FlushEnd \/ Stop \/ LoopExit
      PROVE  TypeOK'
  BY <1>8 DEF TypeOK, FlushEnd, Stop, LoopExit
<1>9. ASSUME Crash
      PROVE  TypeOK'
  <2>1. mem' \in MemRecord /\ snap' \in DiskRecord /\ disk' \in DiskRecord
    BY <1>9, ReloadedType DEF TypeOK, Crash
  <2>2. calls \in Seq(CallRecord)
    BY DEF TypeOK
  <2>3. \A i \in DOMAIN calls : calls[i] \in CallRecord
    BY <2>2
  <2>4. \A i \in DOMAIN calls : [calls[i] EXCEPT !.res = "lost"] \in CallRecord
    BY <2>3, ResultType
  <2>5. calls' \in Seq(CallRecord)
    <3>1. calls' = [i \in 1 .. Len(calls) |->
                      IF calls[i].res = "pending" THEN [calls[i] EXCEPT !.res = "lost"]
                      ELSE calls[i]]
      BY <1>9, <2>2 DEF Crash
    <3> QED  BY <2>2, <2>3, <2>4, <3>1
  <2>6. idIssued' \in BOOLEAN /\ crashes' \in Nat
    BY <1>9 DEF Crash, IdRestored, TypeOK
  <2>7. /\ filesInMerge' \subseteq Paths
        /\ plan' \in [Workers -> SUBSET Paths]
    BY <1>9 DEF Crash
  <2> QED  BY <1>9, <2>1, <2>5, <2>6, <2>7 DEF TypeOK, Crash
<1>10. ASSUME UNCHANGED vars
       PROVE  TypeOK'
  BY <1>10 DEF TypeOK, vars
<1> QED  BY <1>1, <1>2, <1>3, <1>4, <1>5, <1>6, <1>7, <1>8, <1>9, <1>10 DEF Next, Flusher

\* The freshly opened partition has the shape TypeOK describes.
LEMMA TypeInit ==
  Init => TypeOK
<1> SUFFICES ASSUME Init PROVE TypeOK
  OBVIOUS
<1>1. mem \in MemRecord /\ snap \in DiskRecord /\ disk \in DiskRecord
  BY ReloadedType DEF Init
<1>2. calls \in Seq(CallRecord) /\ crashes \in Nat
  BY DEF Init
<1>3. plan \in [Workers -> SUBSET Paths]
  BY DEF Init
<1> QED  BY <1>1, <1>2, <1>3 DEF Init, TypeOK

\* The state always has the shape the code gives it; every promise belongs to
\* J.promises or to the running flush, never to both (jsonPartIndex.flush).
THEOREM TypeCorrect ==
  Spec => []TypeOK
BY TypeInit, TypeStep, PTL DEF Spec

-----------------------------------------------------------------------------
(* Merge plans.                                                            *)

\* A plan's files are marked for as long as the plan is held; with it the two
\* properties of the plans are inductive.
PlansMarked == \A w \in Workers : plan[w] \subseteq filesInMerge
MergeInv == PlansMarked /\ MergeExclusive /\ MergeMarksOwned

\* No plan is out and no file is marked when the partition is opened.
LEMMA MergeInit ==
  Init => MergeInv
BY DEF Init, MergeInv, PlansMarked, MergeExclusive, MergeMarksOwned

\* Every step keeps plans disjoint and marks owned.
LEMMA MergeStep ==
  ASSUME TypeOK, MergeInv, [Next]_vars
  PROVE  MergeInv'
<1> USE DEF MergeInv, PlansMarked, MergeExclusive, MergeMarksOwned
<1>1. CASE UNCHANGED <<plan, filesInMerge>>
  BY <1>1
<1>2. ASSUME NEW w \in Workers, NEW it \in DOMAIN MaxSize, NEW ripe \in SUBSET Paths,
             GetMergePlan(w, it, ripe)
      PROVE  MergeInv'
  <2>1. PICK from \in SUBSET Eligible(it, ripe) :
          /\ filesInMerge' = filesInMerge \cup from
          /\ plan' = [plan EXCEPT ![w] = from]
    BY <1>2 DEF GetMergePlan
  <2>2. from \cap filesInMerge = {} /\ plan[w] = {} /\ plan \in [Workers -> SUBSET Paths]
    BY <1>2 DEF GetMergePlan, Eligible, TypeOK
  <2>3. plan'[w] = from /\ \A v \in Workers \ {w} : plan'[v] = plan[v]
    BY <2>1, <2>2
  <2> QED  BY <2>1, <2>2, <2>3
<1>3. ASSUME NEW w \in Workers, EndMerge(w)
      PROVE  MergeInv'
  <2>1. filesInMerge' = filesInMerge \ plan[w] /\ plan' = [plan EXCEPT ![w] = {}]
    BY <1>3 DEF EndMerge, Unmark
  <2>2. plan'[w] = {} /\ \A v \in Workers \ {w} : plan'[v] = plan[v]
    BY <2>1 DEF TypeOK
  <2> QED  BY <2>1, <2>2
<1>4. CASE Crash
  BY <1>4 DEF Crash
<1> QED
  BY <1>1, <1>2, <1>3, <1>4
     DEF Next, Flusher, Batch, RmFromDropQueue, FlushBegin, FlushRename, FlushFail,
         FlushReply, FlushEnd, Stop, LoopExit, vars

\* No file is ever in the merge plans of two workers (GetMergePlan, EndMerge).
THEOREM MergePlansDisjoint ==
  Spec => []MergeExclusive
<1>1. MergeInv => MergeExclusive
  BY DEF MergeInv
<1> QED  BY <1>1, TypeInit, TypeStep, MergeInit, MergeStep, PTL DEF Spec

\* A file is marked as being merged only while somebody merges it.
THEOREM MergeMarksReleased ==
  Spec => []MergeMarksOwned
<1>1. MergeInv => MergeMarksOwned
  BY DEF MergeInv
<1> QED  BY <1>1, TypeInit, TypeStep, MergeInit, MergeStep, PTL DEF Spec

-----------------------------------------------------------------------------
(* Durability of acknowledged changes.                                     *)

\* A call reflected in memory reaches the snapshot, and the snapshot reaches
\* metadata.json before the call is answered without error.
UnansweredPending ==
  \A i \in promises \cup held : calls[i].res = "pending"
MemoryCovers ==
  \A i \in DOMAIN calls :
    calls[i].queued /\ calls[i].res \in {"pending", "ok"} => Covers(mem.files, i)
SnapshotCovers ==
  pc = "write" => \A i \in DOMAIN calls :
    calls[i].queued /\ (i \in held \/ calls[i].res = "ok") => Covers(snap.files, i)
ReplyCovers ==
  pc = "reply" /\ outcome = "ok" => \A i \in held :
    calls[i].queued => Covers(disk.files, i)
DurableInv ==
  UnansweredPending /\ MemoryCovers /\ SnapshotCovers /\ ReplyCovers /\ AckedDurable

\* Nothing has been answered when the partition is opened.
LEMMA DurableInit ==
  Init => DurableInv
BY DEF Init, DurableInv, UnansweredPending, MemoryCovers, SnapshotCovers, ReplyCovers,
       AckedDurable

\* A log that keeps the requests of its calls keeps what the files reflect:
\* later calls can only excuse a difference.
LEMMA CoversKept ==
  ASSUME DOMAIN calls \subseteq DOMAIN calls',
         \A j \in DOMAIN calls : calls'[j].add = calls[j].add /\ calls'[j].rm = calls[j].rm,
         NEW i \in DOMAIN calls, NEW F, Covers(F, i)
  PROVE  Covers(F, i)'
BY DEF Covers

\* A new call leaves the durability of the others as it was.
LEMMA DurableAppend ==
  ASSUME TypeOK, DurableInv, NEW c \in CallRecord, calls' = Append(calls, c),
         UNCHANGED <<loopVars, disk>>,
         promises' \subseteq promises \cup {Len(calls) + 1},
         Len(calls) + 1 \in promises' => c.res = "pending",
         c.queued => c.res = "pending",
         MemoryCovers'
  PROVE  DurableInv'
<1> USE DEF loopVars
<1>1. calls \in Seq(CallRecord)
  BY DEF TypeOK
<1>2. /\ DOMAIN calls' = DOMAIN calls \cup {Len(calls) + 1}
      /\ Len(calls) + 1 \notin DOMAIN calls
      /\ \A i \in DOMAIN calls : calls'[i] = calls[i]
      /\ calls'[Len(calls) + 1] = c
  BY <1>1, LogType
<1>3. \A i \in DOMAIN calls : \A F : Covers(F, i) => Covers(F, i)'
  BY <1>2, CoversKept
<1>4. UnansweredPending'
  BY <1>2 DEF UnansweredPending, DurableInv, TypeOK
<1>5. SnapshotCovers'
  BY <1>2, <1>3 DEF SnapshotCovers, DurableInv, TypeOK
<1>6. ReplyCovers'
  BY <1>2, <1>3 DEF ReplyCovers, DurableInv, TypeOK
<1>7. AckedDurable'
  BY <1>2, <1>3 DEF AckedDurable, DurableInv
<1> QED  BY <1>4, <1>5, <1>6, <1>7 DEF DurableInv

\* Every step keeps acknowledged, snapshotted and remembered calls covered.
LEMMA DurableStep ==
  ASSUME TypeOK, DurableInv, [Next]_vars
  PROVE  DurableInv'
<1> USE DEF loopVars
<1>0. calls \in Seq(CallRecord) /\ \A i \in DOMAIN calls : calls[i] \in CallRecord
  BY DEF TypeOK
<1>1. ASSUME NEW r \in Requests, Batch(r[1], r[2])
      PROVE  DurableInv'
  <2> DEFINE add == r[1]
             rm == r[2]
             again == add \cap mem.files # {}
             c(queued) == Call("batch", add, rm, queued, again)
  <2>1. add \in SUBSET Paths /\ rm \in SUBSET Paths
    BY FilesAssumption
  <2>2. c(TRUE) \in CallRecord /\ c(FALSE) \in CallRecord
    BY <2>1, CallType
  <2>3. \A queued \in BOOLEAN : /\ c(queued).add = add /\ c(queued).rm = rm
                                /\ c(queued).queued = queued
                                /\ queued => c(queued).res = "pending"
    BY DEF Call
  <2>4. CASE AnswerNow(c(FALSE)) /\ UNCHANGED <<loopVars, disk>>
    <3> HIDE DEF c, add, rm
    <3>1. calls' = Append(calls, c(FALSE)) /\ promises' = promises /\ mem' = mem
      BY <2>4 DEF AnswerNow
    <3>2. /\ DOMAIN calls' = DOMAIN calls \cup {Len(calls) + 1}
          /\ Len(calls) + 1 \notin DOMAIN calls
          /\ \A i \in DOMAIN calls : calls'[i] = calls[i]
          /\ calls'[Len(calls) + 1] = c(FALSE)
      BY <1>0, <2>2, <3>1, LogType
    <3>3. \A i \in DOMAIN calls : \A F : Covers(F, i) => Covers(F, i)'
      BY <3>2, CoversKept
    <3>4. MemoryCovers'
      BY <2>3, <3>1, <3>2, <3>3 DEF MemoryCovers, DurableInv
    <3>5. Len(calls) + 1 \notin promises'
      BY <3>1, <3>2 DEF TypeOK
    <3> QED  BY <2>2, <2>3, <2>4, <3>1, <3>4, <3>5, DurableAppend
  <2>5. CASE ApplyBatch(add, rm) /\ Queue(c(TRUE)) /\ UNCHANGED <<loopVars, disk>>
    <3>1. mem'.files = (mem.files \cup add) \ rm
      BY <2>5 DEF ApplyBatch
    <3> HIDE DEF c, add, rm
    <3>2. calls' = Append(calls, c(TRUE)) /\ promises' = promises \cup {Len(calls) + 1}
      BY <2>5 DEF Queue
    <3>3. PICK n \in Nat : n = Len(calls) + 1
      BY <1>0
    <3>4. /\ DOMAIN calls' = DOMAIN calls \cup {n} /\ n \notin DOMAIN calls
          /\ \A i \in DOMAIN calls : calls'[i] = calls[i]
          /\ calls'[n] = c(TRUE)
      BY <1>0, <2>2, <3>2, <3>3, LogType
    <3>5. \A i \in DOMAIN calls : n > i
      BY <1>0, <3>3
    <3>6. calls'[n].add = add /\ calls'[n].rm = rm
      BY <2>3, <3>4
    <3>7. \A i \in DOMAIN calls : Covers(mem.files, i) => Covers(mem.files, i)'
      <4> SUFFICES ASSUME NEW i \in DOMAIN calls, Covers(mem.files, i)
                   PROVE  Covers(mem.files, i)'
        OBVIOUS
      <4>1. /\ n \in DOMAIN calls' /\ n > i
            /\ calls'[i].add = calls[i].add /\ calls'[i].rm = calls[i].rm
        BY <3>4, <3>5
      <4>2. ASSUME NEW p \in calls[i].add \ calls[i].rm
            PROVE  p \in mem'.files \/ \E j \in DOMAIN calls' : j > i /\ p \in calls'[j].rm
        BY <3>1, <3>4, <3>6, <4>1 DEF Covers
      <4>3. ASSUME NEW p \in calls[i].rm
            PROVE  p \notin mem'.files \/ \E j \in DOMAIN calls' : j > i /\ p \in calls'[j].add
        BY <3>1, <3>4, <3>6, <4>1 DEF Covers
      <4> QED  BY <4>1, <4>2, <4>3 DEF Covers
    <3>8. Covers(mem.files, n)'
      BY <3>1, <3>6 DEF Covers
    <3>9. MemoryCovers'
      BY <3>4, <3>7, <3>8 DEF MemoryCovers, DurableInv
    <3> QED  BY <2>2, <2>3, <2>5, <3>2, <3>9, DurableAppend
  <2> QED  BY <1>1, <2>4, <2>5 DEF Batch
\* A call that is no Batch asks for no file.
<1>2. ASSUME NEW kind \in {"drop", "merge"}, NEW queued \in BOOLEAN,
             calls' = Append(calls, Call(kind, {}, {}, queued, FALSE)),
             mem'.files = mem.files, UNCHANGED <<loopVars, disk>>,
             promises' = IF queued THEN promises \cup {Len(calls) + 1} ELSE promises
      PROVE  DurableInv'
  <2> DEFINE c == Call(kind, {}, {}, queued, FALSE)
  <2>1. c \in CallRecord
    BY CallType
  <2>2. c.add = {} /\ c.rm = {} /\ c.queued = queued /\ (queued => c.res = "pending")
    BY DEF Call
  <2> HIDE DEF c
  <2>3. PICK n \in Nat : n = Len(calls) + 1
    BY <1>0
  <2>4. /\ DOMAIN calls' = DOMAIN calls \cup {n} /\ n \notin DOMAIN calls
        /\ \A i \in DOMAIN calls : calls'[i] = calls[i]
        /\ calls'[n] = c
    BY <1>0, <1>2, <2>1, <2>3, LogType DEF c
  <2>5. \A i \in DOMAIN calls : \A F : Covers(F, i) => Covers(F, i)'
    BY <2>4, CoversKept
  <2>6. Covers(mem.files, n)'
    BY <2>2, <2>4 DEF Covers
  <2>7. \A i \in DOMAIN calls : Covers(mem.files, i) => Covers(mem.files, i)'
    <3> SUFFICES ASSUME NEW i \in DOMAIN calls, Covers(mem.files, i)
                 PROVE  Covers(mem.files, i)'
      OBVIOUS
    <3> QED  BY <1>2, <2>4 DEF Covers
  <2>8. MemoryCovers'
    BY <2>4, <2>6, <2>7 DEF MemoryCovers, DurableInv
  <2>9. n \in promises' => queued
    BY <1>2, <2>4 DEF TypeOK
  <2> QED  BY <1>2, <2>1, <2>2, <2>3, <2>8, <2>9, DurableAppend DEF c
<1>3. ASSUME NEW p \in Paths, RmFromDropQueue(p)
      PROVE  DurableInv'
  <2>1. mem'.files = mem.files
    BY <1>3 DEF RmFromDropQueue, TypeOK, MemRecord
  <2> QED  BY <1>2, <1>3, <2>1 DEF RmFromDropQueue, Queue
<1>4. ASSUME NEW w \in Workers, EndMerge(w)
      PROVE  DurableInv'
  <2>1. CASE Queue(Call("merge", {}, {}, TRUE, FALSE)) /\ UNCHANGED mem
    BY <1>2, <1>4, <2>1 DEF EndMerge, Queue
  <2>2. CASE AnswerNow(Call("merge", {}, {}, FALSE, FALSE))
    BY <1>2, <1>4, <2>2 DEF EndMerge, AnswerNow
  <2> QED  BY <1>4, <2>1, <2>2 DEF EndMerge
<1>5. CASE UNCHANGED <<mem, promises, loopVars, disk, calls>>
  BY <1>5 DEF DurableInv, UnansweredPending, MemoryCovers, SnapshotCovers, ReplyCovers,
              AckedDurable, Covers
<1>6. CASE FlushBegin
  <2>1. /\ snap'.files = mem.files /\ held' = promises /\ promises' = {} /\ pc' = "write"
        /\ UNCHANGED <<mem, calls, disk>>
    BY <1>6 DEF FlushBegin, Persisted
  <2> QED  BY <2>1 DEF DurableInv, UnansweredPending, MemoryCovers, SnapshotCovers,
                       ReplyCovers, AckedDurable, Covers, TypeOK
<1>7. CASE FlushRename
  <2>1. /\ disk' = snap /\ pc = "write" /\ pc' = "reply"
        /\ UNCHANGED <<mem, calls, promises, held>>
    BY <1>7 DEF FlushRename
  <2> QED  BY <2>1 DEF DurableInv, UnansweredPending, MemoryCovers, SnapshotCovers,
                       ReplyCovers, AckedDurable, Covers, TypeOK
<1>8. CASE FlushFail
  <2>1. /\ pc' = "reply" /\ outcome' = "err"
        /\ UNCHANGED <<mem, calls, promises, held, disk>>
    BY <1>8 DEF FlushFail
  <2> QED  BY <2>1 DEF DurableInv, UnansweredPending, MemoryCovers, SnapshotCovers,
                       ReplyCovers, AckedDurable, Covers
<1>9. CASE FlushReply
  <2>1. PICK i \in held : calls' = [calls EXCEPT ![i].res = outcome] /\ held' = held \ {i}
    BY <1>9 DEF FlushReply, Least
  <2>2. pc = "reply" /\ UNCHANGED <<mem, promises, pc, snap, outcome, disk>>
    BY <1>9 DEF FlushReply
  <2>3. i \in DOMAIN calls /\ calls[i].res = "pending" /\ i \notin promises
    BY DEF TypeOK, DurableInv, UnansweredPending
  <2>4. /\ DOMAIN calls' = DOMAIN calls
        /\ \A j \in DOMAIN calls : /\ calls'[j].add = calls[j].add
                                   /\ calls'[j].rm = calls[j].rm
                                   /\ calls'[j].queued = calls[j].queued
                                   /\ j # i => calls'[j] = calls[j]
        /\ calls'[i].res = outcome
    BY <1>0, <2>1, <2>3 DEF CallRecord
  <2>5. \A j \in DOMAIN calls : \A F : Covers(F, j) => Covers(F, j)'
    BY <2>4, CoversKept
  <2>6. \A j \in DOMAIN calls : Covers(mem.files, j) => Covers(mem.files, j)'
    BY <2>2, <2>5
  <2>7. \A j \in DOMAIN calls : Covers(disk.files, j) => Covers(disk.files, j)'
    BY <2>2, <2>5
  <2>8. UnansweredPending'
    BY <2>1, <2>2, <2>3, <2>4 DEF UnansweredPending, DurableInv, TypeOK
  <2>9. MemoryCovers'
    BY <2>3, <2>4, <2>6 DEF MemoryCovers, DurableInv
  <2>10. SnapshotCovers'
    BY <2>2 DEF SnapshotCovers
  <2>11. ReplyCovers'
    BY <2>1, <2>2, <2>4, <2>7 DEF ReplyCovers, DurableInv, TypeOK
  <2>12. AckedDurable'
    BY <2>2, <2>3, <2>4, <2>7 DEF AckedDurable, ReplyCovers, DurableInv
  <2> QED  BY <2>8, <2>9, <2>10, <2>11, <2>12 DEF DurableInv
<1>10. CASE FlushEnd \/ LoopExit
  <2>1. pc' \notin {"write", "reply"} /\ UNCHANGED <<mem, calls, promises, held, disk>>
    BY <1>10 DEF FlushEnd, LoopExit
  <2> QED  BY <2>1 DEF DurableInv, UnansweredPending, MemoryCovers, SnapshotCovers,
                       ReplyCovers, AckedDurable, Covers
<1>11. CASE Crash
  <2>1. /\ mem'.files = disk.files /\ disk' = disk /\ pc' = "select"
        /\ promises' = {} /\ held' = {}
    BY <1>11 DEF Crash, Reloaded
  <2>2. /\ DOMAIN calls' = DOMAIN calls
        /\ \A j \in DOMAIN calls : /\ calls'[j].add = calls[j].add
                                   /\ calls'[j].rm = calls[j].rm
                                   /\ calls'[j].queued = calls[j].queued
                                   /\ calls[j].res # "pending" => calls'[j].res = calls[j].res
                                   /\ calls[j].res = "pending" => calls'[j].res = "lost"
    BY <1>0, <1>11 DEF Crash, CallRecord
  <2>3. \A j \in DOMAIN calls : \A F : Covers(F, j) => Covers(F, j)'
    BY <2>2, CoversKept
  <2>4. \A j \in DOMAIN calls : Covers(disk.files, j) => Covers(disk.files, j)' /\ Covers(mem.files, j)'
    <3> SUFFICES ASSUME NEW j \in DOMAIN calls, Covers(disk.files, j)
                 PROVE  Covers(disk.files, j)' /\ Covers(mem.files, j)'
      OBVIOUS
    <3> QED  BY <2>1, <2>2 DEF Covers
  <2>5. UnansweredPending' /\ SnapshotCovers' /\ ReplyCovers'
    BY <2>1 DEF UnansweredPending, SnapshotCovers, ReplyCovers
  <2>6. AckedDurable'
    BY <2>2, <2>4 DEF AckedDurable, DurableInv
  <2>7. MemoryCovers'
    BY <2>2, <2>4 DEF MemoryCovers, AckedDurable, DurableInv
  <2> QED  BY <2>5, <2>6, <2>7 DEF DurableInv
<1> QED
  BY <1>1, <1>3, <1>4, <1>5, <1>6, <1>7, <1>8, <1>9, <1>10, <1>11
     DEF Next, Flusher, GetMergePlan, Stop, vars

\* A Batch answered without error by a flush survives every crash: its files
\* are in metadata.json, and those it removed are not, until a later Batch asks
\* for the opposite.
THEOREM AcknowledgedIsDurable ==
  Spec => []AckedDurable
<1>1. DurableInv => AckedDurable
  BY DEF DurableInv
<1> QED  BY <1>1, TypeInit, TypeStep, DurableInit, DurableStep, PTL DEF Spec

-----------------------------------------------------------------------------
(* No wake-up is lost.                                                     *)

NoError == \A i \in DOMAIN calls : calls[i].res # "err"
\* Whoever wakes the goroutine leaves it a promise, which it answers: a flush
\* that failed is therefore on record.
Due ==
  /\ armed => promises # {}
  /\ pc = "write" => held # {}
  /\ pc = "reply" /\ outcome = "err" /\ NoError => held # {}
\* Until somebody changes the partition, what flush writes is the partition.
InSync ==
  ~armed /\ NoError =>
    /\ pc = "select" => disk = Persisted(mem)
    /\ pc = "write" => snap = Persisted(mem)
    /\ pc = "reply" /\ outcome = "ok" => disk = Persisted(mem)
SyncInv == Due /\ InSync

\* Writing out a partition that was just loaded gives the same file.
LEMMA PersistedReloaded ==
  ASSUME NEW d \in DiskRecord
  PROVE  Persisted(Reloaded(d)) = d
<1>1. d.drops \in Nat
  BY DEF DiskRecord
<1>2. Len([i \in 1 .. d.drops |-> Blank]) = d.drops
  BY <1>1
<1> QED  BY <1>2 DEF Persisted, Reloaded, DiskRecord

\* Memory and metadata.json agree when the partition is opened.
LEMMA SyncInit ==
  Init => SyncInv
<1>1. EmptyDisk \in DiskRecord
  BY ReloadedType
<1> QED  BY <1>1, PersistedReloaded DEF Init, SyncInv, Due, InSync

\* Every step keeps an unarmed goroutine in agreement with memory or on its way to it.
LEMMA SyncStep ==
  ASSUME TypeOK, UnansweredPending, SyncInv, [Next]_vars
  PROVE  SyncInv'
<1> USE DEF loopVars, SyncInv, Due, InSync
<1>0. calls \in Seq(CallRecord) /\ held \subseteq DOMAIN calls
  BY DEF TypeOK
<1>1. ASSUME NEW c \in CallRecord, calls' = Append(calls, c)
      PROVE  NoError' => NoError
  BY <1>0, <1>1, LogType DEF NoError
<1>2. ASSUME NEW c \in CallRecord, Queue(c), Signal, UNCHANGED <<loopVars, disk>>
      PROVE  SyncInv'
  BY <1>1, <1>2 DEF Queue, Signal
<1>3. ASSUME NEW c \in CallRecord, AnswerNow(c), UNCHANGED <<loopVars, disk>>
      PROVE  SyncInv'
  BY <1>1, <1>3 DEF AnswerNow, Persisted
<1>4. ASSUME NEW r \in Requests, Batch(r[1], r[2])
      PROVE  SyncInv'
  <2> DEFINE c(queued) == Call("batch", r[1], r[2], queued, r[1] \cap mem.files # {})
  <2>1. c(TRUE) \in CallRecord /\ c(FALSE) \in CallRecord
    BY FilesAssumption, CallType
  <2> HIDE DEF c
  <2>2. CASE Queue(c(TRUE)) /\ Signal /\ UNCHANGED <<loopVars, disk>>
    BY <1>2, <2>1, <2>2
  <2>3. CASE AnswerNow(c(FALSE)) /\ UNCHANGED <<loopVars, disk>>
    BY <1>3, <2>1, <2>3
  <2> QED  BY <1>4, <2>2, <2>3 DEF Batch, c
<1>5. ASSUME NEW p \in Paths, RmFromDropQueue(p)
      PROVE  SyncInv'
  <2>1. Call("drop", {}, {}, TRUE, FALSE) \in CallRecord
    BY CallType
  <2> QED  BY <1>2, <1>5, <2>1 DEF RmFromDropQueue
<1>6. ASSUME NEW w \in Workers, EndMerge(w)
      PROVE  SyncInv'
  <2> DEFINE c(queued) == Call("merge", {}, {}, queued, FALSE)
  <2>1. c(TRUE) \in CallRecord /\ c(FALSE) \in CallRecord
    BY CallType
  <2> HIDE DEF c
  <2>2. CASE Queue(c(TRUE)) /\ UNCHANGED <<mem, armed, loopVars, disk>>
    BY <1>1, <2>1, <2>2 DEF Queue, Persisted
  <2>3. CASE AnswerNow(c(FALSE)) /\ UNCHANGED <<loopVars, disk>>
    BY <1>3, <2>1, <2>3
  <2> QED  BY <1>6, <2>2, <2>3 DEF EndMerge, c
<1>7. CASE UNCHANGED <<mem, armed, promises, loopVars, disk, calls>>
  BY <1>7 DEF NoError, Persisted
<1>8. CASE FlushBegin
  BY <1>8 DEF FlushBegin, NoError, Persisted
<1>9. CASE FlushRename
  BY <1>9 DEF FlushRename, NoError, Persisted
<1>10. CASE FlushFail
  BY <1>10 DEF FlushFail, NoError, Persisted
<1>11. CASE FlushReply
  <2>1. PICK i \in held : calls' = [calls EXCEPT ![i].res = outcome] /\ held' = held \ {i}
    BY <1>11 DEF FlushReply, Least
  <2>2. /\ pc = "reply" /\ outcome \in {"ok", "err"}
        /\ UNCHANGED <<mem, armed, promises, pc, outcome, snap, disk>>
    BY <1>11 DEF FlushReply, TypeOK
  <2>3. /\ DOMAIN calls' = DOMAIN calls /\ i \in DOMAIN calls
        /\ \A j \in DOMAIN calls : j # i => calls'[j] = calls[j]
        /\ calls'[i].res = outcome
    BY <1>0, <2>1 DEF CallRecord
  <2>4. CASE outcome = "err"
    BY <2>2, <2>3, <2>4 DEF NoError
  <2>5. CASE outcome = "ok"
    <3>1. NoError' => NoError
      BY <2>3 DEF NoError, UnansweredPending
    <3> QED  BY <2>1, <2>2, <2>5, <3>1 DEF Persisted
  <2> QED  BY <2>2, <2>4, <2>5
<1>12. CASE FlushEnd
  BY <1>12 DEF FlushEnd, NoError, Persisted, TypeOK
<1>13. CASE LoopExit
  BY <1>13 DEF LoopExit, NoError, Persisted
<1>14. CASE Crash
  <2>1. Persisted(Reloaded(disk)) = disk
    BY PersistedReloaded DEF TypeOK
  <2> QED  BY <1>14, <2>1 DEF Crash
<1> QED
  BY <1>4, <1>5, <1>6, <1>7, <1>8, <1>9, <1>10, <1>11, <1>12, <1>13, <1>14
     DEF Next, Flusher, GetMergePlan, Stop, vars

\* An idle goroutine that nobody has woken has nothing left to write, unless a
\* flush failed: a change made while flush runs is never forgotten.
THEOREM NoWakeUpLost ==
  Spec => []QuiescentSync
<1>1. SyncInv => QuiescentSync
  BY DEF SyncInv, InSync, QuiescentSync, NoError
<1>2. DurableInv => UnansweredPending
  BY DEF DurableInv
<1> QED
  BY <1>1, <1>2, TypeInit, TypeStep, DurableInit, DurableStep, SyncInit, SyncStep, PTL
     DEF Spec

-----------------------------------------------------------------------------
(* The time bounds and the counters.                                       *)

\* Between its last entry and its first one, the partition keeps bounds that
\* mean nothing: then the next entry must be the one with Id 1.
EnvelopeInv ==
  /\ Enclosed(mem) /\ Enclosed(snap) /\ Enclosed(disk)
  /\ ~idIssued => mem.files = {}

\* The bounds of a partition without files enclose all of them.
LEMMA EnvelopeInit ==
  Init => EnvelopeInv
BY DEF Init, EnvelopeInv, Enclosed, Reloaded, EmptyDisk, Timed

\* add and rm keep every file that stays within the bounds.
LEMMA ApplyBatchEncloses ==
  ASSUME TypeOK, EnvelopeInv, NEW add \in SUBSET Paths, NEW rm \in SUBSET Paths,
         ApplyBatch(add, rm)
  PROVE  Enclosed(mem)'
<1> DEFINE indexed == mem.files \cup add
           removed == Removed(rm, indexed)
           kept    == indexed \ rm
<1>1. /\ mem.files \subseteq Paths
      /\ mem.minTime \in Nat /\ mem.maxTime \in Nat
      /\ \A p \in Paths : EntryMin[p] \in Nat /\ EntryMax[p] \in Nat
  BY FilesAssumption DEF TypeOK, MemRecord
<1> DEFINE Result(low, high, q) ==
             [files     |-> kept,
              rowCount  |-> mem.rowCount + Cardinality(add) - Cardinality(removed),
              minTime   |-> low,
              maxTime   |-> high,
              dropQueue |-> mem.dropQueue \o q]
<1>2. PICK first \in FirstBounds(add), q \in Listings(rm) :
        \E low \in LowAfterAdd(first[1], add), high \in HighAfterAdd(first[2], add) :
        \E newLow \in LowAfterRm(low, removed, kept, q),
           newHigh \in HighAfterRm(high, removed, kept, q) :
             mem' = Result(newLow, newHigh, q)
  BY DEF ApplyBatch
<1>0. PICK low \in LowAfterAdd(first[1], add), high \in HighAfterAdd(first[2], add) :
        \E newLow \in LowAfterRm(low, removed, kept, q),
           newHigh \in HighAfterRm(high, removed, kept, q) :
             mem' = Result(newLow, newHigh, q)
  BY <1>2
<1>3. PICK newLow \in LowAfterRm(low, removed, kept, q),
           newHigh \in HighAfterRm(high, removed, kept, q) :
        mem' = Result(newLow, newHigh, q)
  BY <1>0
<1>4. \A p \in Timed(indexed) : low <= EntryMin[p] /\ EntryMax[p] <= high
  <2>1. /\ low <= first[1] /\ first[2] <= high
        /\ \A p \in Timed(add) : low <= EntryMin[p] /\ EntryMax[p] <= high
    BY DEF LowAfterAdd, HighAfterAdd, Least, Greatest
  <2>2. first[1] \in Nat /\ first[2] \in Nat /\ low \in Nat /\ high \in Nat
    <3>1. first[1] \in Nat /\ first[2] \in Nat
      BY <1>1 DEF FirstBounds
    <3> QED  BY <1>1, <3>1 DEF LowAfterAdd, HighAfterAdd, Timed, Least, Greatest
  <2>3. ASSUME NEW p \in Timed(mem.files)
        PROVE  low <= EntryMin[p] /\ EntryMax[p] <= high
    <3>1. CASE first = <<mem.minTime, mem.maxTime>>
      <4>1. mem.minTime <= EntryMin[p] /\ EntryMax[p] <= mem.maxTime
        BY DEF EnvelopeInv, Enclosed
      <4>2. p \in Paths /\ first[1] = mem.minTime /\ first[2] = mem.maxTime
        BY <1>1, <3>1 DEF Timed
      <4> QED  BY <1>1, <2>1, <2>2, <4>1, <4>2
    <3>2. CASE first # <<mem.minTime, mem.maxTime>>
      <4>1. ~idIssued
        BY <3>2 DEF FirstBounds
      <4> QED  BY <4>1 DEF EnvelopeInv, Timed
    <3> QED  BY <3>1, <3>2
  <2> QED  BY <2>1, <2>3 DEF Timed
<1>5. \A p \in Timed(kept) : newLow <= EntryMin[p]
  BY <1>3, <1>4 DEF LowAfterRm, Least, Timed
<1>6. \A p \in Timed(kept) : EntryMax[p] <= newHigh
  BY <1>3, <1>4 DEF HighAfterRm, Greatest, Timed
<1>7. mem'.files = kept /\ mem'.minTime = newLow /\ mem'.maxTime = newHigh
  BY <1>3
<1> QED  BY <1>5, <1>6, <1>7 DEF Enclosed

\* Every step keeps the bounds of memory, snapshot and file around their files.
LEMMA EnvelopeStep ==
  ASSUME TypeOK, EnvelopeInv, [Next]_vars
  PROVE  EnvelopeInv'
<1> USE DEF loopVars
<1>1. CASE UNCHANGED <<mem, idIssued, snap, disk>>
  BY <1>1 DEF EnvelopeInv, Enclosed
<1>2. ASSUME NEW r \in Requests, Batch(r[1], r[2])
      PROVE  EnvelopeInv'
  <2>1. r[1] \in SUBSET Paths /\ r[2] \in SUBSET Paths
    BY FilesAssumption
  <2>2. CASE UNCHANGED <<mem, idIssued>>
    BY <1>1, <1>2, <2>2 DEF Batch
  <2>3. CASE ApplyBatch(r[1], r[2])
    <3>1. Enclosed(mem)'
      BY <2>1, <2>3, ApplyBatchEncloses
    <3>2. (~idIssued => mem.files = {})'
      <4>1. mem'.files = (mem.files \cup r[1]) \ r[2] /\ idIssued' = (idIssued \/ r[1] # {})
        BY <2>3 DEF ApplyBatch
      <4> QED  BY <4>1 DEF EnvelopeInv
    <3> QED  BY <1>2, <3>1, <3>2 DEF Batch, EnvelopeInv, Enclosed
  <2> QED  BY <1>2, <2>2, <2>3 DEF Batch, AnswerNow
<1>3. ASSUME NEW p \in Paths, RmFromDropQueue(p)
      PROVE  EnvelopeInv'
  <2>1. mem'.files = mem.files /\ mem'.minTime = mem.minTime /\ mem'.maxTime = mem.maxTime
    BY <1>3 DEF RmFromDropQueue, TypeOK, MemRecord
  <2> QED  BY <1>3, <2>1 DEF RmFromDropQueue, EnvelopeInv, Enclosed
<1>4. CASE FlushBegin
  BY <1>4 DEF FlushBegin, EnvelopeInv, Enclosed, Persisted
<1>5. CASE FlushRename
  BY <1>5 DEF FlushRename, EnvelopeInv, Enclosed
<1>6. CASE Crash
  BY <1>6 DEF Crash, EnvelopeInv, Enclosed, Reloaded, EmptyDisk, IdRestored, Timed
<1> QED
  BY <1>1, <1>2, <1>3, <1>4, <1>5, <1>6
     DEF Next, Flusher, GetMergePlan, EndMerge, AnswerNow, FlushFail, FlushReply, FlushEnd,
         Stop, LoopExit, vars

\* The bounds written to metadata.json enclose every file listed there
\* whose MinTime is known.
THEOREM BoundsEnclose ==
  Spec => []TimeEnvelope
<1>1. EnvelopeInv => TimeEnvelope
  BY DEF EnvelopeInv, TimeEnvelope
<1> QED  BY <1>1, TypeInit, TypeStep, EnvelopeInit, EnvelopeStep, PTL DEF Spec

NoneAgain == \A i \in DOMAIN calls : ~calls[i].again
RowInv ==
  NoneAgain => /\ mem.rowCount = Cardinality(mem.files)
               /\ snap.rowCount = Cardinality(snap.files)
               /\ disk.rowCount = Cardinality(disk.files)

\* An empty partition counts no rows.
LEMMA RowInit ==
  Init => RowInv
BY FS_EmptySet DEF Init, RowInv, Reloaded, EmptyDisk

\* rm() counts exactly the files that were in the map.
LEMMA ApplyBatchCounts ==
  ASSUME TypeOK, NEW add \in SUBSET Paths, NEW rm \in SUBSET Paths,
         ApplyBatch(add, rm), add \cap mem.files = {},
         mem.rowCount = Cardinality(mem.files)
  PROVE  mem'.rowCount = Cardinality(mem'.files)
<1> DEFINE indexed == mem.files \cup add
           removed == Removed(rm, indexed)
           kept    == indexed \ rm
<1>1. mem.files \subseteq Paths
  BY DEF TypeOK, MemRecord
<1>2. IsFiniteSet(mem.files) /\ IsFiniteSet(add) /\ IsFiniteSet(indexed) /\ IsFiniteSet(rm)
  BY <1>1, FilesAssumption, FS_Subset
<1>3. mem'.files = kept
      /\ mem'.rowCount = mem.rowCount + Cardinality(add) - Cardinality(removed)
  BY DEF ApplyBatch
<1>4. Cardinality(indexed) = Cardinality(mem.files) + Cardinality(add)
  <2>1. mem.files \cap add = {} /\ Cardinality(mem.files \cap add) = 0
    BY FS_EmptySet
  <2> HIDE DEF indexed
  <2>2. Cardinality(mem.files \cup add)
          = Cardinality(mem.files) + Cardinality(add) - Cardinality(mem.files \cap add)
    BY <1>2, FS_Union
  <2>3. Cardinality(mem.files) \in Nat /\ Cardinality(add) \in Nat
    BY <1>2, FS_CardinalityType
  <2> QED  BY <2>1, <2>2, <2>3 DEF indexed
<1>5. Cardinality(kept) = Cardinality(indexed) - Cardinality(indexed \cap rm)
  BY <1>2, FS_Difference
<1>6. removed = indexed \cap rm
  BY DEF Removed
<1>7. /\ Cardinality(mem.files) \in Nat /\ Cardinality(add) \in Nat
      /\ Cardinality(removed) \in Nat
  <2>1. IsFiniteSet(removed)
    BY <1>2, <1>6, FS_Intersection
  <2> QED  BY <1>2, <2>1, FS_CardinalityType
<1> HIDE DEF indexed, removed, kept
<1> QED  BY <1>3, <1>4, <1>5, <1>6, <1>7

\* Every step keeps the counters of memory, snapshot and file exact.
LEMMA RowStep ==
  ASSUME TypeOK, RowInv, [Next]_vars
  PROVE  RowInv'
<1> USE DEF loopVars
<1>0. calls \in Seq(CallRecord)
  BY DEF TypeOK
<1>1. ASSUME NEW c \in CallRecord, calls' = Append(calls, c)
      PROVE  NoneAgain' => NoneAgain /\ ~c.again
  BY <1>0, <1>1, LogType DEF NoneAgain
<1>2. ASSUME NEW r \in Requests, Batch(r[1], r[2])
      PROVE  RowInv'
  <2> DEFINE again == r[1] \cap mem.files # {}
             c(queued) == Call("batch", r[1], r[2], queued, again)
  <2>1. r[1] \in SUBSET Paths /\ r[2] \in SUBSET Paths
    BY FilesAssumption
  <2>2. c(TRUE) \in CallRecord /\ c(FALSE) \in CallRecord /\ c(TRUE).again = again
    BY <2>1, CallType DEF Call
  <2> HIDE DEF c
  <2>3. CASE AnswerNow(c(FALSE)) /\ UNCHANGED <<loopVars, disk>>
    BY <1>1, <2>2, <2>3 DEF AnswerNow, RowInv
  <2>4. CASE ApplyBatch(r[1], r[2]) /\ Queue(c(TRUE)) /\ UNCHANGED <<loopVars, disk>>
    <3>1. NoneAgain' => NoneAgain /\ r[1] \cap mem.files = {}
      BY <1>1, <2>2, <2>4 DEF Queue
    <3>2. NoneAgain' => mem'.rowCount = Cardinality(mem'.files)
      BY <2>1, <2>4, <3>1, ApplyBatchCounts DEF RowInv
    <3> QED  BY <2>4, <3>1, <3>2 DEF RowInv
  <2> QED  BY <1>2, <2>3, <2>4 DEF Batch, c
<1>3. ASSUME NEW p \in Paths, RmFromDropQueue(p)
      PROVE  RowInv'
  <2>1. mem'.files = mem.files /\ mem'.rowCount = mem.rowCount
    BY <1>3 DEF RmFromDropQueue, TypeOK, MemRecord
  <2>2. Call("drop", {}, {}, TRUE, FALSE) \in CallRecord
    BY CallType
  <2> QED  BY <1>1, <1>3, <2>1, <2>2 DEF RmFromDropQueue, Queue, RowInv
<1>4. ASSUME NEW w \in Workers, EndMerge(w)
      PROVE  RowInv'
  <2>1. \A queued \in BOOLEAN : Call("merge", {}, {}, queued, FALSE) \in CallRecord
    BY CallType
  <2> QED  BY <1>1, <1>4, <2>1 DEF EndMerge, Queue, AnswerNow, RowInv
<1>5. CASE UNCHANGED <<mem, snap, disk, calls>>
  BY <1>5 DEF RowInv, NoneAgain
<1>6. CASE FlushBegin
  BY <1>6 DEF FlushBegin, RowInv, NoneAgain, Persisted
<1>7. CASE FlushRename
  BY <1>7 DEF FlushRename, RowInv, NoneAgain
<1>8. CASE FlushReply
  <2>1. PICK i \in held : calls' = [calls EXCEPT ![i].res = outcome]
    BY <1>8 DEF FlushReply, Least
  <2>2. \A j \in DOMAIN calls : j \in DOMAIN calls' /\ calls'[j].again = calls[j].again
    BY <1>0, <2>1 DEF CallRecord, TypeOK
  <2> QED  BY <1>8, <2>2 DEF FlushReply, RowInv, NoneAgain
<1>9. CASE Crash
  <2>1. \A j \in DOMAIN calls : j \in DOMAIN calls' /\ calls'[j].again = calls[j].again
    BY <1>0, <1>9 DEF Crash, CallRecord
  <2> QED  BY <1>9, <2>1, FS_EmptySet DEF Crash, RowInv, NoneAgain, Reloaded, EmptyDisk
<1> QED
  BY <1>2, <1>3, <1>4, <1>5, <1>6, <1>7, <1>8, <1>9
     DEF Next, Flusher, GetMergePlan, FlushFail, FlushEnd, Stop, LoopExit, vars

\* While no file is added twice, row_count is the number of rows of the files
\* listed, in memory and in metadata.json.
THEOREM RowCountCorrect ==
  Spec => []RowCountExact
<1>1. RowInv => RowCountExact
  BY DEF RowInv, NoneAgain, RowCountExact
<1> QED  BY <1>1, TypeInit, TypeStep, RowInit, RowStep, PTL DEF Spec
=============================================================================
