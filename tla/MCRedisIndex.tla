---------------------------- MODULE MCRedisIndex ----------------------------
(* Small instances of RedisIndex.  Files of the first iteration are merged *)
(* in l0 and the results thrown away by the next mover; in l1 they are     *)
(* moved to l2; there they are merged and stay.  a and b share an hour,    *)
(* where b ends and a goes on in the next one; c is a day later.           *)
EXTENDS RedisIndex, TLC

CONSTANTS a, b, c, l0, l1, l2, none

New(r) == [rows |-> {r}, uid |-> 0, iteration |-> 1, layer |-> l1]
Batch(add, rm) == [add |-> add, rm |-> rm]

MCHome == [r \in Rows |-> IF r = c THEN 5 ELSE 2]
MCMinTime == [r \in Rows |-> CASE r = a -> 5 [] r = b -> 4 [] r = c -> 11]
MCMaxTime == [r \in Rows |-> CASE r = a -> 6 [] r = b -> 4 [] r = c -> 12]
MCLayerTo == [l \in Layers |-> CASE l = l0 -> l1 [] l = l1 -> l2 [] OTHER -> none]
MCMoveTtl == [l \in Layers |-> CASE l = l0 -> 4 [] l = l1 -> 2 [] OTHER -> 0]
MCMergeTtl == <<3>>
MCMaxPlan == <<2>>
Faults(repeat, fail, redeliver) ==
  [repeat |-> repeat, fail |-> fail, redeliver |-> redeliver]

Kept(r) == [New(r) EXCEPT !.layer = l2]

Together == <<Batch(<<Kept(a), Kept(b)>>, <<>>)>>
Apart == <<Batch(<<Kept(a)>>, <<>>), Batch(<<Kept(b)>>, <<>>)>>
\* One of the files goes, maybe before it came.
Hasty == <<Batch(<<Kept(a), Kept(b)>>, <<>>), Batch(<<>>, <<Kept(a)>>)>>
\* Both move and are merged.
Moving == <<Batch(<<New(a), New(b)>>, <<>>)>>
\* They are merged, and the task that moves the result has no time.
Losing == <<Batch(<<[New(a) EXCEPT !.layer = l0], [New(b) EXCEPT !.layer = l0]>>, <<>>)>>
\* The second entry is of a layer that is not configured.
Partial == <<Batch(<<Kept(a), [New(b) EXCEPT !.layer = NoLayer], Kept(c)>>, <<>>)>>
\* A file is rewritten, under a name without an iteration.
Rewriting == <<Batch(<<Kept(a), Kept(c)>>, <<>>),
               Batch(<<[Kept(a) EXCEPT !.uid = -1, !.iteration = 0]>>, <<Kept(a)>>)>>

MCScenarios ==
  [calls : {Apart, Hasty}, faults : {Faults(1, 0, 0)}]
    \cup [calls : {Together}, faults : {Faults(1, 0, 1)}]
    \cup [calls : {Apart, Losing}, faults : {Faults(0, 1, 1)}]
    \cup [calls : {Moving}, faults : {Faults(0, 1, 0), Faults(0, 0, 1)}]
    \cup [calls : {Partial, Rewriting}, faults : {Faults(0, 0, 0)}]

MCRanges ==
  [after : {3, 5, 6, 11}, before : {4, 9, 11, 13}, zone : {-3, 0, 3}]
    \cup [after : {0}, before : {0, 4, 9, 11}, zone : {0}]
    \cup [after : {3, 5, 6, 11}, before : {0}, zone : {0}]
MCSymmetry == Permutations(Workers)
=============================================================================
