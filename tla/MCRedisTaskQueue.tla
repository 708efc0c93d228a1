--------------------------- MODULE MCRedisTaskQueue ---------------------------
(* Small instances of RedisTaskQueue: a merge queue, where f1 and f2 fit   *)
(* in one task and f3 does not; a move queue, whose tasks are due at       *)
(* different times, and move_entry is given a time only when the file      *)
(* could also be merged; and a drop queue, whose tasks are decoded without *)
(* their writer.                                                           *)
EXTENDS RedisTaskQueue

CONSTANTS f1, f2, f3

MCSize == [f \in Files |-> IF f = f3 THEN 2 ELSE 1]
Alike == [f \in Files |-> 1]
Unordered == [f \in Files |-> IF f = f1 THEN 2 ELSE IF f = f2 THEN 0 ELSE NoTime]
Merge(files, deaths, failures) ==
  [files |-> files, maxPlan |-> 2, delay |-> Alike, known |-> TRUE,
   bounds |-> [deaths |-> deaths, failures |-> failures]]
MCQueues ==
  {Merge(Files, 1, 0), Merge(Files, 0, 1), Merge({f1, f3}, 1, 1),
   [files |-> Files, maxPlan |-> 0, delay |-> Unordered, known |-> TRUE,
    bounds |-> [deaths |-> 0, failures |-> 0]],
   [files |-> {f1}, maxPlan |-> 0, delay |-> Alike, known |-> FALSE,
    bounds |-> [deaths |-> 1, failures |-> 1]]}
=============================================================================
