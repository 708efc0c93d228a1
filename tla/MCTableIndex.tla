---------------------------- MODULE MCTableIndex ----------------------------
(* Small instances of TableIndex: two layers of the JSON index and one of  *)
(* the S3 index, two files in different hours, of which one goes on in the *)
(* next hour, and the scenarios: a file that is moved twice while a query  *)
(* runs; a Batch over both backends and one over a layer that is not       *)
(* configured, with a query; moves with a failure and a crash; Get and     *)
(* Stop; a query with a failure and a crash.                               *)
EXTENDS TableIndex

CONSTANTS a, b, m1, m2

MCLayers == <<"hot", "warm", "cold">>
MCLayerType == [hot |-> "fs", warm |-> "fs", cold |-> "s3"]
MCData == {a, b}
MCAt == [d \in MCData |-> IF d = a THEN 2 ELSE 5]
MCUntil == [d \in MCData |-> IF d = a THEN 2 ELSE 6]
MCOptions == {[after |-> 0, before |-> 0], [after |-> 2, before |-> 5], [after |-> 3, before |-> 0],
              [after |-> 6, before |-> 0]}

AddOne == <<{<<"hot", a>>}, {}>>
AddTwo == <<{<<"hot", a>>, <<"cold", b>>}, {}>>
Across == <<{<<"lost", a>>}, {<<"hot", a>>}>>
Scenario(rs, gets, n) ==
  [requests |-> rs, reads |-> gets, movers |-> {m1}, calls |-> n[1], queries |-> n[2],
   failures |-> n[3], crashes |-> n[4], stops |-> n[5]]
S1 == Scenario({AddOne}, {}, <<5, 1, 0, 0, 0>>)
S2 == Scenario({AddTwo, Across}, {}, <<2, 1, 0, 0, 0>>)
S3 == Scenario({AddTwo}, {}, <<5, 0, 1, 1, 0>>)
S4 == Scenario({AddTwo, Across}, {<<"cold", a>>}, <<3, 0, 1, 0, 1>>)
S5 == Scenario({AddOne}, {}, <<1, 1, 1, 1, 0>>)
\* two partitions of a layer, of which one or both cannot be opened or saved
S6 == Scenario({<<{<<"hot", a>>, <<"hot", b>>}, {}>>}, {}, <<2, 0, 2, 0, 0>>)
\* two movers, which may be given the same file
S7 == [Scenario({AddOne}, {}, <<6, 0, 0, 1, 0>>) EXCEPT !.movers = {m1, m2}]
MCScenarios == {S1, S2, S3, S4, S5, S6, S7}

\* TableOpens: two files of one partition, written one after the other.
OpensAt == [d \in MCData |-> IF d = a THEN 2 ELSE 3]
OpensUntil == OpensAt
OpensScenarios ==
  {[Scenario({AddOne, <<{<<"hot", b>>}, {}>>}, {}, <<2, 1, 0, 0, 0>>) EXCEPT !.movers = {}]}
=============================================================================
