--------------------------- MODULE MCJsonPartIndex ---------------------------
(* Small instances of JsonPartIndex: three files with overlapping time     *)
(* ranges, the MinTime of p2 unknown; p3 is also the merge of p1 and p2.   *)
EXTENDS JsonPartIndex

CONSTANTS p1, p2, p3

MCPaths == {p1, p2, p3}
MCMin == [p \in MCPaths |-> CASE p = p1 -> 1 [] p = p2 -> 0 [] OTHER -> 3]
MCMax == [p \in MCPaths |-> CASE p = p1 -> 5 [] p = p2 -> 7 [] OTHER -> 6]
MCSize == [p \in MCPaths |-> IF p = p3 THEN 3 ELSE 2]
MCIteration == [p \in MCPaths |-> 1]
MCMaxSize == <<3>>

\* A writer adds a file or two, a file leaves, a merge replaces two files.
MCRequests == {<<{p1}, {}>>, <<{p1, p2}, {}>>, <<{}, {p1}>>, <<{p3}, {p1, p2}>>}
\* One file comes and goes.
MCOneFile == {<<{p1}, {}>>, <<{}, {p1}>>}
\* Files to merge, two of which leave meanwhile.
MCMerging == {<<MCPaths, {}>>, <<{}, {p1, p2}>>}
=============================================================================
