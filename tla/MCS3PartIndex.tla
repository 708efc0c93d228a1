---------------------------- MODULE MCS3PartIndex ----------------------------
(* Small instances of S3PartIndex: one or two processes, where p3 is also   *)
(* the merge of p1 and p2.                                                 *)
EXTENDS S3PartIndex

CONSTANTS w1, w2, p1, p2, p3

\* A file comes, a file leaves, a merge replaces two files.
MCRequests == {<<{p1}, {}>>, <<{p2}, {}>>, <<{}, {p1}>>, <<{p3}, {p1, p2}>>}
\* A file comes, another one takes its place.
MCReplaces == {<<{p1}, {}>>, <<{p2}, {p1}>>}
\* Every call adds a file.
MCAdds == {<<{p1}, {}>>, <<{p2}, {}>>}

MCThree == [w \in Writers |-> 3]
\* One process with a call against one with several.
MCUneven == [w \in Writers |-> IF w = w1 THEN 1 ELSE 3]
=============================================================================
