----------------------------- MODULE MCS3KVStore -----------------------------
(* Small instances of S3KVStore: two processes and two keys, which are      *)
(* interchangeable.                                                        *)
EXTENDS S3KVStore, TLC

CONSTANTS w1, w2, k1, k2

MCSymmetry == Permutations(Writers) \cup Permutations(Keys)
=============================================================================
