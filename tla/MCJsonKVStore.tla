---------------------------- MODULE MCJsonKVStore ----------------------------
(* Small instances of JsonKVStore: two keys, a few calls.                  *)
EXTENDS JsonKVStore

CONSTANTS k1, k2
=============================================================================
