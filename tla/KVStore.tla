------------------------------- MODULE KVStore -------------------------------
(***************************************************************************)
(* What a KVStoreIndex of types.go promises to its callers: Put and Delete *)
(* return without an error only when the change is in the store, and what  *)
(* is in the store is only ever replaced by a later change.                *)
(*                                                                         *)
(* Abstractions.  The calls of Put and Delete are numbered in the order in *)
(* which they took effect in memory; the value of a key is the number of   *)
(* the last call that changed it, 0 when there was none.                   *)
(***************************************************************************)
EXTENDS Integers, Sequences

CONSTANTS
  Keys,
  MaxWrites    \* bound: calls of Put and Delete

VARIABLES
  calls,   \* the key and the result of every call
  cache,   \* what Get reads
  store,   \* what survives a crash
  alive    \* the calls since the store was opened

vars == <<calls, cache, store, alive>>

Init ==
  /\ calls = <<>>
  /\ cache = [k \in Keys |-> 0]
  /\ store = [k \in Keys |-> 0]
  /\ alive = {}

Write(k) ==
  /\ Len(calls) < MaxWrites
  /\ calls' = Append(calls, [key |-> k, res |-> "pending"])
  /\ cache' = [cache EXCEPT ![k] = Len(calls) + 1]
  /\ alive' = alive \cup {Len(calls) + 1}
  /\ UNCHANGED store

\* The store moves on: each key keeps its value or takes that of a later call.
Later(k) == {n \in alive : calls[n].key = k /\ n > store[k]}
Save ==
  /\ store' \in [Keys -> 0 .. Len(calls)]
  /\ \A k \in Keys : store'[k] \in {store[k]} \cup Later(k)
  /\ UNCHANGED <<calls, cache, alive>>

Answer(n) ==
  /\ calls[n].res = "pending"
  /\ \E res \in {"ok", "err"} :
       /\ res = "ok" => store[calls[n].key] >= n
       /\ calls' = [calls EXCEPT ![n].res = res]
  /\ UNCHANGED <<cache, store, alive>>

\* The process dies with its callers.
Crash ==
  /\ calls' = [n \in DOMAIN calls |->
                 IF calls[n].res = "pending" THEN [calls[n] EXCEPT !.res = "lost"] ELSE calls[n]]
  /\ cache' = store
  /\ alive' = {}
  /\ UNCHANGED store

Next ==
  \/ \E k \in Keys : Write(k)
  \/ Save
  \/ \E n \in DOMAIN calls : Answer(n)
  \/ Crash

Spec == Init /\ [][Next]_vars

-----------------------------------------------------------------------------

CallRecord == [key : Keys, res : {"pending", "ok", "err", "lost"}]

\* The shape of the state: the value of a key is a call about that key.
TypeOK ==
  /\ calls \in Seq(CallRecord)
  /\ cache \in [Keys -> Nat] /\ store \in [Keys -> Nat]
  /\ \A k \in Keys : \A n \in {cache[k], store[k]} :
       n # 0 => n \in DOMAIN calls /\ calls[n].key = k
  /\ alive \subseteq DOMAIN calls

\* A Put or Delete that returned without an error is in the store, unless a later
\* call about its key replaced it; a crash does not take it back.
Durable ==
  \A n \in DOMAIN calls : calls[n].res = "ok" => store[calls[n].key] >= n

\* A call that a crash took away, which its caller may have repeated, does not
\* reach the store later.
LostStaysLost ==
  [][\A k \in Keys :
       store'[k] # store[k] /\ store'[k] # 0 => calls'[store'[k]].res # "lost"]_vars
=============================================================================
