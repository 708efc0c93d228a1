----------------------------- MODULE DataLemmas -----------------------------
(* What the proofs need of logs of calls, which are sequences that grow and *)
(* whose records change, of the least element of a set of numbers, and of   *)
(* division.                                                                *)
EXTENDS Integers, Sequences, FiniteSetsExt, WellFoundedInduction, FiniteSetTheorems, TLAPS

\* A log with one more record keeps the records it had.
LEMMA Appended ==
  ASSUME NEW S, NEW s \in Seq(S), NEW c \in S, NEW t, t = Append(s, c)
  PROVE  /\ t \in Seq(S)
         /\ Len(s) \in Nat /\ Len(t) = Len(s) + 1
         /\ DOMAIN s = 1 .. Len(s) /\ DOMAIN t = DOMAIN s \cup {Len(s) + 1}
         /\ Len(s) + 1 \notin DOMAIN s
         /\ \A n \in DOMAIN s : t[n] = s[n]
         /\ t[Len(s) + 1] = c
<1>1. DOMAIN s = 1 .. Len(s) /\ Len(s) \in Nat
  OBVIOUS
<1>2. t \in Seq(S) /\ Len(t) = Len(s) + 1
  OBVIOUS
<1>3. DOMAIN t = 1 .. Len(t)
  BY <1>2
<1>4. \A n \in DOMAIN s : t[n] = s[n]
  BY <1>1
<1>5. t[Len(s) + 1] = c
  BY <1>1
<1>6. DOMAIN t = DOMAIN s \cup {Len(s) + 1}
  BY <1>1, <1>2, <1>3
<1> QED  BY <1>1, <1>2, <1>4, <1>5, <1>6

\* A log whose records change is as long as before.
LEMMA Updated ==
  ASSUME NEW S, NEW s \in Seq(S), NEW t, DOMAIN t = DOMAIN s,
         t = [n \in DOMAIN s |-> t[n]], \A n \in DOMAIN s : t[n] \in S
  PROVE  t \in Seq(S) /\ Len(t) = Len(s)
<1>1. DOMAIN s = 1 .. Len(s) /\ Len(s) \in Nat
  OBVIOUS
<1>2. t \in [1 .. Len(s) -> S]
  BY <1>1
<1> QED  BY <1>1, <1>2

\* The pairs of natural numbers in their order.
Below == {p \in Nat \X Nat : p[1] < p[2]}

\* A set of natural numbers that is not empty has a least element.
LEMMA MinIn ==
  ASSUME NEW S \in SUBSET Nat, S # {}
  PROVE  Min(S) \in S /\ \A y \in S : Min(S) <= y
<1>1. IsWellFoundedOn(Below, Nat)
  BY NatLessThanWellFounded DEF OpToRel, Below
<1>2. PICK x \in S : \A y \in S : ~(<<y, x>> \in Below)
  BY <1>1, WFMin
<1>3. ASSUME NEW y \in S PROVE x <= y
  <2>1. <<y, x>> \in Nat \X Nat /\ <<y, x>> \notin Below
    BY <1>2
  <2> QED  BY <2>1 DEF Below
<1> QED  BY <1>3 DEF Min

\* Induction up to n: what holds of 0, and of i + 1 whenever it holds of i, holds of
\* all of 0 .. n.
LEMMA Induct ==
  ASSUME NEW n \in Nat, NEW G, 0 \in G, \A i \in 0 .. n - 1 : i \in G => i + 1 \in G
  PROVE  0 .. n \subseteq G
<1> DEFINE Bad == {i \in 0 .. n : i \notin G}
<1> SUFFICES ASSUME Bad # {} PROVE FALSE
  OBVIOUS
<1>1. Bad \in SUBSET Nat
  OBVIOUS
<1>2. PICK m \in Bad : \A y \in Bad : m <= y
  <2> HIDE DEF Bad
  <2> QED  BY <1>1, MinIn
<1>3. m \in 0 .. n /\ m \notin G /\ m # 0
  BY <1>2
<1>4. m - 1 \in 0 .. n - 1 /\ m - 1 \notin Bad
  <2>1. m - 1 \in 0 .. n - 1
    BY <1>3
  <2>2. m - 1 \notin Bad
    <3> HIDE DEF Bad
    <3> QED  BY <1>2, <1>3
  <2> QED  BY <2>1, <2>2
<1>5. (m - 1) + 1 \in G
  BY <1>4
<1> QED  BY <1>3, <1>5

-----------------------------------------------------------------------------
\* Division: the quotient and the remainder.
LEMMA Divided ==
  ASSUME NEW t \in Nat, NEW n \in Nat \ {0}
  PROVE  t \div n \in Nat /\ t % n \in 0 .. n - 1 /\ t = n * (t \div n) + (t % n)
OBVIOUS

\* They are the only ones.
LEMMA DividedIs ==
  ASSUME NEW q \in Nat, NEW n \in Nat \ {0}, NEW r \in 0 .. n - 1
  PROVE  (n * q + r) \div n = q
OBVIOUS

\* Division keeps the order.
LEMMA DividedOrder ==
  ASSUME NEW a \in Nat, NEW b \in Nat, NEW n \in Nat \ {0}, a <= b
  PROVE  a \div n <= b \div n
OBVIOUS

\* So does multiplication.
LEMMA TimesOrder ==
  ASSUME NEW a \in Nat, NEW b \in Nat, NEW n \in Nat, a <= b
  PROVE  n * a <= n * b
OBVIOUS
=============================================================================
