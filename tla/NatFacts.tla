------------------------------ MODULE NatFacts ------------------------------
(***************************************************************************)
(* Natural numbers: least and greatest elements of sets of them, for the    *)
(* proofs about operators that CHOOSE one (the newest job, the next         *)
(* descriptor), and induction and recursion stated with sets and functions, *)
(* for the proofs about recursive functions.                                *)
(***************************************************************************)
EXTENDS Naturals, WellFoundedInduction, TLAPS

(* Every nonempty set of naturals has a least element. *)
LEMMA LeastExists ==
  ASSUME NEW S \in SUBSET Nat, S # {}
  PROVE  \E m \in S : \A x \in S : m <= x
<1>. DEFINE R == OpToRel(<, Nat)
<1>1. IsWellFoundedOn(R, Nat)
  BY NatLessThanWellFounded
<1>2. PICK m \in S : \A x \in S : <<x, m>> \notin R
  BY <1>1, WFMin
<1>3. R = {p \in Nat \X Nat : p[1] < p[2]}
  BY DEF OpToRel
<1>. HIDE DEF R
<1>4. ASSUME NEW x \in S
      PROVE  m <= x
  <2>1. <<x, m>> \notin {p \in Nat \X Nat : p[1] < p[2]}
    BY <1>2, <1>3
  <2>2. ~(x < m)
    BY <2>1
  <2>. QED
    BY <2>2
<1>. QED
  BY <1>4

(* Every nonempty set of naturals below a bound has a greatest element. *)
LEMMA GreatestExists ==
  ASSUME NEW N \in Nat, NEW S \in SUBSET (0 .. N), S # {}
  PROVE  \E m \in S : \A x \in S : x <= m
<1>. DEFINE T == {n \in Nat : \E x \in S : n + x = N}
<1>1. PICK t \in T : \A y \in T : t <= y
  <2>1. T \in SUBSET Nat /\ T # {}
    <3>1. PICK x \in S : TRUE
      OBVIOUS
    <3>2. N - x \in Nat /\ (N - x) + x = N
      OBVIOUS
    <3>. QED
      BY <3>2
  <2>. HIDE DEF T
  <2>. QED
    BY <2>1, LeastExists
<1>2. PICK m \in S : t + m = N
  OBVIOUS
<1>3. ASSUME NEW x \in S
      PROVE  x <= m
  <2>1. N - x \in T
    <3>1. N - x \in Nat /\ (N - x) + x = N
      OBVIOUS
    <3>. QED
      BY <3>1
  <2>2. t <= N - x
    BY <2>1, <1>1
  <2>. QED
    BY <2>2, <1>2
<1>. QED
  BY <1>3

(* Induction: a set that holds 0 and with every number its successor holds  *)
(* all natural numbers.                                                     *)
LEMMA Induction ==
  ASSUME NEW S, 0 \in S, \A n \in Nat : n \in S => n + 1 \in S
  PROVE  Nat \subseteq S
<1>. SUFFICES ASSUME Nat \ S # {}
              PROVE  FALSE
  OBVIOUS
<1>1. PICK m \in Nat \ S : \A x \in Nat \ S : m <= x
  BY LeastExists
<1>2. m - 1 \in Nat /\ (m - 1) + 1 = m /\ ~(m <= m - 1)
  OBVIOUS
<1>. QED
  BY <1>1, <1>2

(***************************************************************************)
(* Recursion: a first value and a step from each value to the next          *)
(* determine a function.  RecursiveUpTo(g, n) says that g is one up to n.   *)
(***************************************************************************)
RecursiveUpTo(g, n, V, first, step) ==
  /\ g \in [0 .. n -> V]
  /\ g[0] = first
  /\ \A i \in 0 .. (n - 1) : g[i + 1] = step[<<i, g[i]>>]

LEMMA RecursiveUnique ==
  ASSUME NEW V, NEW first \in V, NEW step \in [Nat \X V -> V],
         NEW m \in Nat, NEW n \in Nat, NEW g, NEW h,
         RecursiveUpTo(g, m, V, first, step), RecursiveUpTo(h, n, V, first, step)
  PROVE  \A i \in Nat : i <= m /\ i <= n => g[i] = h[i]
<1>. DEFINE S == {i \in Nat : i <= m /\ i <= n => g[i] = h[i]}
<1>1. 0 \in S
  BY DEF RecursiveUpTo
<1>2. ASSUME NEW i \in Nat, i \in S
      PROVE  i + 1 \in S
  <2>. SUFFICES ASSUME i + 1 <= m, i + 1 <= n
                PROVE  g[i + 1] = h[i + 1]
    OBVIOUS
  <2>1. i \in 0 .. (m - 1) /\ i \in 0 .. (n - 1) /\ i <= m /\ i <= n
    OBVIOUS
  <2>2. g[i] = h[i]
    BY <1>2, <2>1
  <2>. QED
    BY <2>1, <2>2 DEF RecursiveUpTo
<1>. HIDE DEF S
<1>3. Nat \subseteq S
  BY <1>1, <1>2, Induction
<1>. QED
  BY <1>3 DEF S

LEMMA RecursiveExists ==
  ASSUME NEW V, NEW first \in V, NEW step \in [Nat \X V -> V]
  PROVE  \A n \in Nat : \E g : RecursiveUpTo(g, n, V, first, step)
<1>. DEFINE S == {n \in Nat : \E g : RecursiveUpTo(g, n, V, first, step)}
<1>1. 0 \in S
  <2>. DEFINE g == [i \in 0 .. 0 |-> first]
  <2>1. RecursiveUpTo(g, 0, V, first, step)
    BY DEF RecursiveUpTo
  <2>. QED
    BY <2>1
<1>2. ASSUME NEW n \in Nat, n \in S
      PROVE  n + 1 \in S
  <2>1. PICK g : RecursiveUpTo(g, n, V, first, step)
    BY <1>2
  <2>. DEFINE h == [i \in 0 .. (n + 1) |-> IF i <= n THEN g[i] ELSE step[<<n, g[n]>>]]
  <2>2. g[n] \in V /\ step[<<n, g[n]>>] \in V
    BY <2>1 DEF RecursiveUpTo
  <2>3. h \in [0 .. (n + 1) -> V]
    BY <2>1, <2>2 DEF RecursiveUpTo
  <2>4. h[0] = first
    BY <2>1 DEF RecursiveUpTo
  <2>5. ASSUME NEW i \in 0 .. ((n + 1) - 1)
        PROVE  h[i + 1] = step[<<i, h[i]>>]
    <3>1. CASE i = n
      BY <3>1
    <3>2. CASE i # n
      <4>1. i \in 0 .. (n - 1) /\ i + 1 \in 0 .. (n + 1) /\ i \in 0 .. (n + 1) /\ i + 1 <= n /\ i <= n
        BY <3>2
      <4>2. g[i + 1] = step[<<i, g[i]>>]
        BY <4>1, <2>1 DEF RecursiveUpTo
      <4>. QED
        BY <4>1, <4>2
    <3>. QED
      BY <3>1, <3>2
  <2>6. RecursiveUpTo(h, n + 1, V, first, step)
    BY <2>3, <2>4, <2>5 DEF RecursiveUpTo
  <2>. QED
    BY <2>6
<1>. HIDE DEF S
<1>3. Nat \subseteq S
  BY <1>1, <1>2, Induction
<1>. QED
  BY <1>3 DEF S

Recursive(f, V, first, step) ==
  /\ f \in [Nat -> V]
  /\ f[0] = first
  /\ \A n \in Nat : f[n + 1] = step[<<n, f[n]>>]

LEMMA Recursion ==
  ASSUME NEW V, NEW first \in V, NEW step \in [Nat \X V -> V]
  PROVE  \E f : Recursive(f, V, first, step)
<1>. DEFINE upto(n) == CHOOSE g : RecursiveUpTo(g, n, V, first, step)
            f == [n \in Nat |-> upto(n)[n]]
<1>1. ASSUME NEW n \in Nat
      PROVE  RecursiveUpTo(upto(n), n, V, first, step)
  BY RecursiveExists
<1>. HIDE DEF upto
<1>2. ASSUME NEW n \in Nat
      PROVE  f[n] \in V
  BY <1>1 DEF RecursiveUpTo
<1>3. f[0] = first
  BY <1>1 DEF RecursiveUpTo
<1>4. ASSUME NEW n \in Nat
      PROVE  f[n + 1] = step[<<n, f[n]>>]
  <2>1. upto(n + 1)[n + 1] = step[<<n, upto(n + 1)[n]>>]
    BY <1>1, n \in 0 .. ((n + 1) - 1) DEF RecursiveUpTo
  <2>2. upto(n + 1)[n] = upto(n)[n]
    <3>. PICK m \in Nat : m = n + 1
      OBVIOUS
    <3>. PICK g : g = upto(n)
      OBVIOUS
    <3>. PICK h : h = upto(m)
      OBVIOUS
    <3>1. RecursiveUpTo(g, n, V, first, step) /\ RecursiveUpTo(h, m, V, first, step)
      BY <1>1
    <3>2. \A i \in Nat : i <= n /\ i <= m => g[i] = h[i]
      BY <3>1, RecursiveUnique
    <3>3. h[n] = g[n]
      BY <3>2
    <3>. QED
      BY <3>3
  <2>. QED
    BY <2>1, <2>2
<1>. QED
  BY <1>2, <1>3, <1>4 DEF Recursive
=============================================================================
