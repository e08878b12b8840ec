-------------------------- MODULE LineEditorProofs --------------------------
(***************************************************************************)
(* Proofs about module LineEditor, for any keyboard, history and answers   *)
(* of the completion, and a console of any size.                           *)
(***************************************************************************)
EXTENDS LineEditor, NatFacts, SequenceTheorems

-----------------------------------------------------------------------------
(***************************************************************************)
(* Greatest elements, and folds of sequences, which are defined by         *)
(* recursion over the sets of their positions.                             *)
(***************************************************************************)
LEMMA MaxOfTwo == \A a, b \in Int : Max({a, b}) = IF a >= b THEN a ELSE b
<1>. SUFFICES ASSUME NEW a \in Int, NEW b \in Int
              PROVE  Max({a, b}) = IF a >= b THEN a ELSE b
  OBVIOUS
<1>. DEFINE m == IF a >= b THEN a ELSE b
<1>1. m \in {a, b} /\ \A y \in {a, b} : m >= y
  OBVIOUS
<1>2. \A x \in {a, b} : (\A y \in {a, b} : x >= y) => x = m
  OBVIOUS
<1>. HIDE DEF m
<1>3. Max({a, b}) = m
  BY <1>1, <1>2 DEF Max
<1>. QED
  BY <1>3 DEF m

LEMMA MinOfTwo == \A a, b \in Int : Min({a, b}) = IF a <= b THEN a ELSE b
<1>. SUFFICES ASSUME NEW a \in Int, NEW b \in Int
              PROVE  Min({a, b}) = IF a <= b THEN a ELSE b
  OBVIOUS
<1>. DEFINE m == IF a <= b THEN a ELSE b
<1>1. m \in {a, b} /\ \A y \in {a, b} : m <= y
  OBVIOUS
<1>2. \A x \in {a, b} : (\A y \in {a, b} : x <= y) => x = m
  OBVIOUS
<1>. HIDE DEF m
<1>3. Min({a, b}) = m
  BY <1>1, <1>2 DEF Min
<1>. QED
  BY <1>3 DEF m

LEMMA MaxUpTo ==
  ASSUME NEW n \in Nat, NEW S \in SUBSET (0 .. n), S # {}
  PROVE  Max(S) \in S /\ \A y \in S : Max(S) >= y
<1>1. PICK m \in S : \A y \in S : y <= m
  BY GreatestExists
<1>2. \A y \in S : m >= y
  BY <1>1
<1>. QED
  BY <1>2 DEF Max

LEMMA MaxIs ==
  ASSUME NEW S \in SUBSET Int, NEW m \in S, \A y \in S : m >= y
  PROVE  Max(S) = m
<1>1. \A x \in S : (\A y \in S : x >= y) => x = m
  OBVIOUS
<1>. QED
  BY <1>1 DEF Max

FoldedBy(iter, n, V, base, step) ==
  /\ iter \in [SUBSET (1 .. n) -> V]
  /\ iter = [s \in SUBSET (1 .. n) |-> IF s = {} THEN base ELSE step[<<Max(s), iter[s \ {Max(s)}]>>]]

LEMMA FoldExists ==
  ASSUME NEW V, NEW base \in V, NEW n \in Nat, NEW step \in [Nat \X V -> V]
  PROVE  \E iter : FoldedBy(iter, n, V, base, step)
<1>. DEFINE steps(s) == [p \in Nat \X V |-> IF p[1] + 1 \in s THEN step[<<p[1] + 1, p[2]>>] ELSE p[2]]
            run(s) == CHOOSE g : Recursive(g, V, base, steps(s))
<1>1. ASSUME NEW s
      PROVE  /\ run(s) \in [Nat -> V] /\ run(s)[0] = base
             /\ \A i \in Nat : run(s)[i + 1] = IF i + 1 \in s THEN step[<<i + 1, run(s)[i]>>] ELSE run(s)[i]
  <2>1. steps(s) \in [Nat \X V -> V]
    OBVIOUS
  <2>2. Recursive(run(s), V, base, steps(s))
    <3>. HIDE DEF steps
    <3>. QED
      BY <2>1, Recursion
  <2>. HIDE DEF run
  <2>3. ASSUME NEW i \in Nat
        PROVE  steps(s)[<<i, run(s)[i]>>] = IF i + 1 \in s THEN step[<<i + 1, run(s)[i]>>] ELSE run(s)[i]
    <3>1. run(s)[i] \in V
      BY <2>2 DEF Recursive
    <3>. QED
      BY <3>1
  <2>. HIDE DEF steps
  <2>. PICK g : g = run(s)
    OBVIOUS
  <2>4. g \in [Nat -> V] /\ g[0] = base /\ \A i \in Nat : g[i + 1] = steps(s)[<<i, g[i]>>]
    BY <2>2 DEF Recursive
  <2>5. \A i \in Nat : g[i + 1] = IF i + 1 \in s THEN step[<<i + 1, g[i]>>] ELSE g[i]
    BY <2>4, <2>3
  <2>. QED
    BY <2>4, <2>5
<1>. HIDE DEF run, steps
<1>2. ASSUME NEW s, NEW r, NEW k \in Nat, \A i \in 1 .. k : i \in s <=> i \in r
      PROVE  run(s)[k] = run(r)[k]
  <2>. DEFINE S == {i \in Nat : i <= k => run(s)[i] = run(r)[i]}
  <2>1. 0 \in S
    BY <1>1
  <2>2. ASSUME NEW i \in Nat, i \in S
        PROVE  i + 1 \in S
    <3>. SUFFICES ASSUME i + 1 <= k
                  PROVE  run(s)[i + 1] = run(r)[i + 1]
      OBVIOUS
    <3>1. i + 1 \in 1 .. k /\ run(s)[i] = run(r)[i]
      BY <2>2
    <3>2. i + 1 \in s <=> i + 1 \in r
      BY <3>1, <1>2
    <3>3. run(s)[i + 1] = IF i + 1 \in s THEN step[<<i + 1, run(s)[i]>>] ELSE run(s)[i]
      BY <1>1
    <3>4. run(r)[i + 1] = IF i + 1 \in r THEN step[<<i + 1, run(r)[i]>>] ELSE run(r)[i]
      BY <1>1
    <3>. QED
      BY <3>1, <3>2, <3>3, <3>4
  <2>. HIDE DEF S
  <2>3. Nat \subseteq S
    BY <2>1, <2>2, Induction
  <2>. QED
    BY <2>3 DEF S
<1>3. ASSUME NEW s, NEW m \in Nat, NEW k \in Nat, m <= k, \A i \in s : i <= m
      PROVE  run(s)[k] = run(s)[m]
  <2>. DEFINE S == {i \in Nat : run(s)[m + i] = run(s)[m]}
  <2>1. 0 \in S
    OBVIOUS
  <2>2. ASSUME NEW i \in Nat, i \in S
        PROVE  i + 1 \in S
    <3>1. m + i \in Nat /\ m + (i + 1) = (m + i) + 1 /\ ~((m + i) + 1 <= m)
      OBVIOUS
    <3>2. (m + i) + 1 \notin s
      BY <3>1, <1>3
    <3>3. run(s)[(m + i) + 1] = run(s)[m + i]
      BY <3>1, <3>2, <1>1
    <3>. QED
      BY <3>1, <3>3, <2>2
  <2>. HIDE DEF S
  <2>3. Nat \subseteq S
    BY <2>1, <2>2, Induction
  <2>4. k - m \in Nat /\ m + (k - m) = k
    BY <1>3
  <2>. QED
    BY <2>3, <2>4 DEF S
<1>. DEFINE iter == [s \in SUBSET (1 .. n) |-> run(s)[n]]
<1>4. ASSUME NEW s \in SUBSET (1 .. n), s # {}
      PROVE  iter[s] = step[<<Max(s), iter[s \ {Max(s)}]>>]
  <2>. PICK m : m = Max(s)
    OBVIOUS
  <2>1. m \in s /\ \A i \in s : m >= i
    <3>1. s \in SUBSET (0 .. n)
      OBVIOUS
    <3>. QED
      BY <3>1, <1>4, MaxUpTo
  <2>2. m \in 1 .. n /\ m - 1 \in Nat /\ (m - 1) + 1 = m /\ m <= n /\ m - 1 <= n
    BY <2>1
  <2>. DEFINE r == s \ {m}
  <2>3. r \in SUBSET (1 .. n) /\ \A i \in r : i <= m - 1
    <3>1. \A i \in r : i \in 1 .. n /\ m >= i /\ i # m
      BY <2>1
    <3>2. \A i, j \in Int : j >= i /\ i # j => i <= j - 1
      OBVIOUS
    <3>3. \A i \in r : i <= m - 1
      BY <3>1, <3>2, <2>2
    <3>. QED
      BY <3>3
  <2>4. run(s)[n] = run(s)[m]
    <3>1. \A i \in s : i \in Int /\ i <= m
      BY <2>1
    <3>2. m \in Nat /\ m <= n
      BY <2>2
    <3>. QED
      BY <3>1, <3>2, <1>3
  <2>5. run(s)[m] = step[<<m, run(s)[m - 1]>>]
    BY <2>1, <2>2, <1>1
  <2>6. run(s)[m - 1] = run(r)[m - 1]
    <3>1. \A i \in 1 .. (m - 1) : i \in s <=> i \in r
      BY <2>2
    <3>. HIDE DEF r
    <3>. QED
      BY <3>1, <2>2, <1>2
  <2>7. run(r)[n] = run(r)[m - 1]
    <3>. HIDE DEF r
    <3>. QED
      BY <2>2, <2>3, <1>3
  <2>. HIDE DEF r
  <2>8. iter[s] = step[<<m, iter[r]>>]
    BY <2>3, <2>4, <2>5, <2>6, <2>7
  <2>. QED
    BY <2>8 DEF r
<1>5. iter[{}] = base
  <2>1. run({})[n] = run({})[0]
    BY <1>3
  <2>. QED
    BY <2>1, <1>1
<1>6. iter \in [SUBSET (1 .. n) -> V]
  BY <1>1
<1>7. iter = [s \in SUBSET (1 .. n) |-> iter[s]]
  OBVIOUS
<1>. HIDE DEF iter
<1>. QED
  BY <1>4, <1>5, <1>6, <1>7 DEF FoldedBy

(* The sets a fold goes through, from the last position to the first.       *)
LEMMA PrefixSets ==
  ASSUME NEW k \in Nat
  PROVE  /\ 1 .. 0 = {}
         /\ 1 .. (k + 1) # {} /\ Max(1 .. (k + 1)) = k + 1
         /\ (1 .. (k + 1)) \ {k + 1} = 1 .. k
<1>1. k + 1 \in 1 .. (k + 1) /\ \A y \in 1 .. (k + 1) : k + 1 >= y
  OBVIOUS
<1>2. 1 .. (k + 1) \in SUBSET Int
  OBVIOUS
<1>3. Max(1 .. (k + 1)) = k + 1
  BY <1>1, <1>2, MaxIs
<1>. QED
  BY <1>1, <1>3

FoldsTo(iter, n, V, base, step) ==
  /\ iter[{}] = base /\ iter = [s \in SUBSET (1 .. n) |-> iter[s]]
  /\ \A s \in SUBSET (1 .. n) : s # {} =>
       /\ Max(s) \in Nat /\ Max(s) \in 1 .. n /\ iter[s \ {Max(s)}] \in V
       /\ iter[s] = step[<<Max(s), iter[s \ {Max(s)}]>>]

LEMMA FoldValues ==
  ASSUME NEW V, NEW base \in V, NEW n \in Nat, NEW step \in [Nat \X V -> V],
         NEW iter, FoldedBy(iter, n, V, base, step)
  PROVE  FoldsTo(iter, n, V, base, step)
<1>1. iter \in [SUBSET (1 .. n) -> V] /\ iter[{}] = base
  BY DEF FoldedBy
<1>2. iter = [s \in SUBSET (1 .. n) |-> iter[s]]
  BY <1>1
<1>3. ASSUME NEW s \in SUBSET (1 .. n), s # {}
      PROVE  /\ Max(s) \in Nat /\ Max(s) \in 1 .. n /\ iter[s \ {Max(s)}] \in V
             /\ iter[s] = step[<<Max(s), iter[s \ {Max(s)}]>>]
  <2>. PICK m : m = Max(s)
    OBVIOUS
  <2>1. m \in s
    <3>1. s \in SUBSET (0 .. n)
      OBVIOUS
    <3>. QED
      BY <3>1, <1>3, MaxUpTo
  <2>2. s \subseteq 1 .. n
    OBVIOUS
  <2>3. m \in 1 .. n
    BY <2>1, <2>2
  <2>4. m \in Nat
    BY <2>3
  <2>. PICK r : r = s \ {m}
    OBVIOUS
  <2>5. r \in SUBSET (1 .. n)
    BY <2>2, Zenon
  <2>6. iter[r] \in V
    BY <1>1, <2>5
  <2>7. iter[s] = step[<<m, iter[r]>>]
    BY <1>3 DEF FoldedBy
  <2>. QED
    BY <2>3, <2>4, <2>6, <2>7
<1>. QED
  BY <1>1, <1>2, <1>3 DEF FoldsTo

(* A fold step by step: its value for each prefix of the sequence.          *)
Chain(d, n, V, base, step) ==
  /\ d \in [0 .. n -> V]
  /\ d[0] = base
  /\ \A k \in 0 .. (n - 1) : d[k + 1] = step[<<k + 1, d[k]>>]

Chained(h, n, V, base, step) == \E d : Chain(d, n, V, base, step) /\ h[1 .. n] = d[n]

Steps(h, n, V, base, step) ==
  /\ h[{}] = base
  /\ \A s \in SUBSET (1 .. n) : s # {} /\ h[s \ {Max(s)}] \in V => h[s] = step[<<Max(s), h[s \ {Max(s)}]>>]

LEMMA FoldChain ==
  ASSUME NEW V, NEW base \in V, NEW n \in Nat, NEW step \in [Nat \X V -> V], NEW h, Steps(h, n, V, base, step)
  PROVE  Chained(h, n, V, base, step)
<1>. DEFINE d == [k \in 0 .. n |-> h[1 .. k]]
<1>1. d[0] = base
  BY PrefixSets DEF Steps
<1>2. ASSUME NEW k \in 0 .. (n - 1), d[k] \in V
      PROVE  d[k + 1] = step[<<k + 1, d[k]>>]
  <2>1. k \in Nat /\ k \in 0 .. n /\ k + 1 \in 0 .. n /\ 1 .. (k + 1) \in SUBSET (1 .. n)
    OBVIOUS
  <2>. PICK s : s = 1 .. (k + 1)
    OBVIOUS
  <2>2. s \in SUBSET (1 .. n) /\ s # {} /\ Max(s) = k + 1 /\ s \ {k + 1} = 1 .. k
    BY <2>1, PrefixSets
  <2>3. h[s \ {Max(s)}] \in V
    BY <1>2, <2>1, <2>2
  <2>4. h[s] = step[<<Max(s), h[s \ {Max(s)}]>>]
    BY <2>2, <2>3 DEF Steps
  <2>. QED
    BY <2>1, <2>2, <2>4
<1>. DEFINE S == {k \in Nat : k <= n => d[k] \in V}
<1>3. 0 \in S
  BY <1>1
<1>4. ASSUME NEW k \in Nat, k \in S
      PROVE  k + 1 \in S
  <2>. SUFFICES ASSUME k + 1 <= n
                PROVE  d[k + 1] \in V
    OBVIOUS
  <2>1. k \in 0 .. (n - 1) /\ k <= n
    OBVIOUS
  <2>2. d[k] \in V
    BY <1>4, <2>1
  <2>3. d[k + 1] = step[<<k + 1, d[k]>>]
    BY <2>1, <2>2, <1>2
  <2>. HIDE DEF d
  <2>4. <<k + 1, d[k]>> \in Nat \X V
    BY <2>2
  <2>. QED
    BY <2>3, <2>4
<1>. HIDE DEF S
<1>5. Nat \subseteq S
  BY <1>3, <1>4, Induction
<1>6. \A k \in 0 .. n : d[k] \in V
  <2>1. \A k \in 0 .. n : k \in Nat /\ k <= n
    OBVIOUS
  <2>. HIDE DEF d
  <2>. QED
    BY <1>5, <2>1 DEF S
<1>7. \A k \in 0 .. (n - 1) : k \in 0 .. n
  OBVIOUS
<1>8. d[n] = h[1 .. n] /\ d \in [0 .. n -> V]
  BY <1>6
<1>. HIDE DEF d
<1>. QED
  BY <1>1, <1>2, <1>6, <1>7, <1>8 DEF Chain, Chained

-----------------------------------------------------------------------------
(***************************************************************************)
(* Widths.                                                                 *)
(***************************************************************************)
LEMMA CharWidth == \A c : char_display_width(c) \in {1, 2}
  BY DEF char_display_width

WidthBy(iter, chars) ==
  iter = [s \in SUBSET DOMAIN chars |->
            IF s = {} THEN 0 ELSE iter[s \ {Max(s)}] + char_display_width(chars[Max(s)])]

LEMMA WidthUnfolds == \A chars : display_width(chars) = (CHOOSE iter : WidthBy(iter, chars))[DOMAIN chars]
  BY Zenon DEF display_width, FoldLeft, MapThenFoldSet, WidthBy

LEMMA WidthExists ==
  ASSUME NEW chars, NEW n \in Nat, DOMAIN chars = 1 .. n
  PROVE  \E iter : iter \in [SUBSET (1 .. n) -> Nat] /\ WidthBy(iter, chars)
<1>. DEFINE V == Nat
            step == [p \in Nat \X V |-> p[2] + char_display_width(chars[p[1]])]
<1>1. step \in [Nat \X V -> V]
  <2>1. ASSUME NEW p \in Nat \X V
        PROVE  p[2] + char_display_width(chars[p[1]]) \in V
    <3>1. char_display_width(chars[p[1]]) \in Nat
      BY CharWidth
    <3>. QED
      BY <3>1
  <2>. QED
    BY <2>1
<1>2. 0 \in V
  OBVIOUS
<1>3. PICK iter : FoldedBy(iter, n, V, 0, step)
  <2>. HIDE DEF V, step
  <2>. QED
    BY <1>1, <1>2, FoldExists
<1>4. ASSUME NEW s \in SUBSET (1 .. n), s # {}
      PROVE  iter[s] = iter[s \ {Max(s)}] + char_display_width(chars[Max(s)])
  <2>. PICK m : m = Max(s)
    OBVIOUS
  <2>1. m \in s
    <3>1. s \in SUBSET (0 .. n)
      OBVIOUS
    <3>. QED
      BY <3>1, <1>4, MaxUpTo
  <2>a. s \subseteq 1 .. n
    OBVIOUS
  <2>b. m \in 1 .. n
    BY <2>1, <2>a
  <2>c. m \in Nat
    BY <2>b
  <2>d. s \ {m} \in SUBSET (1 .. n)
    BY <2>a, Zenon
  <2>2. m \in Nat /\ s \ {m} \in SUBSET (1 .. n)
    BY <2>c, <2>d
  <2>. PICK r : r = s \ {m}
    OBVIOUS
  <2>3. iter[r] \in V
    BY <1>3, <2>2 DEF FoldedBy
  <2>4. iter[s] = step[<<m, iter[r]>>]
    <3>. HIDE DEF V, step
    <3>. QED
      BY <1>3, <1>4 DEF FoldedBy
  <2>5. <<m, iter[r]>> \in Nat \X V
    BY <2>2, <2>3
  <2>6. step[<<m, iter[r]>>] = iter[r] + char_display_width(chars[m])
    BY <2>5
  <2>. QED
    BY <2>4, <2>6
<1>5. iter \in [SUBSET (1 .. n) -> Nat] /\ iter[{}] = 0
  BY <1>3 DEF FoldedBy
<1>6. iter = [s \in SUBSET (1 .. n) |-> iter[s]]
  BY <1>5
<1>7. WidthBy(iter, chars)
  BY <1>4, <1>5, <1>6 DEF WidthBy
<1>. QED
  BY <1>5, <1>7

(* The width of each prefix of a text.                                     *)
Widths(w, chars) ==
  /\ w \in [0 .. Len(chars) -> Nat]
  /\ w[0] = 0
  /\ \A k \in 0 .. (Len(chars) - 1) : w[k + 1] = w[k] + char_display_width(chars[k + 1])

LEMMA WidthFolds ==
  ASSUME NEW T, NEW chars \in Seq(T)
  PROVE  \E w : Widths(w, chars) /\ display_width(chars) = w[Len(chars)]
<1>. PICK n \in Nat : n = Len(chars)
  OBVIOUS
<1>1. DOMAIN chars = 1 .. n
  OBVIOUS
<1>. DEFINE h == CHOOSE g : WidthBy(g, chars)
<1>2. WidthBy(h, chars)
  BY <1>1, WidthExists
<1>3. display_width(chars) = h[1 .. n]
  BY <1>1, WidthUnfolds
<1>. HIDE DEF h
<1>. DEFINE w == [k \in 0 .. n |-> h[1 .. k]]
<1>4. w[0] = 0
  <2>1. {} \in SUBSET (1 .. n)
    OBVIOUS
  <2>2. h[{}] = 0
    BY <1>1, <1>2, <2>1 DEF WidthBy
  <2>. QED
    BY <2>2, PrefixSets
<1>5. ASSUME NEW k \in 0 .. (n - 1)
      PROVE  w[k + 1] = w[k] + char_display_width(chars[k + 1])
  <2>1. k \in Nat /\ k \in 0 .. n /\ k + 1 \in 0 .. n /\ 1 .. (k + 1) \in SUBSET (1 .. n)
    OBVIOUS
  <2>. PICK s : s = 1 .. (k + 1)
    OBVIOUS
  <2>2. s \in SUBSET (1 .. n) /\ s # {} /\ Max(s) = k + 1 /\ s \ {k + 1} = 1 .. k
    BY <2>1, PrefixSets
  <2>3. h[s] = h[s \ {Max(s)}] + char_display_width(chars[Max(s)])
    BY <1>1, <1>2, <2>2 DEF WidthBy
  <2>. QED
    BY <2>1, <2>2, <2>3
<1>6. w \in [0 .. n -> Nat]
  <2>. DEFINE S == {k \in Nat : k <= n => w[k] \in Nat}
  <2>1. 0 \in S
    BY <1>4
  <2>2. ASSUME NEW k \in Nat, k \in S
        PROVE  k + 1 \in S
    <3>. SUFFICES ASSUME k + 1 <= n
                  PROVE  w[k + 1] \in Nat
      OBVIOUS
    <3>1. k \in 0 .. (n - 1) /\ k <= n
      OBVIOUS
    <3>2. w[k] \in Nat
      BY <2>2, <3>1
    <3>3. w[k + 1] = w[k] + char_display_width(chars[k + 1])
      BY <3>1, <1>5
    <3>4. char_display_width(chars[k + 1]) \in Nat
      BY CharWidth
    <3>. HIDE DEF w
    <3>. QED
      BY <3>2, <3>3, <3>4
  <2>. HIDE DEF S
  <2>3. Nat \subseteq S
    BY <2>1, <2>2, Induction
  <2>4. \A k \in 0 .. n : w[k] \in Nat
    <3>1. \A k \in 0 .. n : k \in Nat /\ k <= n
      OBVIOUS
    <3>. HIDE DEF w
    <3>. QED
      BY <2>3, <3>1 DEF S
  <2>. QED
    BY <2>4
<1>7. w[n] = h[1 .. n]
  OBVIOUS
<1>. HIDE DEF w
<1>8. Widths(w, chars)
  BY <1>4, <1>5, <1>6 DEF Widths
<1>. QED
  BY <1>3, <1>7, <1>8

(* Texts that agree up to a position have the same width up to it.          *)
Continued(w, j, u, n) == \A k \in 0 .. n : w[j + k] = w[j] + u[k]

LEMMA WidthsAgree ==
  ASSUME NEW S, NEW T, NEW a \in Seq(S), NEW b \in Seq(T), NEW u, NEW w, Widths(u, a), Widths(w, b),
         NEW j \in Nat, NEW n \in Nat, n <= Len(a), j + n <= Len(b),
         \A i \in 1 .. n : b[j + i] = a[i]
  PROVE  Continued(w, j, u, n)
<1>. PICK la \in Nat : la = Len(a)
  OBVIOUS
<1>. PICK lb \in Nat : lb = Len(b)
  OBVIOUS
<1>1. /\ u \in [0 .. la -> Nat] /\ u[0] = 0
      /\ \A k \in 0 .. (la - 1) : u[k + 1] = u[k] + char_display_width(a[k + 1])
  BY DEF Widths
<1>2. /\ w \in [0 .. lb -> Nat]
      /\ \A k \in 0 .. (lb - 1) : w[k + 1] = w[k] + char_display_width(b[k + 1])
  BY DEF Widths
<1>. DEFINE R == {k \in Nat : k <= n => w[j + k] = w[j] + u[k]}
<1>3. 0 \in R
  <2>1. j \in 0 .. lb /\ j + 0 = j
    OBVIOUS
  <2>2. w[j] \in Nat
    BY <2>1, <1>2
  <2>3. w[j] = w[j] + 0
    BY <2>2
  <2>. QED
    BY <2>1, <2>3, <1>1
<1>4. ASSUME NEW k \in Nat, k \in R
      PROVE  k + 1 \in R
  <2>. SUFFICES ASSUME k + 1 <= n
                PROVE  w[j + (k + 1)] = w[j] + u[k + 1]
    OBVIOUS
  <2>1. k <= n /\ k \in 0 .. la /\ k \in 0 .. (la - 1) /\ j + k \in 0 .. (lb - 1) /\ k + 1 \in 1 .. n /\ j \in 0 .. lb
    OBVIOUS
  <2>2. (j + k) + 1 = j + (k + 1)
    OBVIOUS
  <2>. PICK c : c = char_display_width(a[k + 1])
    OBVIOUS
  <2>3. c \in Nat
    BY CharWidth
  <2>4. b[j + (k + 1)] = a[k + 1]
    BY <2>1
  <2>5. w[j + k] = w[j] + u[k]
    BY <1>4, <2>1
  <2>6. w[(j + k) + 1] = w[j + k] + char_display_width(b[(j + k) + 1])
    BY <2>1, <1>2
  <2>7. w[j + (k + 1)] = w[j + k] + c
    BY <2>2, <2>4, <2>6
  <2>8. u[k + 1] = u[k] + c
    BY <2>1, <1>1
  <2>9. u[k] \in Nat /\ w[j] \in Nat
    BY <2>1, <1>1, <1>2
  <2>10. \A x, y, z \in Nat : (x + y) + z = x + (y + z)
    OBVIOUS
  <2>. QED
    BY <2>3, <2>5, <2>7, <2>8, <2>9, <2>10
<1>. HIDE DEF R
<1>5. Nat \subseteq R
  BY <1>3, <1>4, Induction
<1>6. \A k \in 0 .. n : k \in Nat /\ k <= n
  OBVIOUS
<1>. QED
  BY <1>5, <1>6 DEF R, Continued

LEMMA WidthType ==
  ASSUME NEW T, NEW chars \in Seq(T)
  PROVE  display_width(chars) \in Nat
<1>1. PICK w : Widths(w, chars) /\ display_width(chars) = w[Len(chars)]
  BY WidthFolds
<1>2. Len(chars) \in 0 .. Len(chars)
  OBVIOUS
<1>. QED
  BY <1>1, <1>2 DEF Widths

LEMMA WidthConcat ==
  ASSUME NEW T, NEW a \in Seq(T), NEW b \in Seq(T)
  PROVE  display_width(a \o b) = display_width(a) + display_width(b)
<1>. PICK la \in Nat : la = Len(a)
  OBVIOUS
<1>. PICK lb \in Nat : lb = Len(b)
  OBVIOUS
<1>. PICK ab : ab = a \o b
  OBVIOUS
<1>1. /\ ab \in Seq(T) /\ Len(ab) = la + lb
      /\ \A i \in 1 .. la : ab[i] = a[i]
      /\ \A i \in 1 .. lb : ab[la + i] = b[i]
  <2>1. /\ ab \in Seq(T) /\ Len(ab) = la + lb
        /\ \A i \in 1 .. la + lb : ab[i] = IF i <= la THEN a[i] ELSE b[i - la]
    BY ConcatProperties
  <2>2. \A i \in 1 .. la : i \in 1 .. la + lb /\ i <= la
    OBVIOUS
  <2>3. \A i \in 1 .. lb : la + i \in 1 .. la + lb /\ ~(la + i <= la) /\ (la + i) - la = i
    OBVIOUS
  <2>. QED
    BY <2>1, <2>2, <2>3
<1>2. PICK u : Widths(u, a) /\ display_width(a) = u[la]
  BY WidthFolds
<1>3. PICK v : Widths(v, b) /\ display_width(b) = v[lb]
  BY WidthFolds
<1>4. PICK w : Widths(w, ab) /\ display_width(ab) = w[la + lb]
  BY <1>1, WidthFolds
<1>5. w[la] = u[la]
  <2>1. \A i \in 1 .. la : ab[0 + i] = a[i]
    BY <1>1
  <2>a. 0 \in Nat /\ la <= Len(a) /\ 0 + la <= Len(ab)
    BY <1>1
  <2>2. Continued(w, 0, u, la)
    BY <1>1, <1>2, <1>4, <2>1, <2>a, WidthsAgree
  <2>3. w[0] = 0 /\ u[la] \in Nat
    BY <1>2, <1>4 DEF Widths
  <2>4. w[0 + la] = w[0] + u[la]
    BY <2>2 DEF Continued
  <2>5. 0 + la = la /\ 0 + u[la] = u[la]
    BY <2>3
  <2>. QED
    BY <2>3, <2>4, <2>5
<1>6. w[la + lb] = w[la] + v[lb]
  <2>a. lb <= Len(b) /\ la + lb <= Len(ab) /\ \A i \in 1 .. lb : ab[la + i] = b[i]
    BY <1>1
  <2>1. Continued(w, la, v, lb)
    BY <1>1, <1>3, <1>4, <2>a, WidthsAgree
  <2>. QED
    BY <2>1 DEF Continued
<1>. QED
  BY <1>2, <1>3, <1>4, <1>5, <1>6

LEMMA WidthEmpty == display_width(<<>>) = 0
<1>1. <<>> \in Seq({}) /\ Len(<<>>) = 0
  OBVIOUS
<1>. QED
  BY <1>1, WidthFolds DEF Widths

LEMMA WidthOne == \A c : display_width(<<c>>) = char_display_width(c)
<1>. SUFFICES ASSUME NEW c
              PROVE  display_width(<<c>>) = char_display_width(c)
  OBVIOUS
<1>. PICK chars : chars = <<c>>
  OBVIOUS
<1>1. chars \in Seq({c}) /\ Len(chars) = 1 /\ chars[1] = c
  OBVIOUS
<1>2. PICK w : Widths(w, chars) /\ display_width(chars) = w[1]
  BY <1>1, WidthFolds
<1>3. w[0 + 1] = w[0] + char_display_width(chars[0 + 1]) /\ w[0] = 0
  BY <1>1, <1>2, 0 \in 0 .. (1 - 1) DEF Widths
<1>4. char_display_width(c) \in Nat
  BY CharWidth
<1>. QED
  BY <1>1, <1>2, <1>3, <1>4

LEMMA ConcatIs ==
  ASSUME NEW T, NEW s \in Seq(T), NEW a \in Seq(T), NEW b \in Seq(T), Len(s) = Len(a) + Len(b),
         \A i \in 1 .. Len(a) : s[i] = a[i], \A i \in 1 .. Len(b) : s[Len(a) + i] = b[i]
  PROVE  s = a \o b
<1>. PICK la \in Nat : la = Len(a)
  OBVIOUS
<1>. PICK lb \in Nat : lb = Len(b)
  OBVIOUS
<1>. PICK ab : ab = a \o b
  OBVIOUS
<1>1. ab \in Seq(T) /\ Len(ab) = la + lb /\ \A i \in 1 .. la + lb : ab[i] = IF i <= la THEN a[i] ELSE b[i - la]
  BY ConcatProperties
<1>2. \A i \in 1 .. la + lb : ab[i] = s[i]
  <2>. SUFFICES ASSUME NEW i \in 1 .. la + lb
                PROVE  ab[i] = s[i]
    OBVIOUS
  <2>1. CASE i <= la
    BY <1>1, <2>1
  <2>2. CASE ~(i <= la)
    <3>1. i - la \in 1 .. lb /\ la + (i - la) = i
      BY <2>2
    <3>2. s[la + (i - la)] = b[i - la]
      BY <3>1
    <3>. QED
      BY <3>1, <3>2, <1>1, <2>2
  <2>. QED
    BY <2>1, <2>2
<1>. QED
  BY <1>1, <1>2, SeqEqual

(* A text is its beginning and what comes after it.                        *)
LEMMA Split ==
  ASSUME NEW T, NEW s \in Seq(T), NEW n \in 0 .. Len(s)
  PROVE  /\ SubSeq(s, 1, n) \in Seq(T) /\ After(s, n) \in Seq(T)
         /\ Len(SubSeq(s, 1, n)) = n /\ Len(After(s, n)) = Len(s) - n
         /\ \A i \in 1 .. n : SubSeq(s, 1, n)[i] = s[i]
         /\ \A i \in 1 .. (Len(s) - n) : After(s, n)[i] = s[n + i]
         /\ s = SubSeq(s, 1, n) \o After(s, n)
<1>. PICK l \in Nat : l = Len(s)
  OBVIOUS
<1>. PICK a : a = SubSeq(s, 1, n)
  OBVIOUS
<1>. PICK b : b = After(s, n)
  OBVIOUS
<1>1. a \in Seq(T) /\ Len(a) = n /\ \A i \in 1 .. n : a[i] = s[i]
  OBVIOUS
<1>2. b \in Seq(T) /\ Len(b) = l - n /\ \A i \in 1 .. (l - n) : b[i] = s[n + i]
  BY DEF After
<1>3. s = a \o b
  <2>1. l = n + (l - n)
    OBVIOUS
  <2>2. Len(s) = Len(a) + Len(b)
    BY <1>1, <1>2, <2>1
  <2>3. \A i \in 1 .. Len(b) : s[Len(a) + i] = b[i]
    BY <1>1, <1>2
  <2>4. \A i \in 1 .. Len(a) : s[i] = a[i]
    BY <1>1
  <2>5. a \in Seq(T) /\ b \in Seq(T)
    BY <1>1, <1>2
  <2>. QED
    BY <2>2, <2>3, <2>4, <2>5, ConcatIs
<1>. QED
  BY <1>1, <1>2, <1>3

LEMMA WidthSplit ==
  ASSUME NEW T, NEW s \in Seq(T), NEW n \in 0 .. Len(s)
  PROVE  /\ display_width(SubSeq(s, 1, n)) \in Nat /\ display_width(After(s, n)) \in Nat
         /\ display_width(s) = display_width(SubSeq(s, 1, n)) + display_width(After(s, n))
<1>. PICK a : a = SubSeq(s, 1, n)
  OBVIOUS
<1>. PICK b : b = After(s, n)
  OBVIOUS
<1>1. a \in Seq(T) /\ b \in Seq(T) /\ s = a \o b
  BY Split
<1>2. display_width(s) = display_width(a) + display_width(b)
  BY <1>1, WidthConcat
<1>. QED
  BY <1>1, <1>2, WidthType

LEMMA FunctionIsSeq ==
  ASSUME NEW T, NEW n \in Nat, NEW f \in [1 .. n -> T]
  PROVE  f \in Seq(T) /\ Len(f) = n
OBVIOUS

LEMMA KnownCharacters ==
  /\ " " \in Characters /\ " " \notin WideChars
  /\ "/" \in Characters /\ "/" \notin WideChars
  /\ ">" \in Characters /\ ">" \notin WideChars
  /\ "^" \in Characters /\ "^" \notin WideChars
  /\ "C" \in Characters /\ "C" \notin WideChars
<1>1. {" ", "/", ">", "^", "C"} \subseteq Characters \ WideChars
  BY EditorAssumption, Zenon
<1>. QED
  BY <1>1

LEMMA WidthSpaces ==
  ASSUME NEW n \in Nat
  PROVE  /\ Spaces(n) \in RowTexts /\ Len(Spaces(n)) = n /\ display_width(Spaces(n)) = n
         /\ \A i \in 1 .. n : Spaces(n)[i] = " "
<1>. PICK s : s = Spaces(n)
  OBVIOUS
<1>1. s \in RowTexts /\ Len(s) = n /\ \A i \in 1 .. n : s[i] = " "
  <2>. PICK blank : blank = " "
    OBVIOUS
  <2>1. s = [i \in 1 .. n |-> blank]
    BY DEF Spaces
  <2>2. blank \in Characters
    BY KnownCharacters
  <2>3. s \in [1 .. n -> Characters]
    BY <2>1, <2>2
  <2>4. s \in Seq(Characters) /\ Len(s) = n
    BY <2>3, FunctionIsSeq
  <2>. QED
    BY <2>1, <2>4 DEF RowTexts
<1>2. PICK w : Widths(w, s) /\ display_width(s) = w[n]
  BY <1>1, WidthFolds DEF RowTexts
<1>3. \A k \in 0 .. (n - 1) : w[k + 1] = w[k] + 1
  <2>1. \A k \in 0 .. (n - 1) : char_display_width(s[k + 1]) = 1
    <3>1. char_display_width(" ") = 1
      BY KnownCharacters DEF char_display_width
    <3>2. \A k \in 0 .. (n - 1) : k + 1 \in 1 .. n
      OBVIOUS
    <3>. QED
      BY <1>1, <3>1, <3>2
  <2>. QED
    BY <1>1, <1>2, <2>1 DEF Widths
<1>. DEFINE S == {k \in Nat : k <= n => w[k] = k}
<1>4. 0 \in S
  BY <1>2 DEF Widths
<1>5. \A k \in Nat : k \in S => k + 1 \in S
  BY <1>3
<1>. HIDE DEF S
<1>6. Nat \subseteq S
  BY <1>4, <1>5, Induction
<1>7. w[n] = n
  BY <1>6 DEF S
<1>. QED
  BY <1>1, <1>2, <1>7

-----------------------------------------------------------------------------
(***************************************************************************)
(* The console.                                                            *)
(***************************************************************************)
CellValues == Characters \cup {"half"}
ConsoleRows == [1 .. Width -> CellValues]
Consoles == [cells : [1 .. Height -> ConsoleRows], x : 0 .. Width - 1, y : 1 .. Height]
(* What is printed: characters and newlines. *)
Printed == Characters \cup {"nl"}

LEMMA Sizes == Width \in Nat \ {0} /\ Height \in Nat \ {0} /\ MaxWidth \in Nat
<1>1. display_width(Prompt) \in Nat
  BY EditorAssumption, WidthType DEF RowTexts
<1>2. Width \in Nat /\ Height \in Nat \ {0} /\ MaxWidth \in Nat /\ display_width(Prompt) + MaxWidth < Width
  BY EditorAssumption
<1>3. \A a, b, c \in Nat : a + b < c => c \in Nat \ {0}
  OBVIOUS
<1>. QED
  BY <1>1, <1>2, <1>3

LEMMA ConsoleFields ==
  ASSUME NEW t \in Consoles
  PROVE  /\ t.x \in Nat /\ t.x < Width /\ t.x + 1 \in 1 .. Width /\ t.y \in 1 .. Height /\ t.y \in Nat /\ t.y <= Height
         /\ t.cells \in [1 .. Height -> ConsoleRows]
         /\ \A y \in 1 .. Height : t.cells[y] \in ConsoleRows
  BY Sizes DEF Consoles

LEMMA EmptyRowType == EmptyRow \in ConsoleRows /\ \A x \in 1 .. Width : EmptyRow[x] = " "
  BY EditorAssumption DEF EmptyRow, ConsoleRows, CellValues

LEMMA MovedTo ==
  ASSUME NEW t \in Consoles, NEW x \in 0 .. Width - 1, NEW y \in 1 .. Height
  PROVE  /\ set_cursor_position(t, x, y) \in Consoles
         /\ set_cursor_position(t, x, y).x = x /\ set_cursor_position(t, x, y).y = y
         /\ set_cursor_position(t, x, y).cells = t.cells
  BY DEF set_cursor_position, Consoles

LEMMA NewlineMoves ==
  ASSUME NEW t \in Consoles
  PROVE  /\ Newline(t) \in Consoles /\ Newline(t).x = 0
         /\ t.y < Height => Newline(t).y = t.y + 1 /\ Newline(t).cells = t.cells
         /\ t.y = Height => /\ Newline(t).y = Height
                            /\ \A y \in 1 .. Height : Newline(t).cells[y] = IF y < Height THEN t.cells[y + 1] ELSE EmptyRow
<1>. USE Sizes
<1>1. CASE t.y < Height
  <2>. DEFINE n == [t EXCEPT !.x = 0, !.y = @ + 1]
  <2>1. t.y + 1 \in 1 .. Height /\ 0 \in 0 .. Width - 1
    BY <1>1, ConsoleFields
  <2>2. n \in Consoles /\ n.x = 0 /\ n.y = t.y + 1 /\ n.cells = t.cells
    BY <2>1 DEF Consoles
  <2>3. Newline(t) = n
    BY <1>1 DEF Newline
  <2>. HIDE DEF n
  <2>. QED
    BY <1>1, <2>2, <2>3, ConsoleFields
<1>2. CASE ~(t.y < Height)
  <2>. PICK cells : cells = Append(Tail(t.cells), EmptyRow)
    OBVIOUS
  <2>1. t.y = Height
    BY <1>2, ConsoleFields
  <2>. PICK old : old = t.cells
    OBVIOUS
  <2>a. old \in [1 .. Height -> ConsoleRows] /\ Height \in Nat
    BY ConsoleFields
  <2>2. old \in Seq(ConsoleRows) /\ Len(old) = Height
    BY <2>a
  <2>3. /\ Tail(old) \in Seq(ConsoleRows) /\ Len(Tail(old)) = Height - 1
        /\ \A y \in 1 .. Height - 1 : Tail(old)[y] = old[y + 1]
    BY <2>2
  <2>4. /\ cells \in Seq(ConsoleRows) /\ Len(cells) = Height
        /\ \A y \in 1 .. Height - 1 : cells[y] = old[y + 1]
        /\ cells[Height] = EmptyRow
    <3>. PICK tail : tail = Tail(old)
      OBVIOUS
    <3>1. tail \in Seq(ConsoleRows) /\ EmptyRow \in ConsoleRows /\ cells = Append(tail, EmptyRow)
      BY <2>3, EmptyRowType
    <3>2. /\ cells \in Seq(ConsoleRows) /\ Len(cells) = Len(tail) + 1
          /\ \A y \in 1 .. Len(tail) : cells[y] = tail[y]
          /\ cells[Len(tail) + 1] = EmptyRow
      BY <3>1, AppendProperties
    <3>. QED
      BY <2>3, <3>2
  <2>5. cells \in [1 .. Height -> ConsoleRows]
    <3>1. cells \in Seq(ConsoleRows) /\ Len(cells) = Height
      BY <2>4
    <3>. QED
      BY <3>1, LenProperties
  <2>6. \A y \in 1 .. Height : cells[y] = IF y < Height THEN t.cells[y + 1] ELSE EmptyRow
    BY <2>4
  <2>. DEFINE n == [t EXCEPT !.x = 0, !.cells = cells]
  <2>b. 0 \in 0 .. Width - 1
    OBVIOUS
  <2>7. n \in Consoles /\ n.x = 0 /\ n.y = t.y /\ n.cells = cells
    BY <2>5, <2>b DEF Consoles
  <2>8. Newline(t) = n
    BY <1>2 DEF Newline
  <2>. HIDE DEF n
  <2>. QED
    BY <2>1, <2>6, <2>7, <2>8, <1>2
<1>. QED
  BY <1>1, <1>2

(* What Put writes before it moves on. *)
Written(t, c) ==
  IF char_display_width(c) = 2 /\ t.x + 1 < Width
  THEN [t EXCEPT !.cells[t.y][t.x + 1] = c, !.cells[t.y][t.x + 2] = "half"]
  ELSE [t EXCEPT !.cells[t.y][t.x + 1] = c]

LEMMA WrittenOne ==
  ASSUME NEW t \in Consoles, NEW i \in 1 .. Width, NEW v \in CellValues
  PROVE  LET n == [t EXCEPT !.cells[t.y][i] = v]
         IN /\ n \in Consoles /\ n.x = t.x /\ n.y = t.y
            /\ \A y \in 1 .. Height : y # t.y => n.cells[y] = t.cells[y]
            /\ n.cells[t.y][i] = v
            /\ \A j \in 1 .. Width : j # i => n.cells[t.y][j] = t.cells[t.y][j]
<1>. PICK row : row = t.cells[t.y]
  OBVIOUS
<1>. DEFINE new == [row EXCEPT ![i] = v]
            cells == [t.cells EXCEPT ![t.y] = new]
<1>1. t.y \in 1 .. Height /\ row \in ConsoleRows
  BY ConsoleFields
<1>2. new \in ConsoleRows /\ new[i] = v /\ \A j \in 1 .. Width : j # i => new[j] = row[j]
  BY <1>1 DEF ConsoleRows
<1>. HIDE DEF new
<1>3. /\ cells \in [1 .. Height -> ConsoleRows] /\ cells[t.y] = new
      /\ \A y \in 1 .. Height : y # t.y => cells[y] = t.cells[y]
  BY <1>1, <1>2, ConsoleFields
<1>. HIDE DEF cells
<1>. DEFINE n == [t EXCEPT !.cells = cells]
<1>4. n \in Consoles /\ n.x = t.x /\ n.y = t.y /\ n.cells = cells
  BY <1>3 DEF Consoles
<1>5. [t EXCEPT !.cells[t.y][i] = v] = n
  BY DEF cells, new
<1>. HIDE DEF n
<1>. QED
  BY <1>1, <1>2, <1>3, <1>4, <1>5

WithBoth(t, i, u, k, v) == [t EXCEPT !.cells[t.y][i] = u, !.cells[t.y][k] = v]
BothWritten(n, t, i, u, k, v) ==
  /\ n \in Consoles /\ n.x = t.x /\ n.y = t.y
  /\ \A y \in 1 .. Height : y # t.y => n.cells[y] = t.cells[y]
  /\ n.cells[t.y][i] = u /\ n.cells[t.y][k] = v
  /\ \A j \in 1 .. Width : j # i /\ j # k => n.cells[t.y][j] = t.cells[t.y][j]

LEMMA WrittenTwo ==
  ASSUME NEW t \in Consoles, NEW i \in 1 .. Width, NEW k \in 1 .. Width, i # k, NEW u \in CellValues, NEW v \in CellValues
  PROVE  BothWritten(WithBoth(t, i, u, k, v), t, i, u, k, v)
<1>. PICK row : row = t.cells[t.y]
  OBVIOUS
<1>. DEFINE new == [row EXCEPT ![i] = u, ![k] = v]
            cells == [t.cells EXCEPT ![t.y] = new]
<1>1. t.y \in 1 .. Height /\ row \in ConsoleRows
  BY ConsoleFields
<1>2. new \in ConsoleRows /\ new[i] = u /\ new[k] = v /\ \A j \in 1 .. Width : j # i /\ j # k => new[j] = row[j]
  BY <1>1 DEF ConsoleRows
<1>. HIDE DEF new
<1>3. /\ cells \in [1 .. Height -> ConsoleRows] /\ cells[t.y] = new
      /\ \A y \in 1 .. Height : y # t.y => cells[y] = t.cells[y]
  BY <1>1, <1>2, ConsoleFields
<1>. HIDE DEF cells
<1>. DEFINE n == [t EXCEPT !.cells = cells]
<1>4. n \in Consoles /\ n.x = t.x /\ n.y = t.y /\ n.cells = cells
  BY <1>3 DEF Consoles
<1>5. WithBoth(t, i, u, k, v) = n
  BY ConsoleFields DEF cells, new, WithBoth
<1>. HIDE DEF n
<1>. QED
  BY <1>1, <1>2, <1>3, <1>4, <1>5 DEF BothWritten

LEMMA WrittenIs ==
  ASSUME NEW t \in Consoles, NEW c \in Characters
  PROVE  /\ Written(t, c) \in Consoles /\ Written(t, c).x = t.x /\ Written(t, c).y = t.y
         /\ \A y \in 1 .. Height : y # t.y => Written(t, c).cells[y] = t.cells[y]
         /\ \A j \in 1 .. Width : Written(t, c).cells[t.y][j] =
              IF j = t.x + 1 THEN c
              ELSE IF j = t.x + 2 /\ char_display_width(c) = 2 THEN "half" ELSE t.cells[t.y][j]
<1>1. t.x + 1 \in 1 .. Width /\ c \in CellValues /\ "half" \in CellValues /\ t.x \in Nat
  BY ConsoleFields DEF CellValues
<1>2. CASE char_display_width(c) = 2 /\ t.x + 1 < Width
  <2>1. t.x + 2 \in 1 .. Width /\ t.x + 1 # t.x + 2
    BY <1>1, <1>2, Sizes
  <2>. PICK n : n = Written(t, c)
    OBVIOUS
  <2>2. n = [t EXCEPT !.cells[t.y][t.x + 1] = c, !.cells[t.y][t.x + 2] = "half"]
    BY <1>2 DEF Written
  <2>3. /\ n \in Consoles /\ n.x = t.x /\ n.y = t.y
        /\ \A y \in 1 .. Height : y # t.y => n.cells[y] = t.cells[y]
        /\ n.cells[t.y][t.x + 1] = c /\ n.cells[t.y][t.x + 2] = "half"
        /\ \A j \in 1 .. Width : j # t.x + 1 /\ j # t.x + 2 => n.cells[t.y][j] = t.cells[t.y][j]
    <3>. PICK i : i = t.x + 1
      OBVIOUS
    <3>. PICK k : k = t.x + 2
      OBVIOUS
    <3>. PICK half : half = "half"
      OBVIOUS
    <3>1. i \in 1 .. Width /\ k \in 1 .. Width /\ i # k /\ c \in CellValues /\ half \in CellValues
      BY <1>1, <2>1
    <3>2. n = WithBoth(t, i, c, k, half)
      BY <2>2, Zenon DEF WithBoth
    <3>3. BothWritten(n, t, i, c, k, half)
      BY <3>1, <3>2, WrittenTwo
    <3>. QED
      BY <3>3 DEF BothWritten
  <2>. QED
    BY <1>2, <2>3
<1>3. CASE ~(char_display_width(c) = 2 /\ t.x + 1 < Width)
  <2>. PICK n : n = Written(t, c)
    OBVIOUS
  <2>2. n = [t EXCEPT !.cells[t.y][t.x + 1] = c]
    BY <1>3 DEF Written
  <2>3. /\ n \in Consoles /\ n.x = t.x /\ n.y = t.y
        /\ \A y \in 1 .. Height : y # t.y => n.cells[y] = t.cells[y]
        /\ n.cells[t.y][t.x + 1] = c
        /\ \A j \in 1 .. Width : j # t.x + 1 => n.cells[t.y][j] = t.cells[t.y][j]
    BY <1>1, <2>2, WrittenOne
  <2>4. \A j \in 1 .. Width : ~(j = t.x + 2 /\ char_display_width(c) = 2)
    BY <1>1, <1>3, Sizes
  <2>. QED
    BY <2>3, <2>4
<1>. QED
  BY <1>2, <1>3

LEMMA PutMoves ==
  ASSUME NEW t \in Consoles, NEW c \in Characters
  PROVE  /\ Put(t, c) \in Consoles
         /\ t.x + char_display_width(c) < Width =>
              /\ Put(t, c).x = t.x + char_display_width(c) /\ Put(t, c).y = t.y
              /\ Put(t, c).cells = Written(t, c).cells
         /\ ~(t.x + char_display_width(c) < Width) => Put(t, c) = Newline(Written(t, c))
<1>. PICK w : w = char_display_width(c)
  OBVIOUS
<1>. PICK n : n = Written(t, c)
  OBVIOUS
<1>a. c # "nl"
  BY EditorAssumption
<1>1. w \in Nat /\ c # "nl" /\ t.x \in Nat
  BY <1>a, CharWidth, ConsoleFields
<1>2. n \in Consoles /\ n.x = t.x /\ n.y = t.y
  BY WrittenIs
<1>b. Put(t, c) = IF t.x + char_display_width(c) < Width
                 THEN [Written(t, c) EXCEPT !.x = @ + char_display_width(c)] ELSE Newline(Written(t, c))
  BY <1>a, Zenon DEF Put, Written
<1>3. Put(t, c) = IF t.x + w < Width THEN [n EXCEPT !.x = @ + w] ELSE Newline(n)
  BY <1>b
<1>4. CASE t.x + w < Width
  <2>1. t.x + w \in 0 .. Width - 1
    BY <1>1, <1>4, Sizes
  <2>. DEFINE m == [n EXCEPT !.x = @ + w]
  <2>2. m \in Consoles /\ m.x = t.x + w /\ m.y = t.y /\ m.cells = n.cells
    BY <1>2, <2>1 DEF Consoles
  <2>. HIDE DEF m
  <2>. QED
    BY <1>3, <1>4, <2>2 DEF m
<1>5. CASE ~(t.x + w < Width)
  BY <1>2, <1>3, <1>5, NewlineMoves
<1>. QED
  BY <1>4, <1>5

LEMMA PutType ==
  ASSUME NEW t \in Consoles, NEW c \in Printed
  PROVE  Put(t, c) \in Consoles
<1>1. CASE c = "nl"
  BY <1>1, NewlineMoves DEF Put
<1>2. CASE c \in Characters
  BY <1>2, PutMoves
<1>. QED
  BY <1>1, <1>2 DEF Printed

DisplayBy(iter, t, chars) ==
  iter = [s \in SUBSET DOMAIN chars |->
            IF s = {} THEN t ELSE Put(iter[s \ {Max(s)}], chars[Max(s)])]

LEMMA DisplayUnfolds ==
  \A t, chars : Display(t, chars) = (CHOOSE iter : DisplayBy(iter, t, chars))[DOMAIN chars]
  BY Zenon DEF Display, FoldLeft, MapThenFoldSet, DisplayBy

(* The console after each character of a text.                             *)
Displays(d, t, chars) ==
  /\ d \in [0 .. Len(chars) -> Consoles]
  /\ d[0] = t
  /\ \A k \in 0 .. (Len(chars) - 1) : d[k + 1] = Put(d[k], chars[k + 1])

LEMMA DisplayFolds ==
  ASSUME NEW t \in Consoles, NEW chars \in Seq(Printed)
  PROVE  \E d : Displays(d, t, chars) /\ Display(t, chars) = d[Len(chars)]
<1>. PICK n \in Nat : n = Len(chars)
  OBVIOUS
<1>. DEFINE V == Consoles
            step == [p \in Nat \X V |-> IF p[1] \in 1 .. n THEN Put(p[2], chars[p[1]]) ELSE p[2]]
<1>1. DOMAIN chars = 1 .. n /\ \A i \in 1 .. n : chars[i] \in Printed
  OBVIOUS
<1>2. step \in [Nat \X V -> V] /\ t \in V
  <2>1. ASSUME NEW p \in Nat \X V, p[1] \in 1 .. n
        PROVE  Put(p[2], chars[p[1]]) \in V
    <3>1. p[2] \in Consoles /\ chars[p[1]] \in Printed
      BY <2>1, <1>1
    <3>. QED
      BY <3>1, PutType
  <2>. QED
    BY <2>1
<1>3. \A m \in 1 .. n, v \in V : step[<<m, v>>] = Put(v, chars[m])
  OBVIOUS
<1>. HIDE DEF step, V
<1>4. PICK iter : FoldedBy(iter, n, V, t, step)
  BY <1>2, FoldExists
<1>. DEFINE h == CHOOSE g : DisplayBy(g, t, chars)
<1>5. DisplayBy(h, t, chars)
  <2>1. FoldsTo(iter, n, V, t, step)
    BY <1>2, <1>4, FoldValues
  <2>2. \A s \in SUBSET (1 .. n) : s # {} => iter[s] = Put(iter[s \ {Max(s)}], chars[Max(s)])
    BY <2>1, <1>3 DEF FoldsTo
  <2>3. DisplayBy(iter, t, chars)
    BY <1>1, <2>1, <2>2 DEF DisplayBy, FoldsTo
  <2>. QED
    BY <2>3
<1>6. Display(t, chars) = h[1 .. n]
  BY <1>1, DisplayUnfolds
<1>. HIDE DEF h
<1>7. h[{}] = t /\ \A s \in SUBSET (1 .. n) : s # {} => h[s] = Put(h[s \ {Max(s)}], chars[Max(s)])
  BY <1>1, <1>5 DEF DisplayBy
<1>8. \A s \in SUBSET (1 .. n) : s # {} => Max(s) \in 1 .. n
  BY <1>2, <1>4, FoldValues DEF FoldsTo
<1>9. Steps(h, n, V, t, step)
  BY <1>3, <1>7, <1>8 DEF Steps
<1>a. Chained(h, n, V, t, step)
  BY <1>2, <1>9, FoldChain
<1>10. PICK d : Chain(d, n, V, t, step) /\ h[1 .. n] = d[n]
  BY <1>a DEF Chained
<1>11. \A k \in 0 .. (n - 1) : d[k + 1] = Put(d[k], chars[k + 1])
  <2>1. \A k \in 0 .. (n - 1) : k + 1 \in 1 .. n /\ k \in 0 .. n
    OBVIOUS
  <2>2. \A k \in 0 .. (n - 1) : d[k] \in V /\ d[k + 1] = step[<<k + 1, d[k]>>]
    BY <1>10, <2>1 DEF Chain
  <2>. QED
    BY <2>1, <2>2, <1>3
<1>12. Displays(d, t, chars)
  BY <1>10, <1>11 DEF Chain, Displays, V
<1>. QED
  BY <1>6, <1>10, <1>12

LEMMA DisplayType ==
  ASSUME NEW t \in Consoles, NEW chars \in Seq(Printed)
  PROVE  Display(t, chars) \in Consoles
<1>1. PICK d : Displays(d, t, chars) /\ Display(t, chars) = d[Len(chars)]
  BY DisplayFolds
<1>2. Len(chars) \in 0 .. Len(chars)
  OBVIOUS
<1>. QED
  BY <1>1, <1>2 DEF Displays

-----------------------------------------------------------------------------
(***************************************************************************)
(* The cells of a text.                                                    *)
(***************************************************************************)
Glyph(c) == IF c \in WideChars THEN <<c, "half">> ELSE <<c>>

LEMMA GlyphIs ==
  ASSUME NEW c \in Characters
  PROVE  /\ Glyph(c) \in Seq(CellValues) /\ Len(Glyph(c)) = char_display_width(c) /\ Glyph(c)[1] = c
         /\ char_display_width(c) = 2 => Glyph(c)[2] = "half"
<1>1. CASE c \in WideChars
  <2>. PICK half : half = "half"
    OBVIOUS
  <2>1. half \in CellValues /\ c \in CellValues
    BY DEF CellValues
  <2>2. <<c, half>> \in Seq(CellValues) /\ Len(<<c, half>>) = 2 /\ <<c, half>>[1] = c /\ <<c, half>>[2] = half
    BY <2>1
  <2>. QED
    BY <1>1, <2>2 DEF Glyph, char_display_width
<1>2. CASE c \notin WideChars
  <2>1. c \in CellValues
    BY DEF CellValues
  <2>2. <<c>> \in Seq(CellValues) /\ Len(<<c>>) = 1 /\ <<c>>[1] = c
    BY <2>1
  <2>. QED
    BY <1>2, <2>2 DEF Glyph, char_display_width
<1>. QED
  BY <1>1, <1>2

CellsBy(iter, chars) ==
  iter = [s \in SUBSET DOMAIN chars |->
            IF s = {} THEN <<>> ELSE iter[s \ {Max(s)}] \o Glyph(chars[Max(s)])]

LEMMA CellsUnfold ==
  \A chars : Cells(chars) = (CHOOSE iter : CellsBy(iter, chars))[DOMAIN chars]
  BY Zenon DEF Cells, FoldLeft, MapThenFoldSet, CellsBy, Glyph

(* The cells of each prefix of a text.                                     *)
CellsUpTo(d, chars) ==
  /\ d \in [0 .. Len(chars) -> Seq(CellValues)]
  /\ d[0] = <<>>
  /\ \A k \in 0 .. (Len(chars) - 1) : d[k + 1] = d[k] \o Glyph(chars[k + 1])

LEMMA CellsFold ==
  ASSUME NEW chars \in RowTexts
  PROVE  \E d : CellsUpTo(d, chars) /\ Cells(chars) = d[Len(chars)]
<1>0. chars \in Seq(Characters)
  BY DEF RowTexts
<1>. PICK n \in Nat : n = Len(chars)
  BY <1>0
<1>. DEFINE V == Seq(CellValues)
            step == [p \in Nat \X V |-> IF p[1] \in 1 .. n THEN p[2] \o Glyph(chars[p[1]]) ELSE p[2]]
<1>1. DOMAIN chars = 1 .. n /\ \A i \in 1 .. n : chars[i] \in Characters
  BY <1>0
<1>. PICK base : base = <<>>
  OBVIOUS
<1>2. step \in [Nat \X V -> V] /\ base \in V
  <2>1. ASSUME NEW p \in Nat \X V, p[1] \in 1 .. n
        PROVE  p[2] \o Glyph(chars[p[1]]) \in V
    <3>1. p[2] \in Seq(CellValues) /\ Glyph(chars[p[1]]) \in Seq(CellValues)
      BY <2>1, <1>1, GlyphIs
    <3>. QED
      BY <3>1, ConcatProperties
  <2>. QED
    BY <2>1
<1>3. \A m \in 1 .. n, v \in V : step[<<m, v>>] = v \o Glyph(chars[m])
  <2>. SUFFICES ASSUME NEW m \in 1 .. n, NEW v \in V
                PROVE  step[<<m, v>>] = v \o Glyph(chars[m])
    OBVIOUS
  <2>1. <<m, v>> \in Nat \X V /\ <<m, v>>[1] = m /\ <<m, v>>[2] = v
    OBVIOUS
  <2>. QED
    BY <2>1
<1>. HIDE DEF step, V
<1>4. PICK iter : FoldedBy(iter, n, V, base, step)
  BY <1>2, FoldExists
<1>. DEFINE h == CHOOSE g : CellsBy(g, chars)
<1>5. CellsBy(h, chars)
  <2>1. FoldsTo(iter, n, V, base, step)
    BY <1>2, <1>4, FoldValues
  <2>2. \A s \in SUBSET (1 .. n) : s # {} => iter[s] = iter[s \ {Max(s)}] \o Glyph(chars[Max(s)])
    BY <2>1, <1>3 DEF FoldsTo
  <2>3. CellsBy(iter, chars)
    BY <1>1, <2>1, <2>2 DEF CellsBy, FoldsTo
  <2>. QED
    BY <2>3
<1>6. Cells(chars) = h[1 .. n]
  BY <1>1, CellsUnfold
<1>. HIDE DEF h
<1>7. h[{}] = base /\ \A s \in SUBSET (1 .. n) : s # {} => h[s] = h[s \ {Max(s)}] \o Glyph(chars[Max(s)])
  BY <1>1, <1>5 DEF CellsBy
<1>8. \A s \in SUBSET (1 .. n) : s # {} => Max(s) \in 1 .. n
  BY <1>2, <1>4, FoldValues DEF FoldsTo
<1>9. Steps(h, n, V, base, step)
  BY <1>3, <1>7, <1>8 DEF Steps
<1>a. Chained(h, n, V, base, step)
  BY <1>2, <1>9, FoldChain
<1>10. PICK d : Chain(d, n, V, base, step) /\ h[1 .. n] = d[n]
  BY <1>a DEF Chained
<1>11. \A k \in 0 .. (n - 1) : d[k + 1] = d[k] \o Glyph(chars[k + 1])
  <2>1. \A k \in 0 .. (n - 1) : k + 1 \in 1 .. n /\ k \in 0 .. n
    OBVIOUS
  <2>2. \A k \in 0 .. (n - 1) : d[k] \in V /\ d[k + 1] = step[<<k + 1, d[k]>>]
    BY <1>10, <2>1 DEF Chain
  <2>. QED
    BY <2>1, <2>2, <1>3
<1>12. CellsUpTo(d, chars)
  BY <1>10, <1>11 DEF Chain, CellsUpTo, V
<1>. QED
  BY <1>6, <1>10, <1>12

Halves(T, s, n, a, b) ==
  /\ a \in Seq(T) /\ b \in Seq(T) /\ s = a \o b /\ Len(a) = n /\ Len(b) = Len(s) - n
  /\ \A i \in 1 .. (Len(s) - n) : b[i] = s[n + i]

LEMMA HalvesAre ==
  ASSUME NEW T, NEW s \in Seq(T), NEW n \in 0 .. Len(s)
  PROVE  Halves(T, s, n, SubSeq(s, 1, n), After(s, n))
  BY Split DEF Halves

(* A text that is not empty is another one and a last character. *)
LEMMA LastOf ==
  ASSUME NEW T, NEW s \in Seq(T), s # <<>>
  PROVE  \E a \in Seq(T), c \in T : Len(a) = Len(s) - 1 /\ s = a \o <<c>>
<1>0. Len(s) \in Nat \ {0}
  BY EmptySeq
<1>. PICK l \in Nat \ {0} : l = Len(s)
  BY <1>0
<1>. PICK n \in Nat : n = l - 1
  OBVIOUS
<1>1. n \in 0 .. l /\ l - n = 1 /\ n + 1 \in 1 .. l
  OBVIOUS
<1>2. PICK a, b : Halves(T, s, n, a, b)
  <2>1. Halves(T, s, n, SubSeq(s, 1, n), After(s, n))
    BY <1>1, HalvesAre
  <2>. QED
    BY <2>1
<1>3. a \in Seq(T) /\ b \in Seq(T) /\ s = a \o b /\ Len(a) = n /\ Len(b) = 1
  BY <1>1, <1>2 DEF Halves
<1>4. b[1] \in T
  BY <1>3, ElementOfSeq
<1>. PICK c : c = b[1]
  OBVIOUS
<1>. PICK one : one = <<c>>
  OBVIOUS
<1>5. one \in Seq(T) /\ Len(one) = 1 /\ one[1] = c
  BY <1>4
<1>6. b = one
  BY <1>3, <1>5, SeqEqual
<1>. QED
  BY <1>3, <1>4, <1>6

(* Induction over the characters of a text. *)
LEMMA TextInduction ==
  ASSUME NEW T, NEW P, <<>> \in P, \A s \in Seq(T), c \in T : s \in P => s \o <<c>> \in P
  PROVE  Seq(T) \subseteq P
<1>. DEFINE R == {n \in Nat : \A s \in Seq(T) : Len(s) = n => s \in P}
<1>1. 0 \in R
  <2>1. \A s \in Seq(T) : Len(s) = 0 => s = <<>>
    OBVIOUS
  <2>. QED
    BY <2>1
<1>2. ASSUME NEW n \in Nat, n \in R
      PROVE  n + 1 \in R
  <2>. SUFFICES ASSUME NEW s \in Seq(T), Len(s) = n + 1
                PROVE  s \in P
    OBVIOUS
  <2>1. PICK a \in Seq(T), c \in T : Len(a) = n /\ s = a \o <<c>>
    <3>1. s # <<>> /\ Len(s) - 1 = n
      OBVIOUS
    <3>. QED
      BY <3>1, LastOf
  <2>5. a \in P
    BY <1>2, <2>1
  <2>. QED
    BY <2>1, <2>5
<1>. HIDE DEF R
<1>3. Nat \subseteq R
  BY <1>1, <1>2, Induction
<1>4. \A s \in Seq(T) : Len(s) \in Nat
  OBVIOUS
<1>. QED
  BY <1>3, <1>4 DEF R

LEMMA OneMore ==
  ASSUME NEW T, NEW s \in Seq(T), NEW c \in T
  PROVE  /\ <<c>> \in Seq(T) /\ Len(<<c>>) = 1 /\ <<c>>[1] = c
         /\ s \o <<c>> \in Seq(T) /\ Len(s \o <<c>>) = Len(s) + 1 /\ (s \o <<c>>)[Len(s) + 1] = c
         /\ \A i \in 1 .. Len(s) : (s \o <<c>>)[i] = s[i]
<1>. PICK one : one = <<c>>
  OBVIOUS
<1>. PICK n \in Nat : n = Len(s)
  OBVIOUS
<1>. PICK r : r = s \o one
  OBVIOUS
<1>1. one \in Seq(T) /\ Len(one) = 1 /\ one[1] = c
  OBVIOUS
<1>2. /\ r \in Seq(T) /\ Len(r) = n + 1
      /\ \A i \in 1 .. n + 1 : r[i] = IF i <= n THEN s[i] ELSE one[i - n]
  BY <1>1, ConcatProperties
<1>3. n + 1 \in 1 .. n + 1 /\ ~(n + 1 <= n) /\ (n + 1) - n = 1 /\ \A i \in 1 .. n : i \in 1 .. n + 1 /\ i <= n
  OBVIOUS
<1>. QED
  BY <1>1, <1>2, <1>3

LEMMA CellsGrow ==
  /\ Cells(<<>>) = <<>>
  /\ \A s \in RowTexts, c \in Characters :
       /\ Cells(s) \in Seq(CellValues)
       /\ Cells(s \o <<c>>) = Cells(s) \o Glyph(c)
<1>1. Cells(<<>>) = <<>>
  <2>. PICK none : none = <<>>
    OBVIOUS
  <2>1. none \in RowTexts /\ Len(none) = 0
    BY DEF RowTexts
  <2>2. PICK d : CellsUpTo(d, none) /\ Cells(none) = d[Len(none)]
    BY <2>1, CellsFold
  <2>3. d[0] = <<>>
    BY <2>2 DEF CellsUpTo
  <2>. QED
    BY <2>1, <2>2, <2>3
<1>2. ASSUME NEW s \in RowTexts, NEW c \in Characters
      PROVE  Cells(s) \in Seq(CellValues) /\ Cells(s \o <<c>>) = Cells(s) \o Glyph(c)
  <2>0. s \in Seq(Characters)
    BY DEF RowTexts
  <2>. PICK n \in Nat : n = Len(s)
    BY <2>0
  <2>. PICK r : r = s \o <<c>>
    OBVIOUS
  <2>1. r \in RowTexts /\ Len(r) = n + 1 /\ r[n + 1] = c /\ \A i \in 1 .. n : r[i] = s[i]
    BY <2>0, OneMore DEF RowTexts
  <2>2. PICK d : CellsUpTo(d, s) /\ Cells(s) = d[n]
    BY CellsFold
  <2>3. PICK e : CellsUpTo(e, r) /\ Cells(r) = e[n + 1]
    BY <2>1, CellsFold
  <2>4. /\ d \in [0 .. n -> Seq(CellValues)] /\ d[0] = <<>>
        /\ \A k \in 0 .. (n - 1) : d[k + 1] = d[k] \o Glyph(s[k + 1])
    BY <2>2 DEF CellsUpTo
  <2>a. (n + 1) - 1 = n
    OBVIOUS
  <2>5. /\ e[0] = <<>>
        /\ \A k \in 0 .. n : e[k + 1] = e[k] \o Glyph(r[k + 1])
    BY <2>1, <2>3, <2>a DEF CellsUpTo
  <2>. DEFINE R == {k \in Nat : k <= n => e[k] = d[k]}
  <2>6. 0 \in R
    BY <2>4, <2>5
  <2>7. ASSUME NEW k \in Nat, k \in R
        PROVE  k + 1 \in R
    <3>. SUFFICES ASSUME k + 1 <= n
                  PROVE  e[k + 1] = d[k + 1]
      OBVIOUS
    <3>1. k <= n /\ k \in 0 .. (n - 1) /\ k \in 0 .. n /\ k + 1 \in 1 .. n
      OBVIOUS
    <3>2. e[k] = d[k] /\ r[k + 1] = s[k + 1]
      BY <2>1, <2>7, <3>1
    <3>. QED
      BY <3>1, <3>2, <2>4, <2>5
  <2>. HIDE DEF R
  <2>8. Nat \subseteq R
    BY <2>6, <2>7, Induction
  <2>9. e[n] = d[n] /\ n \in 0 .. n
    BY <2>8 DEF R
  <2>10. e[n + 1] = e[n] \o Glyph(r[n + 1])
    BY <2>5, <2>9
  <2>. QED
    BY <2>1, <2>2, <2>3, <2>4, <2>9, <2>10
<1>. QED
  BY <1>1, <1>2

LEMMA WidthGrows ==
  ASSUME NEW T, NEW s \in Seq(T), NEW c \in T
  PROVE  display_width(s \o <<c>>) = display_width(s) + char_display_width(c)
<1>1. <<c>> \in Seq(T)
  OBVIOUS
<1>2. display_width(s \o <<c>>) = display_width(s) + display_width(<<c>>)
  BY <1>1, WidthConcat
<1>. QED
  BY <1>2, WidthOne

LEMMA CellsLength ==
  ASSUME NEW s \in RowTexts
  PROVE  Cells(s) \in Seq(CellValues) /\ Len(Cells(s)) = display_width(s)
<1>. DEFINE P == {r \in Seq(Characters) : Cells(r) \in Seq(CellValues) /\ Len(Cells(r)) = display_width(r)}
<1>1. <<>> \in P
  <2>. PICK none : none = <<>>
    OBVIOUS
  <2>1. none \in Seq(Characters) /\ none \in Seq(CellValues) /\ Len(none) = 0
    OBVIOUS
  <2>. QED
    BY <2>1, CellsGrow, WidthEmpty
<1>2. ASSUME NEW r \in Seq(Characters), NEW c \in Characters, r \in P
      PROVE  r \o <<c>> \in P
  <2>. PICK more : more = r \o <<c>>
    OBVIOUS
  <2>1. more \in Seq(Characters)
    BY OneMore
  <2>2. Cells(more) = Cells(r) \o Glyph(c)
    BY CellsGrow DEF RowTexts
  <2>3. Glyph(c) \in Seq(CellValues) /\ Len(Glyph(c)) = char_display_width(c)
    BY GlyphIs
  <2>4. Cells(more) \in Seq(CellValues) /\ Len(Cells(more)) = Len(Cells(r)) + char_display_width(c)
    BY <1>2, <2>2, <2>3, ConcatProperties, ZenonT(20)
  <2>5. display_width(more) = display_width(r) + char_display_width(c)
    BY WidthGrows
  <2>. QED
    BY <1>2, <2>1, <2>4, <2>5
<1>. HIDE DEF P
<1>3. Seq(Characters) \subseteq P
  BY <1>1, <1>2, TextInduction
<1>. QED
  BY <1>3 DEF P, RowTexts

LEMMA CellsConcat ==
  ASSUME NEW a \in RowTexts, NEW b \in RowTexts
  PROVE  Cells(a \o b) = Cells(a) \o Cells(b)
<1>. DEFINE P == {r \in Seq(Characters) : Cells(a \o r) = Cells(a) \o Cells(r)}
<1>0. a \in Seq(Characters) /\ Cells(a) \in Seq(CellValues)
  BY CellsLength DEF RowTexts
<1>1. <<>> \in P
  <2>. PICK none : none = <<>>
    OBVIOUS
  <2>1. none \in Seq(Characters) /\ a \o none = a /\ Cells(a) \o none = Cells(a)
    BY <1>0, ConcatEmptySeq
  <2>. QED
    BY <2>1, CellsGrow
<1>2. ASSUME NEW r \in Seq(Characters), NEW c \in Characters, r \in P
      PROVE  r \o <<c>> \in P
  <2>. PICK one : one = <<c>>
    OBVIOUS
  <2>. PICK more : more = r \o one
    OBVIOUS
  <2>1. more \in Seq(Characters) /\ one \in Seq(Characters)
    BY OneMore
  <2>. PICK ar : ar = a \o r
    OBVIOUS
  <2>2. ar \in Seq(Characters) /\ a \o more = ar \o one
    BY <1>0, <2>1, ConcatAssociative, ConcatProperties
  <2>3. Cells(more) = Cells(r) \o Glyph(c) /\ Cells(ar \o one) = Cells(ar) \o Glyph(c)
    BY <2>2, CellsGrow DEF RowTexts
  <2>. PICK ca : ca = Cells(a)
    OBVIOUS
  <2>. PICK cr : cr = Cells(r)
    OBVIOUS
  <2>4. cr \in Seq(CellValues) /\ Glyph(c) \in Seq(CellValues) /\ ca \in Seq(CellValues)
    BY <1>0, CellsLength, GlyphIs DEF RowTexts
  <2>5. (ca \o cr) \o Glyph(c) = ca \o (cr \o Glyph(c))
    BY <2>4, ConcatAssociative, SMTT(30)
  <2>6. Cells(ar) = ca \o cr
    BY <1>2
  <2>. QED
    BY <2>1, <2>2, <2>3, <2>5, <2>6
<1>. HIDE DEF P
<1>3. Seq(Characters) \subseteq P
  BY <1>1, <1>2, TextInduction
<1>. QED
  BY <1>3 DEF P, RowTexts

LEMMA DisplayGrows ==
  ASSUME NEW t \in Consoles
  PROVE  /\ Display(t, <<>>) = t
         /\ \A s \in Seq(Printed), c \in Printed :
              Display(t, s) \in Consoles /\ Display(t, s \o <<c>>) = Put(Display(t, s), c)
<1>1. Display(t, <<>>) = t
  <2>. PICK none : none = <<>>
    OBVIOUS
  <2>1. none \in Seq(Printed) /\ Len(none) = 0
    OBVIOUS
  <2>2. PICK d : Displays(d, t, none) /\ Display(t, none) = d[Len(none)]
    BY <2>1, DisplayFolds
  <2>3. d[0] = t
    BY <2>2 DEF Displays
  <2>. QED
    BY <2>1, <2>2, <2>3
<1>2. ASSUME NEW s \in Seq(Printed), NEW c \in Printed
      PROVE  Display(t, s) \in Consoles /\ Display(t, s \o <<c>>) = Put(Display(t, s), c)
  <2>. PICK n \in Nat : n = Len(s)
    OBVIOUS
  <2>. PICK r : r = s \o <<c>>
    OBVIOUS
  <2>1. r \in Seq(Printed) /\ Len(r) = n + 1 /\ r[n + 1] = c /\ \A i \in 1 .. n : r[i] = s[i]
    BY OneMore
  <2>2. PICK d : Displays(d, t, s) /\ Display(t, s) = d[n]
    BY DisplayFolds
  <2>3. PICK e : Displays(e, t, r) /\ Display(t, r) = e[n + 1]
    BY <2>1, DisplayFolds
  <2>4. d[0] = t /\ \A k \in 0 .. (n - 1) : d[k + 1] = Put(d[k], s[k + 1])
    BY <2>2 DEF Displays
  <2>a. (n + 1) - 1 = n
    OBVIOUS
  <2>5. e[0] = t /\ \A k \in 0 .. n : e[k + 1] = Put(e[k], r[k + 1])
    BY <2>1, <2>3, <2>a DEF Displays
  <2>. DEFINE R == {k \in Nat : k <= n => e[k] = d[k]}
  <2>6. 0 \in R
    BY <2>4, <2>5
  <2>7. ASSUME NEW k \in Nat, k \in R
        PROVE  k + 1 \in R
    <3>. SUFFICES ASSUME k + 1 <= n
                  PROVE  e[k + 1] = d[k + 1]
      OBVIOUS
    <3>1. k <= n /\ k \in 0 .. (n - 1) /\ k \in 0 .. n /\ k + 1 \in 1 .. n
      OBVIOUS
    <3>2. e[k] = d[k] /\ r[k + 1] = s[k + 1]
      BY <2>1, <2>7, <3>1
    <3>. QED
      BY <3>1, <3>2, <2>4, <2>5
  <2>. HIDE DEF R
  <2>8. Nat \subseteq R
    BY <2>6, <2>7, Induction
  <2>9. e[n] = d[n] /\ n \in 0 .. n
    BY <2>8 DEF R
  <2>10. e[n + 1] = Put(e[n], r[n + 1])
    BY <2>5, <2>9
  <2>11. Display(t, s) \in Consoles
    BY DisplayType
  <2>. QED
    BY <2>1, <2>2, <2>3, <2>9, <2>10, <2>11
<1>. QED
  BY <1>1, <1>2

LEMMA TextsArePrinted == RowTexts \subseteq Seq(Printed) /\ Characters \subseteq Printed
<1>1. Characters \subseteq Printed
  BY DEF Printed
<1>2. \A s \in Seq(Characters) : s \in Seq(Printed)
  BY <1>1, SeqMonotonic
<1>. QED
  BY <1>1, <1>2 DEF RowTexts

(* What a text leaves on a console that has room for it in the row.         *)
Wrote(u, t, chars) ==
  /\ u \in Consoles /\ u.y = t.y /\ u.x = t.x + display_width(chars)
  /\ \A y \in 1 .. Height : y # t.y => u.cells[y] = t.cells[y]
  /\ \A j \in 1 .. Width : u.cells[t.y][j] =
       IF t.x < j /\ j <= t.x + display_width(chars) THEN Cells(chars)[j - t.x] ELSE t.cells[t.y][j]

LEMMA PutWrites ==
  ASSUME NEW t \in Consoles, NEW c \in Characters, t.x + char_display_width(c) < Width
  PROVE  /\ Put(t, c) \in Consoles /\ Put(t, c).y = t.y /\ Put(t, c).x = t.x + char_display_width(c)
         /\ \A y \in 1 .. Height : y # t.y => Put(t, c).cells[y] = t.cells[y]
         /\ \A j \in 1 .. Width : Put(t, c).cells[t.y][j] =
              IF t.x < j /\ j <= t.x + char_display_width(c) THEN Glyph(c)[j - t.x] ELSE t.cells[t.y][j]
<1>. PICK u : u = Put(t, c)
  OBVIOUS
<1>. PICK w \in {1, 2} : w = char_display_width(c)
  BY CharWidth
<1>. PICK x \in Nat : x = t.x
  BY ConsoleFields
<1>. PICK g : g = Glyph(c)
  OBVIOUS
<1>1. u \in Consoles /\ u.x = x + w /\ u.y = t.y /\ u.cells = Written(t, c).cells
  BY PutMoves
<1>2. \A y \in 1 .. Height : y # t.y => u.cells[y] = t.cells[y]
  BY <1>1, WrittenIs
<1>3. \A j \in 1 .. Width : u.cells[t.y][j] = IF j = x + 1 THEN c
                                              ELSE IF j = x + 2 /\ w = 2 THEN "half" ELSE t.cells[t.y][j]
  BY <1>1, WrittenIs
<1>4. g[1] = c /\ (w = 2 => g[2] = "half")
  BY GlyphIs
<1>5. ASSUME NEW j \in 1 .. Width
      PROVE  u.cells[t.y][j] = IF x < j /\ j <= x + w THEN g[j - x] ELSE t.cells[t.y][j]
  <2>1. CASE j = x + 1
    <3>1. j - x = 1 /\ x < j /\ j <= x + w
      BY <2>1
    <3>. QED
      BY <3>1, <2>1, <1>3, <1>4
  <2>2. CASE j = x + 2 /\ w = 2
    <3>1. j - x = 2 /\ x < j /\ j <= x + w /\ j # x + 1
      BY <2>2
    <3>. QED
      BY <3>1, <2>2, <1>3, <1>4
  <2>3. CASE j # x + 1 /\ ~(j = x + 2 /\ w = 2)
    <3>1. ~(x < j /\ j <= x + w)
      BY <2>3
    <3>. QED
      BY <3>1, <2>3, <1>3
  <2>. QED
    BY <2>1, <2>2, <2>3
<1>. QED
  BY <1>1, <1>2, <1>5

LEMMA DisplayWrites ==
  ASSUME NEW t \in Consoles, NEW chars \in RowTexts, t.x + display_width(chars) < Width
  PROVE  Wrote(Display(t, chars), t, chars)
<1>. DEFINE P == {r \in Seq(Characters) : t.x + display_width(r) < Width => Wrote(Display(t, r), t, r)}
<1>1. <<>> \in P
  <2>. PICK none : none = <<>>
    OBVIOUS
  <2>1. none \in Seq(Characters) /\ display_width(none) = 0 /\ Display(t, none) = t
    BY WidthEmpty, DisplayGrows
  <2>2. t.x = t.x + 0 /\ \A j \in 1 .. Width : ~(t.x < j /\ j <= t.x + 0)
    BY ConsoleFields
  <2>3. Wrote(t, t, none)
    BY <2>1, <2>2 DEF Wrote
  <2>. QED
    BY <2>1, <2>3
<1>2. ASSUME NEW r \in Seq(Characters), NEW c \in Characters, r \in P
      PROVE  r \o <<c>> \in P
  <2>. PICK more : more = r \o <<c>>
    OBVIOUS
  <2>. PICK n \in Nat : n = display_width(r)
    BY WidthType
  <2>. PICK w \in {1, 2} : w = char_display_width(c)
    BY CharWidth
  <2>. PICK x \in Nat : x = t.x
    BY ConsoleFields
  <2>1. more \in Seq(Characters) /\ display_width(more) = n + w
    BY OneMore, WidthGrows
  <2>. SUFFICES ASSUME x + (n + w) < Width
                PROVE  Wrote(Display(t, more), t, more)
    BY <2>1
  <2>2. x + n < Width /\ (x + n) + w < Width
    BY Sizes, SMTT(30)
  <2>. PICK u : u = Display(t, r)
    OBVIOUS
  <2>3. Wrote(u, t, r)
    BY <1>2, <2>2
  <2>4. /\ u \in Consoles /\ u.y = t.y /\ u.x = x + n
        /\ \A y \in 1 .. Height : y # t.y => u.cells[y] = t.cells[y]
        /\ \A j \in 1 .. Width : u.cells[t.y][j] =
             IF x < j /\ j <= x + n THEN Cells(r)[j - x] ELSE t.cells[t.y][j]
    BY <2>3 DEF Wrote
  <2>. PICK v : v = Put(u, c)
    OBVIOUS
  <2>5. Display(t, more) = v
    <3>1. r \in Seq(Printed) /\ c \in Printed
      BY TextsArePrinted DEF RowTexts
    <3>. QED
      BY <3>1, DisplayGrows
  <2>6. /\ v \in Consoles /\ v.y = u.y /\ v.x = u.x + w
        /\ \A y \in 1 .. Height : y # u.y => v.cells[y] = u.cells[y]
        /\ \A j \in 1 .. Width : v.cells[u.y][j] =
             IF u.x < j /\ j <= u.x + w THEN Glyph(c)[j - u.x] ELSE u.cells[u.y][j]
    BY <2>2, <2>4, PutWrites
  <2>. PICK cr : cr = Cells(r)
    OBVIOUS
  <2>. PICK cm : cm = Cells(more)
    OBVIOUS
  <2>7. cr \in Seq(CellValues) /\ Len(cr) = n
    BY CellsLength DEF RowTexts
  <2>8. cm = cr \o Glyph(c)
    BY CellsGrow DEF RowTexts
  <2>9. \A i \in 1 .. n + w : cm[i] = IF i <= n THEN cr[i] ELSE Glyph(c)[i - n]
    <3>1. Glyph(c) \in Seq(CellValues) /\ Len(Glyph(c)) = w
      BY GlyphIs
    <3>. PICK g : g = Glyph(c)
      OBVIOUS
    <3>2. \A i \in 1 .. Len(cr) + Len(g) : (cr \o g)[i] = IF i <= Len(cr) THEN cr[i] ELSE g[i - Len(cr)]
      BY <3>1, <2>7, ConcatProperties
    <3>. QED
      BY <3>1, <3>2, <2>7, <2>8
  <2>10. ASSUME NEW j \in 1 .. Width
         PROVE  v.cells[t.y][j] = IF x < j /\ j <= x + (n + w) THEN cm[j - x] ELSE t.cells[t.y][j]
    <3>1. v.cells[t.y][j] = IF x + n < j /\ j <= (x + n) + w THEN Glyph(c)[j - (x + n)] ELSE u.cells[t.y][j]
      BY <2>4, <2>6, SMTT(30)
    <3>0. j \in Nat
      BY Sizes
    <3>a. \A p, q, k, l \in Nat : q + k < p /\ p <= (q + k) + l =>
            q < p /\ p <= q + (k + l) /\ p - q \in 1 .. k + l /\ ~(p - q <= k)
      OBVIOUS
    <3>c. \A p, q, k \in Nat : (p - q) - k = p - (q + k)
      OBVIOUS
    <3>d. w \in Nat
      OBVIOUS
    <3>b. \A p, q, k \in Nat : q < p /\ p <= q + k =>
            q < p /\ p <= q + (k + w) /\ p - q \in 1 .. k + w /\ p - q <= k /\ ~(q + k < p)
      BY SMTT(30)
    <3>2. CASE x + n < j /\ j <= (x + n) + w
      <4>1. x < j /\ j <= x + (n + w) /\ j - x \in 1 .. n + w /\ ~(j - x <= n) /\ (j - x) - n = j - (x + n)
        <5>1. x < j /\ j <= x + (n + w) /\ j - x \in 1 .. n + w /\ ~(j - x <= n)
          BY <3>2, <3>0, <3>a, <3>d
        <5>2. (j - x) - n = j - (x + n)
          BY <3>0, <3>c
        <5>. QED
          BY <5>1, <5>2
      <4>. QED
        BY <3>1, <3>2, <4>1, <2>9
    <3>3. CASE x < j /\ j <= x + n
      <4>1. x < j /\ j <= x + (n + w) /\ j - x \in 1 .. n + w /\ j - x <= n /\ ~(x + n < j)
        BY <3>3, <3>0, <3>b
      <4>2. u.cells[t.y][j] = cr[j - x]
        BY <3>3, <2>4
      <4>. QED
        BY <3>1, <4>1, <4>2, <2>9
    <3>4. CASE ~(x + n < j /\ j <= (x + n) + w) /\ ~(x < j /\ j <= x + n)
      <4>1. ~(x < j /\ j <= x + (n + w))
        BY <3>4, SMTT(30)
      <4>. QED
        BY <3>1, <3>4, <4>1, <2>4
    <3>. QED
      BY <3>2, <3>3, <3>4
  <2>11. (x + n) + w = x + (n + w)
    OBVIOUS
  <2>12. v \in Consoles /\ v.y = t.y /\ v.x = x + (n + w) /\ \A y \in 1 .. Height : y # t.y => v.cells[y] = t.cells[y]
    BY <2>4, <2>6, <2>11
  <2>. QED
    BY <2>1, <2>5, <2>10, <2>12 DEF Wrote
<1>. HIDE DEF P
<1>3. Seq(Characters) \subseteq P
  BY <1>1, <1>2, TextInduction
<1>. QED
  BY <1>3 DEF P, RowTexts

-----------------------------------------------------------------------------
(***************************************************************************)
(* Rows, cell by cell.                                                     *)
(***************************************************************************)
Joins(T, s, a, la, b, lb) ==
  /\ s \in Seq(T) /\ Len(s) = la + lb
  /\ \A i \in 1 .. la + lb : s[i] = IF i <= la THEN a[i] ELSE b[i - la]

LEMMA Joined ==
  ASSUME NEW T, NEW a \in Seq(T), NEW b \in Seq(T)
  PROVE  Joins(T, a \o b, a, Len(a), b, Len(b))
  BY ConcatProperties DEF Joins

Has(row, from, chars) == \A j \in 1 .. display_width(chars) : row[from + j] = Cells(chars)[j]
BlankAfter(row, n) == \A j \in 1 .. Width : n < j => row[j] = " "
Shows1(row, from, chars) ==
  from + display_width(chars) <= Width /\ Has(row, from, chars) /\ BlankAfter(row, from + display_width(chars))

LEMMA BlanksBeyond ==
  ASSUME NEW k \in Int, ~(0 <= k)
  PROVE  Spaces(k) = Spaces(0)
<1>1. 1 .. k = 1 .. 0
  OBVIOUS
<1>. QED
  BY <1>1, Zenon DEF Spaces

LEMMA EndOfRow ==
  ASSUME NEW row \in ConsoleRows, NEW from \in 0 .. Width
  PROVE  /\ SubSeq(row, from + 1, Width) \in Seq(CellValues) /\ Len(SubSeq(row, from + 1, Width)) = Width - from
         /\ \A i \in 1 .. (Width - from) : SubSeq(row, from + 1, Width)[i] = row[from + i]
<1>. PICK n \in Nat : n = Width
  BY Sizes
<1>1. row \in Seq(CellValues) /\ Len(row) = n
  BY FunctionIsSeq DEF ConsoleRows
<1>2. from \in 0 .. Len(row)
  BY <1>1
<1>3. /\ After(row, from) \in Seq(CellValues) /\ Len(After(row, from)) = Len(row) - from
      /\ \A i \in 1 .. (Len(row) - from) : After(row, from)[i] = row[from + i]
  BY <1>1, <1>2, Split
<1>. QED
  BY <1>1, <1>3 DEF After

LEMMA SpacesAreCells ==
  ASSUME NEW n \in Nat
  PROVE  Spaces(n) \in Seq(CellValues) /\ Len(Spaces(n)) = n /\ \A i \in 1 .. n : Spaces(n)[i] = " "
<1>1. Characters \subseteq CellValues
  BY DEF CellValues
<1>2. Spaces(n) \in Seq(Characters)
  BY WidthSpaces DEF RowTexts
<1>3. Spaces(n) \in Seq(CellValues)
  BY <1>1, <1>2, SeqMonotonic
<1>. QED
  BY <1>3, WidthSpaces

LEMMA RowShowsIs ==
  ASSUME NEW t \in Consoles, NEW y \in 1 .. Height, NEW from \in 0 .. Width, NEW chars \in RowTexts
  PROVE  RowShows(t, y, from, chars) <=> Shows1(t.cells[y], from, chars)
<1>. PICK row : row = t.cells[y]
  OBVIOUS
<1>. PICK n \in Nat : n = Width
  BY Sizes
<1>. PICK w \in Nat : w = display_width(chars)
  BY WidthType DEF RowTexts
<1>. PICK cells : cells = Cells(chars)
  OBVIOUS
<1>. PICK rest : rest = SubSeq(row, from + 1, n)
  OBVIOUS
<1>1. row \in ConsoleRows /\ cells \in Seq(CellValues) /\ Len(cells) = w
  BY ConsoleFields, CellsLength
<1>2. rest \in Seq(CellValues) /\ Len(rest) = n - from /\ \A i \in 1 .. (n - from) : rest[i] = row[from + i]
  BY <1>1, EndOfRow
<1>3. RowShows(t, y, from, chars) <=> rest = cells \o Spaces(n - from - w)
  BY <1>1 DEF RowShows
<1>4. Shows1(row, from, chars) <=>
        /\ from + w <= n
        /\ \A j \in 1 .. w : row[from + j] = cells[j]
        /\ \A j \in 1 .. n : from + w < j => row[j] = " "
  BY DEF Shows1, Has, BlankAfter
<1>5. CASE ~(from + w <= n)
  <2>1. ~(0 <= n - from - w) /\ n - from - w \in Int
    BY <1>5
  <2>2. Spaces(n - from - w) = Spaces(0)
    BY <2>1, BlanksBeyond
  <2>3. Spaces(0) \in Seq(CellValues) /\ Len(Spaces(0)) = 0
    BY SpacesAreCells
  <2>4. Len(cells \o Spaces(0)) = w + 0
    BY <2>3, <1>1, ConcatProperties
  <2>5. n - from # w + 0
    BY <1>5
  <2>. QED
    BY <2>2, <2>4, <2>5, <1>2, <1>3, <1>4, <1>5
<1>6. CASE from + w <= n
  <2>. PICK k \in Nat : k = n - from - w
    BY <1>6
  <2>. PICK blanks : blanks = Spaces(k)
    OBVIOUS
  <2>1. blanks \in Seq(CellValues) /\ Len(blanks) = k /\ \A i \in 1 .. k : blanks[i] = " "
    BY SpacesAreCells
  <2>2. n - from = w + k
    OBVIOUS
  <2>. PICK both : both = cells \o blanks
    OBVIOUS
  <2>3. /\ both \in Seq(CellValues) /\ Len(both) = w + k
        /\ \A i \in 1 .. w + k : both[i] = IF i <= w THEN cells[i] ELSE blanks[i - w]
    <3>1. Joins(CellValues, both, cells, w, blanks, k)
      BY <1>1, <2>1, Joined
    <3>. QED
      BY <3>1 DEF Joins
  <2>4. ASSUME rest = both
        PROVE  Shows1(row, from, chars)
    <3>1. ASSUME NEW j \in 1 .. w
          PROVE  row[from + j] = cells[j]
      <4>1. j \in 1 .. w + k /\ j <= w /\ j \in 1 .. (n - from)
        BY <2>2, SMTT(30)
      <4>2. both[j] = cells[j]
        BY <4>1, <2>3
      <4>3. rest[j] = row[from + j]
        BY <4>1, <1>2
      <4>. QED
        BY <4>2, <4>3, <2>4
    <3>2. ASSUME NEW j \in 1 .. n, from + w < j
          PROVE  row[j] = " "
      <4>0. \A p, q, r, m \in Nat : r + m < p /\ p <= q /\ r + m <= q =>
              /\ p - r \in 1 .. m + (q - r - m) /\ ~(p - r <= m) /\ (p - r) - m \in 1 .. (q - r - m)
              /\ r + (p - r) = p
        OBVIOUS
      <4>a. j \in Nat /\ j <= n /\ from \in Nat
        OBVIOUS
      <4>1. j - from \in 1 .. w + k /\ ~(j - from <= w) /\ (j - from) - w \in 1 .. k /\ from + (j - from) = j
        BY <4>0, <4>a, <1>6, <3>2
      <4>2. j - from \in 1 .. (n - from)
        BY <4>1, <2>2
      <4>3. both[j - from] = " "
        BY <4>1, <2>1, <2>3
      <4>4. rest[j - from] = row[from + (j - from)]
        BY <4>2, <1>2
      <4>. QED
        BY <4>1, <4>3, <4>4, <2>4
    <3>. QED
      BY <3>1, <3>2, <1>4, <1>6
  <2>5. ASSUME Shows1(row, from, chars)
        PROVE  rest = both
    <3>0. /\ \A j \in 1 .. w : row[from + j] = cells[j]
          /\ \A j \in 1 .. n : from + w < j => row[j] = " "
      BY <2>5, <1>4
    <3>1. ASSUME NEW i \in 1 .. w + k
          PROVE  rest[i] = both[i]
      <4>0. rest[i] = row[from + i]
        BY <2>2, <1>2
      <4>1. CASE i <= w
        <5>1. i \in 1 .. w
          BY <4>1
        <5>. QED
          BY <5>1, <4>0, <4>1, <3>0, <2>3
      <4>2. CASE ~(i <= w)
        <5>0. \A p, q, m \in Nat : p <= m + q /\ ~(p <= m) => p - m \in 1 .. q
          OBVIOUS
        <5>a. i \in Nat /\ i <= w + k
          OBVIOUS
        <5>b. i - w \in 1 .. k
          BY <5>0, <5>a, <4>2
        <5>1. from + i \in 1 .. n /\ from + w < from + i /\ i - w \in 1 .. k
          BY <5>b, <4>2, <2>2
        <5>2. row[from + i] = " " /\ blanks[i - w] = " "
          BY <5>1, <3>0, <2>1
        <5>. QED
          BY <5>2, <4>0, <4>2, <2>3
      <4>. QED
        BY <4>1, <4>2
    <3>2. Len(rest) = w + k
      BY <1>2, <2>2
    <3>. QED
      BY <3>1, <3>2, <1>2, <2>3, SeqEqual, ZenonT(20)
  <2>. QED
    BY <2>4, <2>5, <1>3
<1>. QED
  BY <1>5, <1>6

LEMMA HasConcat ==
  ASSUME NEW row, NEW from \in Nat, NEW a \in RowTexts, NEW b \in RowTexts
  PROVE  Has(row, from, a \o b) <=> Has(row, from, a) /\ Has(row, from + display_width(a), b)
<1>. PICK la \in Nat : la = display_width(a)
  BY WidthType DEF RowTexts
<1>. PICK lb \in Nat : lb = display_width(b)
  BY WidthType DEF RowTexts
<1>. PICK ab : ab = a \o b
  OBVIOUS
<1>. PICK ca : ca = Cells(a)
  OBVIOUS
<1>. PICK cb : cb = Cells(b)
  OBVIOUS
<1>. PICK cab : cab = Cells(ab)
  OBVIOUS
<1>1. display_width(ab) = la + lb
  BY WidthConcat DEF RowTexts
<1>2. ca \in Seq(CellValues) /\ Len(ca) = la /\ cb \in Seq(CellValues) /\ Len(cb) = lb
  BY CellsLength
<1>3. \A i \in 1 .. la + lb : cab[i] = IF i <= la THEN ca[i] ELSE cb[i - la]
  <2>1. cab = ca \o cb
    BY CellsConcat
  <2>. QED
    BY <2>1, <1>2, ConcatProperties
<1>4. Has(row, from, ab) <=> \A j \in 1 .. la + lb : row[from + j] = cab[j]
  BY <1>1 DEF Has
<1>5. Has(row, from, a) <=> \A j \in 1 .. la : row[from + j] = ca[j]
  BY DEF Has
<1>6. Has(row, from + la, b) <=> \A j \in 1 .. lb : row[(from + la) + j] = cb[j]
  BY DEF Has
<1>7. ASSUME \A j \in 1 .. la + lb : row[from + j] = cab[j]
      PROVE  (\A j \in 1 .. la : row[from + j] = ca[j]) /\ (\A j \in 1 .. lb : row[(from + la) + j] = cb[j])
  <2>1. ASSUME NEW j \in 1 .. la
        PROVE  row[from + j] = ca[j]
    <3>1. j \in 1 .. la + lb /\ j <= la
      OBVIOUS
    <3>. QED
      BY <3>1, <1>3, <1>7
  <2>2. ASSUME NEW j \in 1 .. lb
        PROVE  row[(from + la) + j] = cb[j]
    <3>1. la + j \in 1 .. la + lb /\ ~(la + j <= la) /\ (la + j) - la = j /\ from + (la + j) = (from + la) + j
      OBVIOUS
    <3>. PICK m : m = la + j
      OBVIOUS
    <3>2. row[from + m] = cab[m] /\ cab[m] = cb[m - la]
      BY <3>1, <1>3, <1>7
    <3>. QED
      BY <3>1, <3>2
  <2>. QED
    BY <2>1, <2>2
<1>8. ASSUME \A j \in 1 .. la : row[from + j] = ca[j], \A j \in 1 .. lb : row[(from + la) + j] = cb[j]
      PROVE  \A j \in 1 .. la + lb : row[from + j] = cab[j]
  <2>. SUFFICES ASSUME NEW j \in 1 .. la + lb
                PROVE  row[from + j] = cab[j]
    OBVIOUS
  <2>1. CASE j <= la
    BY <2>1, <1>3, <1>8
  <2>2. CASE ~(j <= la)
    <3>1. j - la \in 1 .. lb /\ (from + la) + (j - la) = from + j
      BY <2>2
    <3>. PICK m : m = j - la
      OBVIOUS
    <3>2. row[(from + la) + m] = cb[m] /\ cab[j] = cb[m]
      BY <3>1, <2>2, <1>3, <1>8
    <3>. QED
      BY <3>1, <3>2
  <2>. QED
    BY <2>1, <2>2
<1>. QED
  BY <1>4, <1>5, <1>6, <1>7, <1>8

LEMMA ClearedRows ==
  ASSUME NEW t \in Consoles, NEW from \in 1 .. Height + 1, NEW n \in Nat
  PROVE  /\ ClearRows(t, from, n) \in Consoles /\ ClearRows(t, from, n).x = t.x /\ ClearRows(t, from, n).y = t.y
         /\ \A y \in 1 .. Height : ClearRows(t, from, n).cells[y] =
              IF from <= y /\ y <= from + n - 1 THEN EmptyRow ELSE t.cells[y]
<1>. PICK h \in Nat \ {0} : h = Height
  BY Sizes
<1>. PICK below \in Int : below = IF h <= from + n - 1 THEN h ELSE from + n - 1
  OBVIOUS
<1>1. Min({h, from + n - 1}) = below
  BY MinOfTwo
<1>. PICK u : u = ClearRows(t, from, n)
  OBVIOUS
<1>. PICK old : old = t.cells
  OBVIOUS
<1>2. old \in Seq(ConsoleRows) /\ Len(old) = h
  BY ConsoleFields, FunctionIsSeq
<1>3. CASE below < from
  <2>1. u = t
    BY <1>1, <1>3 DEF ClearRows
  <2>2. \A y \in 1 .. h : ~(from <= y /\ y <= from + n - 1)
    BY <1>3
  <2>. QED
    BY <2>1, <2>2
<1>4. CASE ~(below < from)
  <2>a. PICK a \in 0 .. h, k \in Nat, c \in 0 .. h :
          a = from - 1 /\ k = below - from + 1 /\ c = below /\ c = a + k
    <3>1. from - 1 \in 0 .. h /\ below - from + 1 \in Nat /\ below \in 0 .. h /\ below = (from - 1) + (below - from + 1)
      BY <1>4
    <3>. QED
      BY <3>1
  <2>. PICK upper : upper = SubSeq(old, 1, a)
    OBVIOUS
  <2>. PICK empty : empty = EmptyRows(k)
    OBVIOUS
  <2>. PICK lower : lower = After(old, c)
    OBVIOUS
  <2>. PICK m \in Nat : m = h - c
    OBVIOUS
  <2>0. c = a + k /\ c + m = h /\ (a + k) + m = h
    BY <2>a
  <2>b. a \in 0 .. Len(old) /\ c \in 0 .. Len(old)
    BY <1>2
  <2>1. upper \in Seq(ConsoleRows) /\ Len(upper) = a /\ \A i \in 1 .. a : upper[i] = old[i]
    BY <1>2, <2>b, Split
  <2>2. lower \in Seq(ConsoleRows) /\ Len(lower) = m /\ \A i \in 1 .. m : lower[i] = old[c + i]
    <3>1. Halves(ConsoleRows, old, c, SubSeq(old, 1, c), lower)
      BY <1>2, <2>b, HalvesAre
    <3>. QED
      BY <3>1, <1>2 DEF Halves
  <2>3. empty \in Seq(ConsoleRows) /\ Len(empty) = k /\ \A i \in 1 .. k : empty[i] = EmptyRow
    <3>. PICK blank : blank = EmptyRow
      OBVIOUS
    <3>1. empty = [y \in 1 .. k |-> blank] /\ blank \in ConsoleRows
      BY EmptyRowType DEF EmptyRows
    <3>2. empty \in [1 .. k -> ConsoleRows] /\ \A i \in 1 .. k : empty[i] = blank
      BY <3>1
    <3>. QED
      BY <3>2, FunctionIsSeq
  <2>. PICK ue : ue = upper \o empty
    OBVIOUS
  <2>. PICK all : all = ue \o lower
    OBVIOUS
  <2>4. Joins(ConsoleRows, ue, upper, a, empty, k)
    BY <2>1, <2>3, Joined
  <2>c. ue \in Seq(ConsoleRows) /\ Len(ue) = a + k
    BY <2>4 DEF Joins
  <2>5. Joins(ConsoleRows, all, ue, a + k, lower, m)
    BY <2>2, <2>c, Joined
  <2>6. all \in Seq(ConsoleRows) /\ Len(all) = h
    BY <2>0, <2>5 DEF Joins
  <2>7. all \in [1 .. h -> ConsoleRows]
    <3>. HIDE <2>a
    <3>. QED
      BY <2>6, LenProperties
  <2>8. ASSUME NEW y \in 1 .. h
        PROVE  all[y] = IF from <= y /\ y <= from + n - 1 THEN EmptyRow ELSE old[y]
    <3>1. all[y] = IF y <= a + k THEN ue[y] ELSE lower[y - (a + k)]
      BY <2>0, <2>5 DEF Joins
    <3>a. y \in 1 .. a + k => ue[y] = IF y <= a THEN upper[y] ELSE empty[y - a]
      BY <2>4 DEF Joins
    <3>2. CASE y <= a
      <4>1. y \in 1 .. a /\ y <= a + k /\ y \in 1 .. a + k /\ ~(from <= y)
        BY <3>2, <2>a
      <4>2. upper[y] = old[y]
        BY <4>1, <2>1
      <4>. QED
        BY <4>1, <4>2, <3>1, <3>2, <3>a
    <3>3. CASE ~(y <= a) /\ y <= a + k
      <4>1. y - a \in 1 .. k /\ y \in 1 .. a + k /\ from <= y /\ y <= from + n - 1
        BY <3>3, <2>a
      <4>2. empty[y - a] = EmptyRow
        BY <4>1, <2>3
      <4>. QED
        BY <4>1, <4>2, <3>1, <3>3, <3>a
    <3>4. CASE ~(y <= a + k)
      <4>a. y - c \in 1 .. m /\ c + (y - c) = y
        BY <3>4, <2>0
      <4>b. ~(y <= from + n - 1)
        BY <3>4, <2>a
      <4>. PICK i \in 1 .. m : i = y - c
        BY <4>a
      <4>1. lower[i] = old[c + i]
        BY <2>2
      <4>2. all[y] = lower[i] /\ c + i = y
        BY <4>a, <3>1, <3>4, <2>0
      <4>. QED
        BY <4>b, <4>1, <4>2
    <3>. QED
      BY <3>2, <3>3, <3>4
  <2>. DEFINE v == [t EXCEPT !.cells = all]
  <2>9. v \in Consoles /\ v.x = t.x /\ v.y = t.y /\ v.cells = all
    BY <2>7 DEF Consoles
  <2>10. u = v
    <3>1. u = [t EXCEPT !.cells = SubSeq(@, 1, from - 1) \o EmptyRows(below - from + 1) \o SubSeq(@, below + 1, h)]
      BY <1>1, <1>4 DEF ClearRows
    <3>2. lower = SubSeq(old, below + 1, h)
      BY <1>2, <2>a DEF After
    <3>3. upper = SubSeq(old, 1, from - 1) /\ empty = EmptyRows(below - from + 1)
      BY <2>a
    <3>. QED
      BY <3>1, <3>2, <3>3
  <2>. HIDE DEF v
  <2>. QED
    BY <2>8, <2>9, <2>10
<1>. QED
  BY <1>3, <1>4

LEMMA KeptBelow ==
  ASSUME NEW t \in Consoles
  PROVE  /\ BelowTheLine(t) \in Consoles /\ BelowTheLine(t).x = t.x /\ BelowTheLine(t).y = t.y
         /\ \A y \in 1 .. Height : t.y <= y => BelowTheLine(t).cells[y] = t.cells[y]
<1>. PICK k \in Nat : k = t.y - 1
  BY ConsoleFields
<1>1. 1 \in 1 .. Height + 1 /\ \A y \in 1 .. Height : t.y <= y => ~(1 <= y /\ y <= 1 + k - 1)
  BY ConsoleFields, Sizes
<1>. PICK u : u = BelowTheLine(t)
  OBVIOUS
<1>2. u = ClearRows(t, 1, k)
  BY DEF BelowTheLine
<1>3. /\ u \in Consoles /\ u.x = t.x /\ u.y = t.y
      /\ \A y \in 1 .. Height : u.cells[y] = IF 1 <= y /\ y <= 1 + k - 1 THEN EmptyRow ELSE t.cells[y]
  BY <1>1, <1>2, ClearedRows, SMTT(30)
<1>. QED
  BY <1>1, <1>3

LEMMA LineCleared ==
  ASSUME NEW t \in Consoles
  PROVE  /\ clear_current_line(t) \in Consoles /\ clear_current_line(t).x = 0 /\ clear_current_line(t).y = t.y
         /\ \A y \in 1 .. Height : clear_current_line(t).cells[y] = IF y = t.y THEN EmptyRow ELSE t.cells[y]
<1>. PICK u : u = ClearRows(t, t.y, 1)
  OBVIOUS
<1>. PICK from \in Nat : from = t.y
  BY ConsoleFields
<1>1. from \in 1 .. Height + 1 /\ \A y \in 1 .. Height : (from <= y /\ y <= from + 1 - 1) <=> y = from
  BY ConsoleFields, Sizes
<1>2. /\ u \in Consoles /\ u.x = t.x /\ u.y = t.y
      /\ \A y \in 1 .. Height : u.cells[y] = IF from <= y /\ y <= from + 1 - 1 THEN EmptyRow ELSE t.cells[y]
  BY <1>1, ClearedRows
<1>. DEFINE v == [u EXCEPT !.x = 0]
<1>3. 0 \in 0 .. Width - 1
  BY Sizes
<1>4. v \in Consoles /\ v.x = 0 /\ v.y = u.y /\ v.cells = u.cells
  BY <1>2, <1>3 DEF Consoles
<1>5. clear_current_line(t) = v
  BY DEF clear_current_line
<1>. HIDE DEF v
<1>. QED
  BY <1>1, <1>2, <1>4, <1>5

LEMMA MovedBack ==
  ASSUME NEW t \in Consoles, NEW n \in Nat
  PROVE  /\ Backspaces(t, n) \in Consoles /\ Backspaces(t, n).y = t.y /\ Backspaces(t, n).cells = t.cells
         /\ n <= t.x => Backspaces(t, n).x = t.x - n
<1>. PICK x \in Nat : x = t.x
  BY ConsoleFields
<1>1. x < Width /\ x - n \in Int
  BY ConsoleFields
<1>2. Max({0, x - n}) = IF 0 >= x - n THEN 0 ELSE x - n
  BY <1>1, MaxOfTwo
<1>. PICK to : to = Max({0, x - n})
  OBVIOUS
<1>3. to \in 0 .. Width - 1 /\ (n <= x => to = x - n)
  BY <1>1, <1>2, Sizes
<1>. DEFINE v == [t EXCEPT !.x = to]
<1>4. v \in Consoles /\ v.x = to /\ v.y = t.y /\ v.cells = t.cells
  BY <1>3 DEF Consoles
<1>5. Backspaces(t, n) = v
  BY DEF Backspaces
<1>. HIDE DEF v
<1>. QED
  BY <1>3, <1>4, <1>5

LEMMA ClearScreenType ==
  /\ clear_screen \in Consoles /\ clear_screen.x = 0 /\ clear_screen.y = 1
  /\ \A y \in 1 .. Height : clear_screen.cells[y] = EmptyRow
<1>. PICK blank : blank = EmptyRow
  OBVIOUS
<1>. PICK rows : rows = EmptyRows(Height)
  OBVIOUS
<1>1. rows \in [1 .. Height -> ConsoleRows] /\ \A y \in 1 .. Height : rows[y] = blank
  BY EmptyRowType DEF EmptyRows
<1>2. 0 \in 0 .. Width - 1 /\ 1 \in 1 .. Height
  BY Sizes
<1>3. clear_screen = [cells |-> rows, x |-> 0, y |-> 1]
  BY DEF clear_screen
<1>. QED
  BY <1>1, <1>2, <1>3 DEF Consoles

Prompts == {Prompt, ContinuationPrompt, <<"nl">> \o Prompt}
Origins == [x : 0 .. Width - 1, y : 1 .. Height]

(* A prompt as the console shows it, in a row of its own. *)
LEMMA PromptTexts ==
  /\ Prompt \in RowTexts /\ ContinuationPrompt \in RowTexts
  /\ display_width(Prompt) + MaxWidth < Width
  /\ Len(ContinuationPrompt) + MaxWidth + display_width(ContinuationPrompt) < Width
  BY EditorAssumption

LEMMA NoNewline == "nl" \notin Characters
  BY EditorAssumption

LEMMA PlainPrompt ==
  ASSUME NEW p \in RowTexts
  PROVE  PromptShown(p) = p
<1>1. p # <<>> => p[1] \in Characters
  <2>1. ASSUME p # <<>>
        PROVE  p[1] \in Characters
    <3>1. p \in Seq(Characters) /\ Len(p) \in Nat \ {0}
      BY <2>1, EmptySeq DEF RowTexts
    <3>2. 1 \in 1 .. Len(p)
      BY <3>1
    <3>. QED
      BY <3>1, <3>2, ElementOfSeq
  <2>. QED
    BY <2>1
<1>. QED
  BY <1>1, NoNewline DEF PromptShown

LEMMA NewlinePrompt ==
  ASSUME NEW p \in RowTexts
  PROVE  /\ <<"nl">> \o p \in Seq(Printed) /\ Len(<<"nl">> \o p) = Len(p) + 1
         /\ PromptShown(<<"nl">> \o p) = p
<1>. PICK nl : nl = "nl"
  OBVIOUS
<1>. PICK one : one = <<nl>>
  OBVIOUS
<1>. PICK r : r = one \o p
  OBVIOUS
<1>. PICK n \in Nat : n = Len(p)
  BY DEF RowTexts
<1>1. nl \in Printed /\ p \in Seq(Printed)
  BY TextsArePrinted DEF Printed
<1>2. one \in Seq(Printed) /\ Len(one) = 1 /\ one[1] = nl
  BY <1>1
<1>3. Joins(Printed, r, one, 1, p, n)
  BY <1>1, <1>2, Joined
<1>4. /\ r \in Seq(Printed) /\ Len(r) = 1 + n
      /\ \A i \in 1 .. 1 + n : r[i] = IF i <= 1 THEN one[i] ELSE p[i - 1]
  BY <1>3 DEF Joins
<1>5. r[1] = nl /\ r # <<>>
  <2>1. 1 \in 1 .. 1 + n /\ 1 + n # 0
    OBVIOUS
  <2>2. r[1] = one[1] /\ Len(r) # 0
    BY <2>1, <1>4
  <2>3. Len(<<>>) = 0
    OBVIOUS
  <2>. QED
    BY <2>2, <2>3, <1>2
<1>6. 1 \in 0 .. Len(r)
  BY <1>4
<1>7. Halves(Printed, r, 1, SubSeq(r, 1, 1), After(r, 1))
  BY <1>4, <1>6, HalvesAre
<1>. PICK rest : rest = After(r, 1)
  OBVIOUS
<1>8. rest \in Seq(Printed) /\ Len(rest) = n /\ \A i \in 1 .. n : rest[i] = r[1 + i]
  BY <1>7, <1>4 DEF Halves
<1>9. \A i \in 1 .. n : rest[i] = p[i]
  <2>1. \A i \in 1 .. n : 1 + i \in 1 .. 1 + n /\ ~(1 + i <= 1) /\ (1 + i) - 1 = i
    OBVIOUS
  <2>. QED
    BY <2>1, <1>4, <1>8
<1>10. rest = p
  BY <1>1, <1>8, <1>9, SeqEqual
<1>. QED
  BY <1>4, <1>5, <1>10 DEF PromptShown

LEMMA PromptsAre ==
  ASSUME NEW p \in Prompts
  PROVE  /\ p \in Seq(Printed) /\ PromptShown(p) \in RowTexts
         /\ display_width(PromptShown(p)) \in Nat /\ display_width(PromptShown(p)) + MaxWidth < Width
         /\ \/ p = PromptShown(p)
            \/ p = <<"nl">> \o PromptShown(p) /\ Len(PromptShown(p)) < Len(p)
<1>. PICK shown : shown = PromptShown(p)
  OBVIOUS
<1>0. \A r \in RowTexts : Len(r) \in Nat /\ display_width(r) \in Nat /\ r \in Seq(Printed)
  BY WidthType, TextsArePrinted DEF RowTexts
<1>1. CASE p = Prompt
  BY <1>0, <1>1, PromptTexts, PlainPrompt
<1>2. CASE p = ContinuationPrompt
  <2>1. shown = p /\ p \in RowTexts
    BY <1>2, PromptTexts, PlainPrompt
  <2>2. \A l, m, d \in Nat : l + m + d < Width => d + m < Width
    BY Sizes
  <2>3. display_width(p) + MaxWidth < Width
    BY <1>0, <1>2, <2>1, <2>2, PromptTexts, Sizes
  <2>. QED
    BY <2>1, <2>3, <1>0
<1>3. CASE p = <<"nl">> \o Prompt
  <2>1. p \in Seq(Printed) /\ Len(p) = Len(Prompt) + 1 /\ shown = Prompt
    BY <1>3, PromptTexts, NewlinePrompt
  <2>2. Len(Prompt) < Len(p)
    BY <2>1, <1>0, PromptTexts
  <2>. QED
    BY <2>1, <2>2, <1>0, <1>3, PromptTexts
<1>. QED
  BY <1>1, <1>2, <1>3 DEF Prompts

-----------------------------------------------------------------------------
(***************************************************************************)
(* What the user sees: prompt and line, and nothing below them.            *)
(***************************************************************************)
LineShown(row, x, p, chars) ==
  /\ display_width(PromptShown(p)) <= x /\ x + display_width(chars) <= Width
  /\ Has(row, x - display_width(PromptShown(p)), PromptShown(p)) /\ Has(row, x, chars)
  /\ BlankAfter(row, x + display_width(chars))

BlankBelow(t) == \A y \in 1 .. Height : t.y < y => BlankAfter(t.cells[y], 0)
MenuShown(t, m) == \A y \in t.y + 1 .. Height : RowShows(t, y, 0, MenuRowShown(m, y - t.y - 1))

LEMMA LineShownIs ==
  ASSUME NEW t \in Consoles, NEW y \in 1 .. Height, NEW x \in 0 .. Width - 1, NEW p \in Prompts, NEW chars \in RowTexts
  PROVE  x >= display_width(PromptShown(p)) /\ RowShows(t, y, x - display_width(PromptShown(p)), PromptShown(p) \o chars)
           <=> LineShown(t.cells[y], x, p, chars)
<1>. PICK shown : shown = PromptShown(p)
  OBVIOUS
<1>. PICK w \in Nat : w = display_width(shown)
  BY PromptsAre
<1>. PICK n \in Nat : n = display_width(chars)
  BY WidthType DEF RowTexts
<1>. PICK row : row = t.cells[y]
  OBVIOUS
<1>. PICK both : both = shown \o chars
  OBVIOUS
<1>1. shown \in RowTexts /\ both \in RowTexts /\ display_width(both) = w + n
  BY PromptsAre, ConcatProperties, WidthConcat DEF RowTexts
<1>2. CASE x >= w
  <2>. PICK from \in 0 .. Width : from = x - w
    BY <1>2, Sizes
  <2>1. RowShows(t, y, from, both) <=> from + (w + n) <= Width /\ Has(row, from, both) /\ BlankAfter(row, from + (w + n))
    BY <1>1, RowShowsIs DEF Shows1
  <2>2. from + (w + n) = x + n /\ from + w = x
    BY <1>2
  <2>3. Has(row, from, both) <=> Has(row, from, shown) /\ Has(row, x, chars)
    <3>1. from \in Nat
      BY Sizes
    <3>2. Has(row, from, both) <=> Has(row, from, shown) /\ Has(row, from + w, chars)
      BY <1>1, <3>1, HasConcat
    <3>. QED
      BY <2>2, <3>2
  <2>. QED
    BY <1>2, <2>1, <2>2, <2>3 DEF LineShown
<1>3. CASE ~(x >= w)
  <2>1. ~(w <= x)
    BY <1>3
  <2>. QED
    BY <1>3, <2>1 DEF LineShown
<1>. QED
  BY <1>2, <1>3

LEMMA InStepIs ==
  ASSUME NEW t \in Consoles, NEW o \in Origins, NEW p \in Prompts, NEW chars \in RowTexts, NEW at, NEW m
  PROVE  InStep(t, o, p, chars, at, m) <=>
           /\ t.y = o.y /\ t.x = o.x + display_width(SubSeq(chars, 1, at))
           /\ LineShown(t.cells[t.y], o.x, p, chars)
           /\ MenuShown(t, m)
<1>1. o.x \in 0 .. Width - 1 /\ o.y \in 1 .. Height
  BY DEF Origins
<1>2. o.x >= display_width(PromptShown(p)) /\ RowShows(t, o.y, o.x - display_width(PromptShown(p)), PromptShown(p) \o chars)
           <=> LineShown(t.cells[o.y], o.x, p, chars)
  BY <1>1, LineShownIs
<1>. QED
  BY <1>2, Zenon DEF InStep, MenuShown

LEMMA BlankShown ==
  ASSUME NEW t \in Consoles, NEW y \in 1 .. Height
  PROVE  RowShows(t, y, 0, <<>>) <=> BlankAfter(t.cells[y], 0)
<1>. PICK none : none = <<>>
  OBVIOUS
<1>1. none \in RowTexts /\ display_width(none) = 0
  BY WidthEmpty DEF RowTexts
<1>2. 0 \in 0 .. Width /\ 0 + 0 <= Width /\ 0 + 0 = 0 /\ \A j : j \notin 1 .. 0
  BY Sizes
<1>3. RowShows(t, y, 0, none) <=> Shows1(t.cells[y], 0, none)
  BY <1>1, <1>2, RowShowsIs
<1>. QED
  BY <1>1, <1>2, <1>3 DEF Shows1, Has

LEMMA NoMenuShown ==
  ASSUME NEW t \in Consoles, NEW m, ~(m.rendered_lines > 0)
  PROVE  MenuShown(t, m) <=> BlankBelow(t)
<1>1. \A row : MenuRowShown(m, row) = <<>>
  BY DEF MenuRowShown
<1>2. \A y \in 1 .. Height : RowShows(t, y, 0, <<>>) <=> BlankAfter(t.cells[y], 0)
  BY BlankShown
<1>3. \A y : y \in t.y + 1 .. Height <=> y \in 1 .. Height /\ t.y < y
  BY ConsoleFields, Sizes
<1>. QED
  BY <1>1, <1>2, <1>3 DEF MenuShown, BlankBelow

(* What lies before or after what is written stays. *)
LEMMA HasKept ==
  ASSUME NEW u, NEW t \in Consoles, NEW chars \in RowTexts, Wrote(u, t, chars),
         NEW from \in Nat, NEW kept \in RowTexts, from + display_width(kept) <= Width,
         Has(t.cells[t.y], from, kept),
         from + display_width(kept) <= t.x \/ t.x + display_width(chars) <= from
  PROVE  Has(u.cells[u.y], from, kept)
<1>. PICK k \in Nat : k = display_width(kept)
  BY WidthType DEF RowTexts
<1>. PICK n \in Nat : n = display_width(chars)
  BY WidthType DEF RowTexts
<1>. PICK x \in Nat : x = t.x
  BY ConsoleFields
<1>. PICK cells : cells = Cells(kept)
  OBVIOUS
<1>1. /\ u.y = t.y
      /\ \A j \in 1 .. Width : u.cells[t.y][j] = IF x < j /\ j <= x + n THEN Cells(chars)[j - x] ELSE t.cells[t.y][j]
  BY DEF Wrote
<1>2. \A j \in 1 .. k : t.cells[t.y][from + j] = cells[j]
  BY DEF Has
<1>3. ASSUME NEW j \in 1 .. k
      PROVE  u.cells[u.y][from + j] = cells[j]
  <2>1. from + j \in 1 .. Width /\ ~(x < from + j /\ from + j <= x + n)
    BY Sizes
  <2>. QED
    BY <1>1, <1>2, <2>1
<1>. QED
  BY <1>3 DEF Has

LEMMA HasWritten ==
  ASSUME NEW u, NEW t \in Consoles, NEW chars \in RowTexts, Wrote(u, t, chars), t.x + display_width(chars) <= Width
  PROVE  Has(u.cells[u.y], t.x, chars)
<1>. PICK n \in Nat : n = display_width(chars)
  BY WidthType DEF RowTexts
<1>. PICK x \in Nat : x = t.x
  BY ConsoleFields
<1>. PICK cells : cells = Cells(chars)
  OBVIOUS
<1>1. /\ u.y = t.y
      /\ \A j \in 1 .. Width : u.cells[t.y][j] = IF x < j /\ j <= x + n THEN cells[j - x] ELSE t.cells[t.y][j]
  BY DEF Wrote
<1>2. ASSUME NEW j \in 1 .. n
      PROVE  u.cells[u.y][x + j] = cells[j]
  <2>1. x + j \in 1 .. Width /\ x < x + j /\ x + j <= x + n /\ (x + j) - x = j
    BY Sizes
  <2>. QED
    BY <1>1, <2>1
<1>. QED
  BY <1>2 DEF Has

LEMMA OneMoreIs ==
  ASSUME NEW T, NEW s \in Seq(T), NEW c \in T, NEW m \in Seq(T), Len(m) = Len(s) + 1,
         \A i \in 1 .. Len(s) : m[i] = s[i], m[Len(s) + 1] = c
  PROVE  m = s \o <<c>>
<1>. PICK n \in Nat : n = Len(s)
  OBVIOUS
<1>. PICK r : r = s \o <<c>>
  OBVIOUS
<1>1. r \in Seq(T) /\ Len(r) = n + 1 /\ r[n + 1] = c /\ \A i \in 1 .. n : r[i] = s[i]
  BY OneMore
<1>2. ASSUME NEW i \in 1 .. n + 1
      PROVE  r[i] = m[i]
  <2>1. CASE i = n + 1
    BY <1>1, <2>1
  <2>2. CASE i # n + 1
    <3>1. i \in 1 .. n
      BY <2>2
    <3>. QED
      BY <3>1, <1>1
  <2>. QED
    BY <2>1, <2>2
<1>. QED
  BY <1>1, <1>2, SeqEqual

LEMMA MoreSpaces ==
  ASSUME NEW n \in Nat
  PROVE  Spaces(n + 1) = Spaces(n) \o <<" ">>
<1>. PICK m \in Nat : m = n + 1
  OBVIOUS
<1>1. Spaces(n) \in Seq(Characters) /\ Len(Spaces(n)) = n /\ \A i \in 1 .. n : Spaces(n)[i] = " "
  BY WidthSpaces DEF RowTexts
<1>2. Spaces(m) \in Seq(Characters) /\ Len(Spaces(m)) = m /\ \A i \in 1 .. m : Spaces(m)[i] = " "
  BY WidthSpaces DEF RowTexts
<1>3. m \in 1 .. m /\ \A i \in 1 .. n : i \in 1 .. m
  OBVIOUS
<1>4. " " \in Characters
  BY KnownCharacters
<1>5. /\ Len(Spaces(m)) = Len(Spaces(n)) + 1 /\ Spaces(m)[Len(Spaces(n)) + 1] = " "
      /\ \A i \in 1 .. Len(Spaces(n)) : Spaces(m)[i] = Spaces(n)[i]
  BY <1>1, <1>2, <1>3
<1>6. Spaces(m) = Spaces(n) \o <<" ">>
  BY <1>1, <1>2, <1>4, <1>5, OneMoreIs
<1>. QED
  BY <1>6

LEMMA CellsOfSpaces ==
  ASSUME NEW n \in Nat
  PROVE  Cells(Spaces(n)) = Spaces(n)
<1>. DEFINE same(k) == Cells(Spaces(k)) = Spaces(k)
<1>1. same(0)
  <2>1. Len(Spaces(0)) = 0 /\ Spaces(0) \in Seq(Characters)
    BY WidthSpaces DEF RowTexts
  <2>2. Spaces(0) = <<>>
    BY <2>1, EmptySeq
  <2>. QED
    BY <2>2, CellsGrow
<1>2. ASSUME NEW k \in Nat, same(k), NEW j \in Nat, j = k + 1
      PROVE  same(j)
  <2>0. " " \in Characters /\ Glyph(" ") = <<" ">>
    BY KnownCharacters DEF Glyph
  <2>1. Spaces(j) = Spaces(k) \o <<" ">>
    BY <1>2, MoreSpaces
  <2>2. Cells(Spaces(k) \o <<" ">>) = Cells(Spaces(k)) \o Glyph(" ")
    BY <2>0, WidthSpaces, CellsGrow
  <2>. QED
    BY <2>1, <2>2, <2>0, <1>2
<1>. HIDE DEF same
<1>. DEFINE S == {k \in Nat : same(k)}
<1>3. 0 \in S /\ \A k \in Nat : k \in S => k + 1 \in S
  BY <1>1, <1>2
<1>. HIDE DEF S
<1>4. Nat \subseteq S
  BY <1>3, Induction
<1>5. same(n)
  BY <1>4 DEF S
<1>. QED
  BY <1>5 DEF same

(* Blanks written over what was there blank what they reach. *)
LEMMA BlankWritten ==
  ASSUME NEW u, NEW t \in Consoles, NEW chars \in RowTexts, NEW n \in Nat, NEW from \in Nat,
         Wrote(u, t, chars \o Spaces(n)), BlankAfter(t.cells[t.y], from),
         from <= t.x + display_width(chars) + n
  PROVE  BlankAfter(u.cells[u.y], t.x + display_width(chars))
<1>. PICK w \in Nat : w = display_width(chars)
  BY WidthType DEF RowTexts
<1>. PICK x \in Nat : x = t.x
  BY ConsoleFields
<1>. PICK blanks : blanks = Spaces(n)
  OBVIOUS
<1>. PICK all : all = chars \o blanks
  OBVIOUS
<1>0. blanks \in RowTexts /\ display_width(blanks) = n
  BY WidthSpaces
<1>1. blanks \in RowTexts /\ display_width(blanks) = n /\ all \in RowTexts /\ display_width(all) = w + n
  BY <1>0, ConcatProperties, WidthConcat DEF RowTexts
<1>. PICK ca : ca = Cells(all)
  OBVIOUS
<1>. PICK cc : cc = Cells(chars)
  OBVIOUS
<1>. PICK cb : cb = Cells(blanks)
  OBVIOUS
<1>2. cb \in Seq(CellValues) /\ Len(cb) = n /\ cc \in Seq(CellValues) /\ Len(cc) = w /\ ca = cc \o cb
  BY <1>1, CellsLength, CellsConcat
<1>3. \A i \in 1 .. n : cb[i] = " "
  BY CellsOfSpaces, WidthSpaces
<1>4. Joins(CellValues, ca, cc, w, cb, n)
  BY <1>2, Joined
<1>5. /\ u.y = t.y
      /\ \A j \in 1 .. Width : u.cells[t.y][j] = IF x < j /\ j <= x + (w + n) THEN ca[j - x] ELSE t.cells[t.y][j]
  BY <1>1 DEF Wrote
<1>6. ASSUME NEW j \in 1 .. Width, x + w < j
      PROVE  u.cells[u.y][j] = " "
  <2>0. j \in Nat /\ from <= x + w + n
    BY Sizes
  <2>1. CASE j <= x + (w + n)
    <3>0. \A p, q, k, l \in Nat : q + k < p /\ p <= q + (k + l) =>
            q < p /\ p - q \in 1 .. k + l /\ ~(p - q <= k) /\ (p - q) - k \in 1 .. l
      OBVIOUS
    <3>1. x < j /\ j - x \in 1 .. w + n /\ ~(j - x <= w) /\ (j - x) - w \in 1 .. n
      BY <2>0, <2>1, <1>6, <3>0
    <3>2. ca[j - x] = cb[(j - x) - w]
      BY <3>1, <1>4 DEF Joins
    <3>. QED
      BY <3>1, <3>2, <2>1, <1>3, <1>5
  <2>2. CASE ~(j <= x + (w + n))
    <3>1. from < j
      BY <2>0, <2>2, SMTT(30)
    <3>. QED
      BY <3>1, <2>2, <1>5 DEF BlankAfter
  <2>. QED
    BY <2>1, <2>2
<1>. QED
  BY <1>6 DEF BlankAfter

LEMMA DisplayConcat ==
  ASSUME NEW t \in Consoles, NEW a \in Seq(Printed), NEW b \in Seq(Printed)
  PROVE  Display(t, a \o b) = Display(Display(t, a), b)
<1>. PICK u : u = Display(t, a)
  OBVIOUS
<1>0. u \in Consoles
  BY DisplayType
<1>. DEFINE P == {r \in Seq(Printed) : Display(t, a \o r) = Display(u, r)}
<1>1. <<>> \in P
  <2>. PICK none : none = <<>>
    OBVIOUS
  <2>1. none \in Seq(Printed) /\ a \o none = a /\ Display(u, none) = u
    BY <1>0, ConcatEmptySeq, DisplayGrows
  <2>. QED
    BY <2>1
<1>2. ASSUME NEW r \in Seq(Printed), NEW c \in Printed, r \in P
      PROVE  r \o <<c>> \in P
  <2>. PICK one : one = <<c>>
    OBVIOUS
  <2>. PICK more : more = r \o one
    OBVIOUS
  <2>. PICK ar : ar = a \o r
    OBVIOUS
  <2>1. more \in Seq(Printed) /\ one \in Seq(Printed) /\ ar \in Seq(Printed)
    BY OneMore, ConcatProperties
  <2>2. a \o more = ar \o one
    BY <2>1, ConcatAssociative
  <2>3. Display(t, ar \o one) = Put(Display(t, ar), c)
    BY <2>1, DisplayGrows, ZenonT(20)
  <2>4. Display(u, more) = Put(Display(u, r), c)
    BY <1>0, DisplayGrows
  <2>. QED
    BY <2>1, <2>2, <2>3, <2>4, <1>2
<1>. HIDE DEF P
<1>3. Seq(Printed) \subseteq P
  BY <1>1, <1>2, TextInduction
<1>. QED
  BY <1>3 DEF P

LEMMA DisplayOne ==
  ASSUME NEW t \in Consoles, NEW c \in Printed
  PROVE  Display(t, <<c>>) = Put(t, c)
<1>. PICK none : none = <<>>
  OBVIOUS
<1>. PICK one : one = <<c>>
  OBVIOUS
<1>1. none \in Seq(Printed) /\ one \in Seq(Printed) /\ none \o one = one
  <2>1. none \in Seq(Printed) /\ one \in Seq(Printed)
    OBVIOUS
  <2>. QED
    BY <2>1, ConcatEmptySeq
<1>2. Display(t, none \o one) = Put(Display(t, none), c) /\ Display(t, none) = t
  BY <1>1, DisplayGrows
<1>. QED
  BY <1>1, <1>2

LEMMA NoSpaces == Spaces(0) = <<>>
<1>1. Len(Spaces(0)) = 0 /\ Spaces(0) \in Seq(Characters)
  BY WidthSpaces DEF RowTexts
<1>. QED
  BY <1>1, EmptySeq

(* A row with a prompt that ends at column x, and the beginning of a line.  *)
Started(t, x, p, pre) ==
  /\ x \in Nat /\ display_width(PromptShown(p)) <= x /\ t.x = x + display_width(pre)
  /\ Has(t.cells[t.y], x - display_width(PromptShown(p)), PromptShown(p)) /\ Has(t.cells[t.y], x, pre)

ShownIn(u, t, x, p, chars, to) ==
  /\ u \in Consoles /\ u.y = t.y /\ u.x = to
  /\ LineShown(u.cells[u.y], x, p, chars) /\ BlankBelow(u)

Behind(x, ws, wp, tx) ==
  /\ x - ws \in Nat /\ (x - ws) + ws <= Width /\ (x - ws) + ws <= tx
  /\ x + wp <= Width /\ x + wp <= tx

LEMMA BehindFits ==
  ASSUME NEW x \in Nat, NEW ws \in Nat, NEW wp \in Nat, NEW tx \in Nat, NEW n \in Nat,
         ws <= x, tx = x + wp, tx + n < Width
  PROVE  Behind(x, ws, wp, tx)
<1>1. x - ws \in Nat /\ (x - ws) + ws = x /\ x <= tx
  OBVIOUS
<1>2. tx <= Width
  BY Sizes
<1>3. x <= Width
  BY <1>1, <1>2, Sizes
<1>. QED
  BY <1>1, <1>2, <1>3 DEF Behind

(* What is written from the cursor on, and blanks over what was there,      *)
(* make a line of its beginning and what is written.                       *)
LEMMA Rewrite ==
  ASSUME NEW t \in Consoles, NEW x, NEW p \in Prompts, NEW pre \in RowTexts, Started(t, x, p, pre),
         NEW rest \in RowTexts, NEW n \in Nat, NEW from \in Nat,
         BlankAfter(t.cells[t.y], from), from <= t.x + display_width(rest) + n,
         t.x + display_width(rest) + n < Width, BlankBelow(t)
  PROVE  ShownIn(Display(t, rest \o Spaces(n)), t, x, p, pre \o rest, t.x + display_width(rest) + n)
<1>. PICK shown : shown = PromptShown(p)
  OBVIOUS
<1>. PICK ws \in Nat : ws = display_width(shown)
  BY PromptsAre
<1>. PICK wp \in Nat : wp = display_width(pre)
  BY WidthType DEF RowTexts
<1>. PICK wr \in Nat : wr = display_width(rest)
  BY WidthType DEF RowTexts
<1>. PICK blanks : blanks = Spaces(n)
  OBVIOUS
<1>. PICK all : all = rest \o blanks
  OBVIOUS
<1>. PICK u : u = Display(t, all)
  OBVIOUS
<1>. PICK tx \in Nat : tx = t.x
  BY ConsoleFields
<1>0. blanks \in RowTexts /\ display_width(blanks) = n /\ shown \in RowTexts
  BY WidthSpaces, PromptsAre
<1>1. all \in RowTexts /\ display_width(all) = wr + n
  BY <1>0, ConcatProperties, WidthConcat DEF RowTexts
<1>2. x \in Nat /\ ws <= x /\ tx = x + wp /\ Has(t.cells[t.y], x - ws, shown) /\ Has(t.cells[t.y], x, pre)
  BY DEF Started
<1>3. tx + (wr + n) < Width /\ tx + (wr + n) = tx + wr + n /\ tx + (wr + n) <= Width
  BY Sizes, SMTT(30)
<1>4. Wrote(u, t, all)
  BY <1>1, <1>3, DisplayWrites
<1>5. u \in Consoles /\ u.y = t.y /\ u.x = tx + (wr + n) /\ \A y \in 1 .. Height : y # t.y => u.cells[y] = t.cells[y]
  BY <1>1, <1>4 DEF Wrote
<1>5a. Behind(x, ws, wp, tx)
  <2>. PICK more \in Nat : more = wr + n
    OBVIOUS
  <2>. QED
    BY <1>2, <1>3, BehindFits
<1>6. Has(u.cells[u.y], x - ws, shown)
  <2>1. x - ws \in Nat /\ (x - ws) + ws <= Width /\ (x - ws) + ws <= t.x
    BY <1>5a DEF Behind
  <2>. QED
    BY <2>1, <1>0, <1>1, <1>2, <1>4, HasKept
<1>7. Has(u.cells[u.y], x, pre)
  <2>1. x + wp <= Width /\ x + wp <= t.x
    BY <1>5a DEF Behind
  <2>. QED
    BY <2>1, <1>1, <1>2, <1>4, HasKept
<1>8. Has(u.cells[u.y], tx, rest)
  <2>1. Has(u.cells[u.y], tx, all)
    BY <1>1, <1>3, <1>4, HasWritten
  <2>. QED
    BY <2>1, <1>0, HasConcat
<1>9. BlankAfter(u.cells[u.y], tx + wr)
  BY <1>4, BlankWritten
<1>. PICK whole : whole = pre \o rest
  OBVIOUS
<1>10. whole \in RowTexts /\ display_width(whole) = wp + wr /\ Has(u.cells[u.y], x, whole)
  BY <1>2, <1>7, <1>8, HasConcat, ConcatProperties, WidthConcat DEF RowTexts
<1>11. x + (wp + wr) = tx + wr /\ x + (wp + wr) <= Width
  <2>1. \A a, b, c, d \in Nat : a + (b + c) = (a + b) + c /\ (a + d < Width => a + d <= Width)
    BY Sizes, SMTT(30)
  <2>2. \A a, b, c \in Nat : a + b + c < Width => a + b <= Width
    BY Sizes
  <2>3. tx + wr <= Width
    BY <2>2
  <2>4. x + (wp + wr) = (x + wp) + wr
    BY <1>2, <2>1
  <2>. QED
    BY <1>2, <2>3, <2>4
<1>12. LineShown(u.cells[u.y], x, p, whole)
  BY <1>2, <1>6, <1>9, <1>10, <1>11 DEF LineShown
<1>13. BlankBelow(u)
  <2>1. ASSUME NEW y \in 1 .. Height, u.y < y
        PROVE  BlankAfter(u.cells[y], 0)
    <3>0. u.y = t.y /\ t.y \in Nat /\ y \in Nat
      BY <1>5, ConsoleFields, Sizes
    <3>1. t.y < y /\ y # t.y
      BY <2>1, <3>0
    <3>. QED
      BY <3>1, <1>5 DEF BlankBelow
  <2>. QED
    BY <2>1 DEF BlankBelow
<1>. QED
  BY <1>3, <1>5, <1>12, <1>13 DEF ShownIn

LEMMA RewriteLine ==
  ASSUME NEW t \in Consoles, NEW x, NEW p \in Prompts, NEW pre \in RowTexts, Started(t, x, p, pre),
         NEW rest \in RowTexts, NEW from \in Nat,
         BlankAfter(t.cells[t.y], from), from <= t.x + display_width(rest),
         t.x + display_width(rest) < Width, BlankBelow(t)
  PROVE  ShownIn(Display(t, rest), t, x, p, pre \o rest, t.x + display_width(rest))
<1>. PICK tx \in Nat : tx = t.x
  BY ConsoleFields
<1>. PICK wr \in Nat : wr = display_width(rest)
  BY WidthType DEF RowTexts
<1>1. rest \o Spaces(0) = rest
  BY NoSpaces, ConcatEmptySeq DEF RowTexts
<1>2. tx + wr + 0 = tx + wr
  OBVIOUS
<1>3. 0 \in Nat /\ from <= t.x + display_width(rest) + 0 /\ t.x + display_width(rest) + 0 < Width
  BY <1>2
<1>4. ShownIn(Display(t, rest \o Spaces(0)), t, x, p, pre \o rest, t.x + display_width(rest) + 0)
  BY <1>3, Rewrite
<1>. QED
  BY <1>1, <1>2, <1>4

LEMMA NewlineBlank ==
  ASSUME NEW t \in Consoles, BlankBelow(t)
  PROVE  /\ Newline(t) \in Consoles /\ Newline(t).x = 0 /\ t.y <= Newline(t).y
         /\ BlankAfter(Newline(t).cells[Newline(t).y], 0) /\ BlankBelow(Newline(t))
<1>. PICK u : u = Newline(t)
  OBVIOUS
<1>. PICK y \in Nat : y = t.y
  BY ConsoleFields
<1>. PICK h \in Nat : h = Height
  BY Sizes
<1>0. u \in Consoles /\ u.x = 0 /\ y <= h /\ 1 <= y
  BY NewlineMoves, ConsoleFields
<1>1. CASE y < h
  <2>1. u.y = y + 1 /\ u.cells = t.cells
    BY <1>1, NewlineMoves
  <2>2. \A r \in 1 .. h : y < r => BlankAfter(t.cells[r], 0)
    BY DEF BlankBelow
  <2>3. y + 1 \in 1 .. h /\ y < y + 1 /\ y <= y + 1 /\ \A r \in 1 .. h : y + 1 < r => y < r
    BY <1>1
  <2>. QED
    BY <1>0, <2>1, <2>2, <2>3 DEF BlankBelow
<1>2. CASE y = h
  <2>1. u.y = h /\ \A r \in 1 .. h : u.cells[r] = IF r < h THEN t.cells[r + 1] ELSE EmptyRow
    BY <1>2, NewlineMoves
  <2>2. h \in 1 .. h /\ ~(h < h) /\ \A r \in 1 .. h : ~(h < r)
    BY <1>0, <1>2
  <2>3. u.cells[h] = EmptyRow
    BY <2>1, <2>2
  <2>4. BlankAfter(EmptyRow, 0)
    BY EmptyRowType DEF BlankAfter
  <2>. QED
    BY <1>0, <1>2, <2>1, <2>2, <2>3, <2>4 DEF BlankBelow
<1>. QED
  BY <1>0, <1>1, <1>2

LEMMA PlainPromptDisplayed ==
  ASSUME NEW t \in Consoles, NEW p \in Prompts, p = PromptShown(p), t.x + display_width(p) < Width,
         BlankAfter(t.cells[t.y], t.x), BlankBelow(t)
  PROVE  ShownIn(Display(t, p), t, t.x + display_width(p), p, <<>>, t.x + display_width(p))
<1>. PICK none : none = <<>>
  OBVIOUS
<1>. PICK x \in Nat : x = t.x
  BY ConsoleFields
<1>0. p \in RowTexts
  BY PromptsAre
<1>. PICK w \in Nat : w = display_width(p)
  BY <1>0, WidthType DEF RowTexts
<1>. PICK u : u = Display(t, p)
  OBVIOUS
<1>1. none \in RowTexts /\ display_width(none) = 0 /\ \A row, j : Has(row, j, none)
  <2>1. none \in RowTexts /\ display_width(none) = 0 /\ \A j : j \notin 1 .. 0
    BY WidthEmpty DEF RowTexts
  <2>. QED
    BY <2>1 DEF Has
<1>2. Wrote(u, t, p)
  BY <1>0, DisplayWrites
<1>3. u \in Consoles /\ u.y = t.y /\ u.x = x + w /\ \A y \in 1 .. Height : y # t.y => u.cells[y] = t.cells[y]
  BY <1>2 DEF Wrote
<1>4. Has(u.cells[u.y], x, p)
  <2>1. t.x + display_width(p) <= Width
    BY Sizes
  <2>. QED
    BY <2>1, <1>0, <1>2, HasWritten
<1>5. BlankAfter(u.cells[u.y], x + w)
  <2>1. p \o Spaces(0) = p
    BY <1>0, NoSpaces, ConcatEmptySeq DEF RowTexts
  <2>2. x <= t.x + display_width(p) + 0 /\ 0 \in Nat
    OBVIOUS
  <2>. QED
    BY <2>1, <2>2, <1>0, <1>2, BlankWritten
<1>6. (x + w) + 0 = x + w /\ (x + w) - w = x /\ x + w <= Width /\ w <= x + w
  BY Sizes
<1>7. LineShown(u.cells[u.y], x + w, p, none)
  BY <1>1, <1>4, <1>5, <1>6 DEF LineShown
<1>8. BlankBelow(u)
  <2>1. ASSUME NEW y \in 1 .. Height, u.y < y
        PROVE  BlankAfter(u.cells[y], 0)
    <3>1. t.y < y /\ y # t.y
      BY <2>1, <1>3, ConsoleFields, Sizes
    <3>. QED
      BY <3>1, <1>3 DEF BlankBelow
  <2>. QED
    BY <2>1 DEF BlankBelow
<1>. QED
  BY <1>3, <1>7, <1>8 DEF ShownIn

(* A prompt displayed in an empty row, or in the one below it. *)
PromptReady(u, t, p) ==
  /\ u \in Consoles /\ t.y <= u.y /\ u.x = display_width(PromptShown(p))
  /\ LineShown(u.cells[u.y], u.x, p, <<>>) /\ BlankBelow(u)

LEMMA PromptDisplayed ==
  ASSUME NEW t \in Consoles, NEW p \in Prompts, t.x = 0, BlankAfter(t.cells[t.y], 0), BlankBelow(t)
  PROVE  PromptReady(Display(t, p), t, p)
<1>. PICK shown : shown = PromptShown(p)
  OBVIOUS
<1>0. shown \in RowTexts /\ display_width(shown) \in Nat /\ display_width(shown) < Width /\ p \in Seq(Printed)
  <2>1. \A a \in Nat : a + MaxWidth < Width => a < Width
    BY Sizes
  <2>. QED
    BY <2>1, PromptsAre
<1>. PICK w \in Nat : w = display_width(shown)
  BY <1>0
<1>a. 0 + w = w
  OBVIOUS
<1>1. CASE p = shown
  <2>1. ShownIn(Display(t, p), t, 0 + w, p, <<>>, 0 + w)
    BY <1>0, <1>1, <1>a, PlainPromptDisplayed
  <2>. QED
    BY <2>1, <1>a, ConsoleFields DEF ShownIn, PromptReady
<1>2. CASE p = <<"nl">> \o shown /\ p # shown
  <2>. PICK u : u = Newline(t)
    OBVIOUS
  <2>1. u \in Consoles /\ u.x = 0 /\ t.y <= u.y /\ BlankAfter(u.cells[u.y], 0) /\ BlankBelow(u)
    BY NewlineBlank
  <2>2. Display(t, p) = Display(u, shown)
    <3>. PICK nl : nl = "nl"
      OBVIOUS
    <3>. PICK one : one = <<nl>>
      OBVIOUS
    <3>1. nl \in Printed /\ one \in Seq(Printed) /\ shown \in Seq(Printed) /\ p = one \o shown
      BY <1>0, <1>2, TextsArePrinted DEF Printed
    <3>2. Display(t, one \o shown) = Display(Display(t, one), shown)
      BY <3>1, DisplayConcat
    <3>3. Display(t, one) = Put(t, nl)
      BY <3>1, DisplayOne
    <3>4. Put(t, nl) = u
      BY DEF Put
    <3>. QED
      BY <3>1, <3>2, <3>3, <3>4
  <2>3. p = <<"nl">> \o Prompt /\ shown = Prompt
    <3>1. p # Prompt /\ p # ContinuationPrompt
      BY <1>2, PromptTexts, PlainPrompt
    <3>2. p = <<"nl">> \o Prompt
      BY <3>1 DEF Prompts
    <3>. QED
      BY <3>2, PromptTexts, NewlinePrompt
  <2>4. shown \in Prompts /\ PromptShown(shown) = shown
    BY <2>3, PromptTexts, PlainPrompt DEF Prompts
  <2>5. ShownIn(Display(u, shown), u, 0 + w, shown, <<>>, 0 + w)
    BY <1>0, <1>a, <2>1, <2>4, PlainPromptDisplayed
  <2>. PICK v : v = Display(u, shown)
    OBVIOUS
  <2>6. v \in Consoles /\ v.y = u.y /\ v.x = w /\ LineShown(v.cells[v.y], w, shown, <<>>) /\ BlankBelow(v)
    BY <2>5, <1>a DEF ShownIn
  <2>7. LineShown(v.cells[v.y], w, p, <<>>)
    BY <2>4, <2>6 DEF LineShown
  <2>. QED
    BY <2>1, <2>2, <2>6, <2>7 DEF PromptReady
<1>. QED
  BY <1>1, <1>2, PromptsAre

-----------------------------------------------------------------------------
(***************************************************************************)
(* Texts cut in two.                                                       *)
(***************************************************************************)
Grouped(a, b, c) == (a \o b) \o c = a \o (b \o c)

LEMMA Regroup ==
  ASSUME NEW T, NEW a \in Seq(T), NEW b \in Seq(T), NEW c \in Seq(T)
  PROVE  Grouped(a, b, c)
  BY ConcatAssociative DEF Grouped

LEMMA CutConcat ==
  ASSUME NEW T, NEW a \in Seq(T), NEW b \in Seq(T)
  PROVE  /\ SubSeq(a \o b, 1, Len(a)) = a /\ After(a \o b, Len(a)) = b
         /\ a \o b \in Seq(T) /\ Len(a) \in 0 .. Len(a \o b)
<1>. PICK s : s = a \o b
  OBVIOUS
<1>. PICK la \in Nat : la = Len(a)
  OBVIOUS
<1>. PICK lb \in Nat : lb = Len(b)
  OBVIOUS
<1>1. Joins(T, s, a, la, b, lb)
  BY Joined
<1>2. s \in Seq(T) /\ Len(s) = la + lb /\ la \in 0 .. Len(s)
  BY <1>1 DEF Joins
<1>. PICK u : u = SubSeq(s, 1, la)
  OBVIOUS
<1>. PICK v : v = After(s, la)
  OBVIOUS
<1>3. Halves(T, s, la, u, v)
  BY <1>2, HalvesAre
<1>4. /\ u \in Seq(T) /\ v \in Seq(T) /\ Len(u) = la /\ Len(v) = Len(s) - la
      /\ \A i \in 1 .. (Len(s) - la) : v[i] = s[la + i]
  BY <1>3 DEF Halves
<1>5. Len(s) - la = lb
  BY <1>2
<1>6. \A i \in 1 .. la : u[i] = a[i]
  <2>1. \A i \in 1 .. la : u[i] = s[i]
    BY <1>2, Split
  <2>2. \A i \in 1 .. la : i \in 1 .. la + lb /\ i <= la
    OBVIOUS
  <2>. QED
    BY <2>1, <2>2, <1>1 DEF Joins
<1>7. \A i \in 1 .. lb : v[i] = b[i]
  <2>1. \A i \in 1 .. lb : la + i \in 1 .. la + lb /\ ~(la + i <= la) /\ (la + i) - la = i
    OBVIOUS
  <2>. QED
    BY <2>1, <1>1, <1>4, <1>5 DEF Joins
<1>8. u = a
  BY <1>4, <1>6, SeqEqual
<1>9. v = b
  BY <1>4, <1>5, <1>7, SeqEqual
<1>. QED
  BY <1>2, <1>8, <1>9

Parted(T, s, a, b) ==
  /\ SubSeq(s, 1, Len(a)) = a /\ After(s, Len(a)) = b
  /\ s \in Seq(T) /\ Len(a) \in 0 .. Len(s)

LEMMA PartsOf ==
  ASSUME NEW T, NEW a \in Seq(T), NEW b \in Seq(T), NEW s, s = a \o b
  PROVE  Parted(T, s, a, b)
  BY CutConcat DEF Parted

LEMMA InsertIs ==
  ASSUME NEW T, NEW s \in Seq(T), NEW k \in 0 .. Len(s), NEW c \in T
  PROVE  /\ InsertAt(s, k + 1, c) = (SubSeq(s, 1, k) \o <<c>>) \o After(s, k)
         /\ InsertAt(s, k + 1, c) = SubSeq(s, 1, k) \o (<<c>> \o After(s, k))
         /\ InsertAt(s, k + 1, c) \in Seq(T)
         /\ SubSeq(s, 1, k) \o <<c>> \in Seq(T) /\ Len(SubSeq(s, 1, k) \o <<c>>) = k + 1
<1>. PICK a : a = SubSeq(s, 1, k)
  OBVIOUS
<1>. PICK b : b = After(s, k)
  OBVIOUS
<1>. PICK one : one = <<c>>
  OBVIOUS
<1>1. a \in Seq(T) /\ b \in Seq(T) /\ Len(a) = k
  BY HalvesAre DEF Halves
<1>2. one \in Seq(T) /\ a \o one \in Seq(T) /\ Len(a \o one) = k + 1
  BY <1>1, OneMore
<1>3. InsertAt(s, k + 1, c) = (a \o one) \o b
  <2>1. (k + 1) - 1 = k
    OBVIOUS
  <2>. QED
    BY <2>1 DEF InsertAt, After
<1>4. (a \o one) \o b = a \o (one \o b)
  <2>1. Grouped(a, one, b)
    BY <1>1, <1>2, Regroup
  <2>. QED
    BY <2>1 DEF Grouped
<1>5. (a \o one) \o b \in Seq(T)
  BY <1>1, <1>2, ConcatProperties
<1>. QED
  BY <1>2, <1>3, <1>4, <1>5

LEMMA RemoveIs ==
  ASSUME NEW T, NEW s \in Seq(T), NEW k \in 1 .. Len(s)
  PROVE  /\ s[k] \in T /\ k - 1 \in 0 .. Len(s) /\ k \in 0 .. Len(s)
         /\ SubSeq(s, 1, k) = SubSeq(s, 1, k - 1) \o <<s[k]>>
         /\ s = SubSeq(s, 1, k - 1) \o (<<s[k]>> \o After(s, k))
         /\ RemoveAt(s, k) = SubSeq(s, 1, k - 1) \o After(s, k)
<1>. PICK j \in 0 .. Len(s) : j = k - 1
  OBVIOUS
<1>. PICK a : a = SubSeq(s, 1, j)
  OBVIOUS
<1>. PICK b : b = After(s, k)
  OBVIOUS
<1>. PICK c : c = s[k]
  OBVIOUS
<1>. PICK one : one = <<c>>
  OBVIOUS
<1>0. k \in 0 .. Len(s) /\ c \in T
  BY ElementOfSeq
<1>1. a \in Seq(T) /\ b \in Seq(T) /\ one \in Seq(T)
  <2>1. b \in Seq(T)
    BY <1>0, HalvesAre DEF Halves
  <2>2. a \in Seq(T)
    BY HalvesAre DEF Halves
  <2>. QED
    BY <2>1, <2>2, <1>0
<1>2. SubSeq(s, 1, k) = a \o one
  <2>1. 1 \in 1 .. Len(s) /\ k \in 1 .. Len(s)
    OBVIOUS
  <2>. QED
    BY <2>1, SubSeqRecursiveSecond
<1>3. s = SubSeq(s, 1, k) \o b
  <2>1. Halves(T, s, k, SubSeq(s, 1, k), b)
    BY <1>0, HalvesAre
  <2>. QED
    BY <2>1 DEF Halves
<1>4. (a \o one) \o b = a \o (one \o b)
  <2>1. Grouped(a, one, b)
    BY <1>1, Regroup
  <2>. QED
    BY <2>1 DEF Grouped
<1>5. RemoveAt(s, k) = a \o b
  BY DEF RemoveAt, After
<1>. QED
  BY <1>0, <1>2, <1>3, <1>4, <1>5

-----------------------------------------------------------------------------
(***************************************************************************)
(* The invariant of the editor.                                            *)
(***************************************************************************)
ColumnsFor(candidates) == Min({4, Max({1, Width \div completion_column_width(candidates)})})
RowsFor(candidates) == Max({1, (Len(candidates) + ColumnsFor(candidates) - 1) \div ColumnsFor(candidates)})
RenderedFor(candidates) == IF RowsFor(candidates) < Height THEN RowsFor(candidates) ELSE 0

Menus ==
  [candidates : CandidateLists, insertion_index : Nat, delete_count : Nat, selected : Nat,
   rows : Nat, columns : Nat, rendered_lines : Nat]

OpenMenuOK(m, at) ==
  /\ m \in Menus /\ Len(m.candidates) >= 2
  /\ m.insertion_index <= at /\ m.selected < Len(m.candidates)
  /\ m.columns = ColumnsFor(m.candidates) /\ m.rows = RowsFor(m.candidates)
  /\ m.rendered_lines = RenderedFor(m.candidates)

LineOK(text, at, p, origin) ==
  /\ text \in RowTexts /\ at \in 0 .. Len(text)
  /\ display_width(text) <= MaxWidth
  /\ p \in Prompts /\ origin \in Origins
  /\ origin.x + display_width(text) < Width

Outcomes == {"editing", "input", "interrupted", "eof", "failed"}

EditorInv ==
  /\ LineOK(line, cursor, prompt, input_origin)
  /\ history_position \in 0 .. Len(HistoryEntries) /\ history_draft \in RowTexts
  /\ terminal \in Consoles /\ read \in Outcomes
  /\ completion_menu = NoMenu \/ OpenMenuOK(completion_menu, cursor)
  /\ terminal.y + completion_menu.rendered_lines <= Height
  /\ ReadsFailOnlyAtTheBottom

(* The console t shows the line and the cursor of the editor, and no menu. *)
OnScreen(t, origin, p, text, at) ==
  /\ t \in Consoles
  /\ t.y = origin.y /\ t.x = origin.x + display_width(SubSeq(text, 1, at))
  /\ LineShown(t.cells[t.y], origin.x, p, text)
  /\ BlankBelow(t)

LEMMA NoMenuFields == NoMenu.rendered_lines = 0 /\ NoMenu.candidates = <<>>
  BY DEF NoMenu

LEMMA NoMenuRoom ==
  ASSUME NEW t \in Consoles
  PROVE  t.y + NoMenu.rendered_lines <= Height
  BY NoMenuFields, ConsoleFields

LEMMA ShownStays ==
  ASSUME NEW t, NEW origin \in Origins, NEW p \in Prompts, NEW text \in RowTexts, NEW at,
         OnScreen(t, origin, p, text, at)
  PROVE  InStep(BelowTheLine(t), origin, p, text, at, NoMenu)
<1>. PICK u : u = BelowTheLine(t)
  OBVIOUS
<1>1. t \in Consoles /\ t.y \in 1 .. Height /\ t.y \in Nat
  BY ConsoleFields DEF OnScreen
<1>2. u \in Consoles /\ u.x = t.x /\ u.y = t.y /\ \A y \in 1 .. Height : t.y <= y => u.cells[y] = t.cells[y]
  BY <1>1, KeptBelow
<1>3. u.cells[t.y] = t.cells[t.y]
  BY <1>1, <1>2
<1>4. BlankBelow(u)
  <2>1. ASSUME NEW y \in 1 .. Height, u.y < y
        PROVE  BlankAfter(u.cells[y], 0)
    <3>1. t.y < y /\ t.y <= y
      BY <2>1, <1>1, <1>2, Sizes
    <3>. QED
      BY <3>1, <1>2 DEF OnScreen, BlankBelow
  <2>. QED
    BY <2>1 DEF BlankBelow
<1>5. MenuShown(u, NoMenu)
  <2>1. ~(NoMenu.rendered_lines > 0)
    BY NoMenuFields
  <2>. QED
    BY <2>1, <1>2, <1>4, NoMenuShown
<1>6. u.y = origin.y /\ u.x = origin.x + display_width(SubSeq(text, 1, at)) /\ LineShown(u.cells[u.y], origin.x, p, text)
  BY <1>2, <1>3 DEF OnScreen
<1>. QED
  BY <1>2, <1>5, <1>6, InStepIs

LEMMA EmptyRowBlank == BlankAfter(EmptyRow, 0)
  BY EmptyRowType DEF BlankAfter

ClearedAs(u, t, from, n) ==
  /\ u \in Consoles /\ u.x = t.x /\ u.y = t.y
  /\ \A r \in 1 .. Height : u.cells[r] = IF from <= r /\ r <= from + n - 1 THEN EmptyRow ELSE t.cells[r]

LEMMA ClearedFrom ==
  ASSUME NEW t \in Consoles, NEW from \in 1 .. Height + 1, NEW n \in Nat
  PROVE  ClearedAs(ClearRows(t, from, n), t, from, n)
  BY ClearedRows DEF ClearedAs

MenuGone(u, t) ==
  u \in Consoles /\ u.x = t.x /\ u.y = t.y /\ u.cells[u.y] = t.cells[t.y] /\ BlankBelow(u)

LEMMA MenuCleared ==
  ASSUME NEW t \in Consoles, NEW m, NEW n \in Nat, MenuShown(t, m),
         m.rendered_lines > 0 => m.rows \in Nat /\ m.rows <= n
  PROVE  MenuGone(ClearRows(t, t.y + 1, n), t)
<1>. PICK y \in Nat : y = t.y
  BY ConsoleFields
<1>. PICK h \in Nat : h = Height
  BY Sizes
<1>. PICK from : from = y + 1
  OBVIOUS
<1>. PICK u : u = ClearRows(t, from, n)
  OBVIOUS
<1>0. y \in 1 .. h /\ from \in 1 .. Height + 1
  BY ConsoleFields
<1>1. /\ u \in Consoles /\ u.x = t.x /\ u.y = y
      /\ \A r \in 1 .. h : u.cells[r] = IF y + 1 <= r /\ r <= (y + 1) + n - 1 THEN EmptyRow ELSE t.cells[r]
  <2>1. ClearedAs(u, t, from, n)
    BY <1>0, ClearedFrom
  <2>. QED
    BY <2>1 DEF ClearedAs
<1>2. u.cells[y] = t.cells[y]
  <2>1. ~(y + 1 <= y)
    OBVIOUS
  <2>. QED
    BY <2>1, <1>0, <1>1
<1>3. ASSUME NEW r \in 1 .. h, y < r
      PROVE  BlankAfter(u.cells[r], 0)
  <2>0. y + 1 <= r /\ r \in y + 1 .. h
    BY <1>3
  <2>1. CASE r <= (y + 1) + n - 1
    <3>1. u.cells[r] = EmptyRow
      BY <2>0, <2>1, <1>1
    <3>. QED
      BY <3>1, EmptyRowBlank
  <2>2. CASE ~(r <= (y + 1) + n - 1)
    <3>1. u.cells[r] = t.cells[r]
      BY <2>2, <1>1
    <3>2. RowShows(t, r, 0, MenuRowShown(m, r - y - 1))
      BY <2>0 DEF MenuShown
    <3>3. MenuRowShown(m, r - y - 1) = <<>>
      <4>1. CASE m.rendered_lines > 0
        <5>. PICK k \in Nat : k = m.rows
          BY <4>1
        <5>1. ~(r - y - 1 < k)
          <6>1. k <= n
            BY <4>1
          <6>. QED
            BY <6>1, <2>2
        <5>. QED
          BY <5>1 DEF MenuRowShown
      <4>2. CASE ~(m.rendered_lines > 0)
        BY <4>2 DEF MenuRowShown
      <4>. QED
        BY <4>1, <4>2
    <3>4. RowShows(t, r, 0, <<>>)
      BY <3>2, <3>3
    <3>. QED
      BY <3>1, <3>4, BlankShown
  <2>. QED
    BY <2>1, <2>2
<1>. QED
  BY <1>1, <1>2, <1>3 DEF MenuGone, BlankBelow

LEMMA MenuFields ==
  ASSUME NEW m, NEW at, OpenMenuOK(m, at)
  PROVE  /\ m.candidates \in CandidateLists /\ m.insertion_index \in Nat /\ m.delete_count \in Nat
         /\ m.selected \in Nat /\ m.rows \in Nat /\ m.columns \in Nat /\ m.rendered_lines \in Nat
         /\ Len(m.candidates) >= 2 /\ m.insertion_index <= at /\ m.selected < Len(m.candidates)
         /\ m.columns = ColumnsFor(m.candidates) /\ m.rows = RowsFor(m.candidates)
         /\ m.rendered_lines = RenderedFor(m.candidates)
         /\ m.rendered_lines = IF m.rows < Height THEN m.rows ELSE 0
  BY DEF OpenMenuOK, Menus, RenderedFor

(* The console without the menu. *)
LEMMA UncoveredType ==
  ASSUME EditorInv
  PROVE  Uncovered \in Consoles /\ Uncovered.x = terminal.x /\ Uncovered.y = terminal.y
<1>0. terminal \in Consoles
  BY DEF EditorInv
<1>1. CASE MenuIsOpen
  <2>1. OpenMenuOK(completion_menu, cursor)
    BY <1>1 DEF EditorInv, MenuIsOpen
  <2>. PICK n \in Nat : n = completion_menu.rendered_lines
    BY <2>1, MenuFields
  <2>2. terminal.y + 1 \in 1 .. Height + 1
    BY <1>0, ConsoleFields, Sizes
  <2>3. Uncovered = ClearRows(terminal, terminal.y + 1, n)
    BY <1>1 DEF Uncovered
  <2>. QED
    BY <1>0, <2>2, <2>3, ClearedRows
<1>2. CASE ~MenuIsOpen
  BY <1>0, <1>2 DEF Uncovered
<1>. QED
  BY <1>1, <1>2

LEMMA Uncovers ==
  ASSUME EditorInv, InStep(terminal, input_origin, prompt, line, cursor, completion_menu)
  PROVE  OnScreen(Uncovered, input_origin, prompt, line, cursor)
<1>. PICK t : t = terminal
  OBVIOUS
<1>. PICK u : u = Uncovered
  OBVIOUS
<1>0. t \in Consoles /\ input_origin \in Origins /\ prompt \in Prompts /\ line \in RowTexts
  BY DEF EditorInv, LineOK
<1>1. /\ t.y = input_origin.y /\ t.x = input_origin.x + display_width(SubSeq(line, 1, cursor))
      /\ LineShown(t.cells[t.y], input_origin.x, prompt, line)
      /\ MenuShown(t, completion_menu)
  BY <1>0, InStepIs
<1>2. MenuGone(u, t)
  <2>1. CASE MenuIsOpen
    <3>1. OpenMenuOK(completion_menu, cursor)
      BY <2>1 DEF EditorInv, MenuIsOpen
    <3>. PICK n \in Nat : n = completion_menu.rendered_lines
      BY <3>1, MenuFields
    <3>2. completion_menu.rows \in Nat /\ n = IF completion_menu.rows < Height THEN completion_menu.rows ELSE 0
      BY <3>1, MenuFields
    <3>3. n > 0 => completion_menu.rows <= n
      BY <3>2
    <3>4. u = ClearRows(t, t.y + 1, n)
      BY <2>1 DEF Uncovered
    <3>. QED
      BY <1>0, <1>1, <3>2, <3>3, <3>4, MenuCleared
  <2>2. CASE ~MenuIsOpen
    <3>1. u = t /\ completion_menu = NoMenu
      BY <2>2 DEF Uncovered, MenuIsOpen
    <3>2. ~(NoMenu.rendered_lines > 0)
      BY NoMenuFields
    <3>3. BlankBelow(t)
      BY <1>0, <1>1, <3>1, <3>2, NoMenuShown
    <3>. QED
      BY <1>0, <3>1, <3>3 DEF MenuGone
  <2>. QED
    BY <2>1, <2>2
<1>. QED
  BY <1>1, <1>2 DEF OnScreen, MenuGone

-----------------------------------------------------------------------------
(***************************************************************************)
(* The keys that change the line, and those that move in it.               *)
(***************************************************************************)
LEMMA Histories ==
  /\ HistoryEntries \in Seq(RowTexts) /\ Len(HistoryEntries) \in Nat
  /\ <<>> \in RowTexts
<1>1. HistoryEntries \in Seq(RowTexts)
  BY EditorAssumption
<1>. QED
  BY <1>1 DEF RowTexts

LEMMA InvFields ==
  ASSUME EditorInv
  PROVE  /\ line \in RowTexts /\ line \in Seq(Characters) /\ cursor \in 0 .. Len(line) /\ Len(line) \in Nat
         /\ display_width(line) \in Nat /\ display_width(line) <= MaxWidth
         /\ prompt \in Prompts /\ input_origin \in Origins /\ input_origin.x \in 0 .. Width - 1
         /\ input_origin.y \in 1 .. Height /\ input_origin.x + display_width(line) < Width
         /\ history_position \in 0 .. Len(HistoryEntries) /\ history_draft \in RowTexts
         /\ terminal \in Consoles
         /\ completion_menu = NoMenu \/ OpenMenuOK(completion_menu, cursor)
         /\ terminal.y + completion_menu.rendered_lines <= Height
<1>1. LineOK(line, cursor, prompt, input_origin)
  BY DEF EditorInv
<1>2. line \in Seq(Characters) /\ display_width(line) \in Nat /\ Len(line) \in Nat
  BY <1>1, WidthType DEF LineOK, RowTexts
<1>. QED
  BY <1>1, <1>2 DEF EditorInv, LineOK, Origins

LEMMA BecomesInv ==
  ASSUME EditorInv, NEW newLine \in RowTexts, NEW newCursor \in 0 .. Len(newLine), NEW t \in Consoles,
         Becomes(newLine, newCursor, t),
         input_origin' \in Origins, (input_origin').x + display_width(newLine) < Width,
         \/ KeepBrowsing \/ reset_history_navigation
         \/ history_position' \in 0 .. Len(HistoryEntries) /\ history_draft' \in RowTexts
  PROVE  EditorInv'
<1>1. /\ line' = newLine /\ cursor' = newCursor /\ terminal' = BelowTheLine(t) /\ completion_menu' = NoMenu
      /\ prompt' = prompt /\ read' = "editing" /\ display_width(newLine) <= MaxWidth
  BY DEF Becomes, Editing
<1>2. BelowTheLine(t) \in Consoles
  BY KeptBelow
<1>3. history_position' \in 0 .. Len(HistoryEntries) /\ history_draft' \in RowTexts
  BY InvFields, Histories DEF KeepBrowsing, reset_history_navigation
<1>4. prompt' \in Prompts
  BY <1>1, InvFields
<1>5. LineOK(line', cursor', prompt', input_origin')
  BY <1>1, <1>4 DEF LineOK
<1>6. read' \in Outcomes /\ (ReadsFailOnlyAtTheBottom)'
  BY <1>1 DEF Outcomes, ReadsFailOnlyAtTheBottom
<1>7. (terminal.y + completion_menu.rendered_lines <= Height)'
  BY <1>1, <1>2, NoMenuRoom
<1>. QED
  BY <1>1, <1>2, <1>3, <1>5, <1>6, <1>7 DEF EditorInv

InStepNow == InStep(terminal, input_origin, prompt, line, cursor, completion_menu)

LEMMA BecomesShown ==
  ASSUME EditorInv, NEW newLine \in RowTexts, NEW newCursor, NEW t,
         Becomes(newLine, newCursor, t), input_origin' \in Origins,
         OnScreen(t, input_origin', prompt, newLine, newCursor)
  PROVE  InStepNow'
<1>1. /\ line' = newLine /\ cursor' = newCursor /\ terminal' = BelowTheLine(t) /\ completion_menu' = NoMenu
      /\ prompt' = prompt
  BY DEF Becomes
<1>. PICK o \in Origins : o = input_origin'
  OBVIOUS
<1>2. prompt \in Prompts
  BY InvFields
<1>3. InStep(BelowTheLine(t), o, prompt, newLine, newCursor, NoMenu)
  BY <1>2, ShownStays
<1>. QED
  BY <1>1, <1>3 DEF InStepNow

LEMMA Starts ==
  ASSUME NEW t, NEW x \in Nat, NEW p \in Prompts, NEW a \in RowTexts, NEW b \in RowTexts,
         LineShown(t.cells[t.y], x, p, a \o b), t.x = x + display_width(a)
  PROVE  Started(t, x, p, a) /\ BlankAfter(t.cells[t.y], x + display_width(a \o b))
<1>. PICK row : row = t.cells[t.y]
  OBVIOUS
<1>1. Has(row, x, a \o b)
  BY DEF LineShown
<1>2. Has(row, x, a)
  BY <1>1, HasConcat
<1>. QED
  BY <1>2 DEF LineShown, Started

LEMMA BackTo ==
  ASSUME NEW u, NEW t, NEW origin, NEW p, NEW text, NEW to \in Nat, NEW n \in Nat, NEW at,
         ShownIn(u, t, origin.x, p, text, to), t.y = origin.y,
         n <= to, to - n = origin.x + display_width(SubSeq(text, 1, at))
  PROVE  OnScreen(Backspaces(u, n), origin, p, text, at)
<1>1. u \in Consoles /\ u.y = t.y /\ u.x = to /\ LineShown(u.cells[u.y], origin.x, p, text) /\ BlankBelow(u)
  BY DEF ShownIn
<1>. PICK v : v = Backspaces(u, n)
  OBVIOUS
<1>2. v \in Consoles /\ v.y = u.y /\ v.cells = u.cells /\ v.x = to - n
  BY <1>1, MovedBack
<1>. QED
  BY <1>1, <1>2 DEF OnScreen, BlankBelow

LEMMA DisplayLineType ==
  ASSUME NEW t \in Consoles, NEW chars \in RowTexts, NEW at \in 0 .. Len(chars)
  PROVE  DisplayLine(t, chars, at) \in Consoles
<1>1. After(chars, at) \in Seq(Characters)
  BY HalvesAre DEF Halves, RowTexts
<1>2. display_width(After(chars, at)) \in Nat
  BY <1>1, WidthType
<1>3. Display(t, chars) \in Consoles
  BY TextsArePrinted, DisplayType
<1>. QED
  BY <1>2, <1>3, MovedBack DEF DisplayLine

(* The beginning of the line, up to the cursor, and the rest. *)
LEMMA LineCut ==
  ASSUME NEW text \in RowTexts, NEW at \in 0 .. Len(text)
  PROVE  /\ SubSeq(text, 1, at) \in RowTexts /\ After(text, at) \in RowTexts
         /\ Len(SubSeq(text, 1, at)) = at
         /\ text = SubSeq(text, 1, at) \o After(text, at)
         /\ display_width(SubSeq(text, 1, at)) \in Nat /\ display_width(After(text, at)) \in Nat
         /\ display_width(text) = display_width(SubSeq(text, 1, at)) + display_width(After(text, at))
<1>1. text \in Seq(Characters)
  BY DEF RowTexts
<1>2. Halves(Characters, text, at, SubSeq(text, 1, at), After(text, at))
  BY <1>1, HalvesAre
<1>3. /\ display_width(SubSeq(text, 1, at)) \in Nat /\ display_width(After(text, at)) \in Nat
      /\ display_width(text) = display_width(SubSeq(text, 1, at)) + display_width(After(text, at))
  BY <1>1, WidthSplit
<1>. QED
  BY <1>2, <1>3 DEF Halves, RowTexts

(* The cursor after the one part of the line and before the other. *)
CursorAfter(t, origin, p, before, after) ==
  /\ t \in Consoles
  /\ t.y = origin.y /\ t.x = origin.x + display_width(before)
  /\ LineShown(t.cells[t.y], origin.x, p, before \o after)
  /\ BlankBelow(t)

LEMMA CursorCut ==
  ASSUME NEW text \in RowTexts, NEW at \in 0 .. Len(text), NEW t, NEW origin, NEW p,
         OnScreen(t, origin, p, text, at)
  PROVE  CursorAfter(t, origin, p, SubSeq(text, 1, at), After(text, at))
  BY LineCut DEF OnScreen, CursorAfter

LEMMA CutCursor ==
  ASSUME NEW before \in RowTexts, NEW after \in RowTexts, NEW t, NEW origin, NEW p,
         CursorAfter(t, origin, p, before, after)
  PROVE  OnScreen(t, origin, p, before \o after, Len(before))
<1>1. SubSeq(before \o after, 1, Len(before)) = before
  BY CutConcat DEF RowTexts
<1>. PICK text : text = before \o after
  OBVIOUS
<1>. PICK at : at = Len(before)
  OBVIOUS
<1>2. OnScreen(t, origin, p, text, at)
  BY <1>1 DEF OnScreen, CursorAfter
<1>. QED
  BY <1>2

LEMMA Sums ==
  /\ \A a, b, c \in Nat : c <= a + (b + c) /\ (a + (b + c)) - c = a + b
  /\ \A a, b, c \in Nat : (a + b) + c = a + (b + c)
  /\ \A a, b, c \in Nat : a <= b => c + a <= c + b
  OBVIOUS

Backed(x, wb, wd, wn, wa, n, to, back) ==
  to \in Nat /\ x + (wb + wd) <= to /\ to < Width /\ back <= to /\ to - back = x + (wb + wn)

LEMMA BackedSums ==
  ASSUME NEW x \in Nat, NEW wb \in Nat, NEW wd \in Nat, NEW wn \in Nat, NEW wa \in Nat, NEW n \in Nat, NEW to, NEW back,
         wd <= (wn + wa) + n, x + (wb + ((wn + wa) + n)) < Width,
         to = (x + wb) + (wn + wa) + n, back = wa + n
  PROVE  Backed(x, wb, wd, wn, wa, n, to, back)
  BY Sizes DEF Backed

LEMMA BackOver ==
  ASSUME NEW before \in RowTexts, NEW over \in RowTexts, NEW after \in RowTexts,
         NEW t, NEW origin, origin.x \in Nat, NEW p,
         CursorAfter(t, origin, p, before \o over, after)
  PROVE  CursorAfter(Backspaces(t, display_width(over)), origin, p, before, over \o after)
<1>. PICK x \in Nat : x = origin.x
  OBVIOUS
<1>. PICK wb \in Nat : wb = display_width(before)
  BY WidthType DEF RowTexts
<1>. PICK wo \in Nat : wo = display_width(over)
  BY WidthType DEF RowTexts
<1>. PICK text : text = before \o (over \o after)
  OBVIOUS
<1>1. display_width(before \o over) = wb + wo
  BY WidthConcat DEF RowTexts
<1>2. (before \o over) \o after = text
  <2>1. before \in Seq(Characters) /\ over \in Seq(Characters) /\ after \in Seq(Characters)
    BY DEF RowTexts
  <2>2. Grouped(before, over, after)
    BY <2>1, Regroup
  <2>. QED
    BY <2>2 DEF Grouped
<1>3. t \in Consoles /\ t.y = origin.y /\ t.x = x + (wb + wo) /\ LineShown(t.cells[t.y], x, p, text) /\ BlankBelow(t)
  BY <1>1, <1>2 DEF CursorAfter
<1>. PICK v : v = Backspaces(t, wo)
  OBVIOUS
<1>4. wo <= t.x /\ t.x - wo = x + wb
  <2>1. wo <= x + (wb + wo) /\ (x + (wb + wo)) - wo = x + wb
    BY Sums
  <2>. QED
    BY <2>1, <1>3
<1>5. v \in Consoles /\ v.y = t.y /\ v.cells = t.cells /\ v.x = x + wb
  BY <1>3, <1>4, MovedBack
<1>6. BlankBelow(v)
  BY <1>3, <1>5 DEF BlankBelow
<1>. QED
  BY <1>3, <1>5, <1>6 DEF CursorAfter

(* The rest of the line printed anew, its first characters replaced, blanks *)
(* over what it no longer reaches, and back to where the cursor belongs.    *)
LEMMA Reprinted ==
  ASSUME NEW before \in RowTexts, NEW old \in RowTexts, NEW new \in RowTexts, NEW after \in RowTexts,
         NEW n \in Nat, NEW t, NEW origin \in Origins, NEW p \in Prompts,
         CursorAfter(t, origin, p, before, old),
         display_width(old) <= display_width(new \o after) + n,
         origin.x + (display_width(before) + (display_width(new \o after) + n)) < Width
  PROVE  CursorAfter(Backspaces(Display(t, (new \o after) \o Spaces(n)), display_width(after) + n),
                     origin, p, before \o new, after)
<1>. PICK x \in Nat : x = origin.x
  BY Sizes DEF Origins
<1>. PICK wb \in Nat : wb = display_width(before)
  BY WidthType DEF RowTexts
<1>. PICK wd \in Nat : wd = display_width(old)
  BY WidthType DEF RowTexts
<1>. PICK wn \in Nat : wn = display_width(new)
  BY WidthType DEF RowTexts
<1>. PICK wa \in Nat : wa = display_width(after)
  BY WidthType DEF RowTexts
<1>. PICK rest : rest = new \o after
  OBVIOUS
<1>1. rest \in RowTexts /\ display_width(rest) = wn + wa
  BY ConcatProperties, WidthConcat DEF RowTexts
<1>2. t \in Consoles /\ t.y = origin.y /\ t.x = x + wb /\ LineShown(t.cells[t.y], x, p, before \o old) /\ BlankBelow(t)
  BY DEF CursorAfter
<1>3. Started(t, x, p, before) /\ BlankAfter(t.cells[t.y], x + display_width(before \o old))
  BY <1>2, Starts
<1>. PICK from \in Nat : from = x + (wb + wd)
  OBVIOUS
<1>4. BlankAfter(t.cells[t.y], from)
  <2>1. display_width(before \o old) = wb + wd
    BY WidthConcat DEF RowTexts
  <2>. QED
    BY <2>1, <1>3
<1>. PICK back \in Nat : back = wa + n
  OBVIOUS
<1>. PICK to : to = (x + wb) + (wn + wa) + n
  OBVIOUS
<1>5. to \in Nat /\ from <= to /\ to < Width /\ back <= to /\ to - back = x + (wb + wn)
  <2>1. wd <= (wn + wa) + n /\ x + (wb + ((wn + wa) + n)) < Width
    BY <1>1
  <2>2. Backed(x, wb, wd, wn, wa, n, to, back)
    BY <2>1, BackedSums
  <2>. QED
    BY <2>2 DEF Backed
<1>. PICK tx \in Nat : tx = t.x
  BY <1>2, ConsoleFields
<1>6. from <= t.x + display_width(rest) + n /\ t.x + display_width(rest) + n < Width /\ t.x + display_width(rest) + n = to
  BY <1>1, <1>2, <1>5
<1>. PICK u : u = Display(t, rest \o Spaces(n))
  OBVIOUS
<1>7. ShownIn(u, t, x, p, before \o rest, to)
  <2>1. ShownIn(Display(t, rest \o Spaces(n)), t, x, p, before \o rest, t.x + display_width(rest) + n)
    BY <1>1, <1>2, <1>3, <1>4, <1>6, Rewrite
  <2>. QED
    BY <2>1, <1>6
<1>. PICK head : head = before \o new
  OBVIOUS
<1>8. before \o rest = head \o after /\ head \in RowTexts /\ display_width(head) = wb + wn
  <2>1. before \in Seq(Characters) /\ new \in Seq(Characters) /\ after \in Seq(Characters)
    BY DEF RowTexts
  <2>2. Grouped(before, new, after)
    BY <2>1, Regroup
  <2>3. before \o rest = head \o after
    BY <2>2 DEF Grouped
  <2>4. head \in RowTexts /\ display_width(head) = wb + wn
    BY <2>1, ConcatProperties, WidthConcat DEF RowTexts
  <2>. QED
    BY <2>3, <2>4
<1>9. u \in Consoles /\ u.y = t.y /\ u.x = to /\ LineShown(u.cells[u.y], x, p, before \o rest) /\ BlankBelow(u)
  BY <1>7 DEF ShownIn
<1>. PICK v : v = Backspaces(u, back)
  OBVIOUS
<1>10. v \in Consoles /\ v.y = u.y /\ v.cells = u.cells /\ v.x = x + (wb + wn)
  <2>1. u \in Consoles /\ back <= u.x /\ u.x - back = x + (wb + wn)
    BY <1>5, <1>9
  <2>. QED
    BY <2>1, MovedBack
<1>11. BlankBelow(v)
  BY <1>9, <1>10 DEF BlankBelow
<1>12. v.y = origin.y /\ v.x = x + display_width(head) /\ LineShown(v.cells[v.y], x, p, head \o after)
  BY <1>2, <1>8, <1>9, <1>10
<1>. QED
  BY <1>10, <1>11, <1>12 DEF CursorAfter
LEMMA ReprintedLine ==
  ASSUME NEW before \in RowTexts, NEW old \in RowTexts, NEW new \in RowTexts, NEW after \in RowTexts,
         NEW t, NEW origin \in Origins, NEW p \in Prompts,
         CursorAfter(t, origin, p, before, old),
         display_width(old) <= display_width(new \o after),
         origin.x + (display_width(before) + display_width(new \o after)) < Width
  PROVE  CursorAfter(Backspaces(Display(t, new \o after), display_width(after)), origin, p, before \o new, after)
<1>. PICK rest : rest = new \o after
  OBVIOUS
<1>1. rest \in RowTexts
  BY ConcatProperties DEF RowTexts
<1>. PICK w \in Nat : w = display_width(rest)
  BY <1>1, WidthType DEF RowTexts
<1>. PICK wa \in Nat : wa = display_width(after)
  BY WidthType DEF RowTexts
<1>. PICK wb \in Nat : wb = display_width(before)
  BY WidthType DEF RowTexts
<1>2. rest \o Spaces(0) = rest
  BY <1>1, NoSpaces, ConcatEmptySeq DEF RowTexts
<1>3. w + 0 = w /\ wa + 0 = wa
  OBVIOUS
<1>4. 0 \in Nat /\ display_width(old) <= display_width(rest) + 0
      /\ origin.x + (display_width(before) + (display_width(rest) + 0)) < Width
  BY <1>3
<1>5. CursorAfter(Backspaces(Display(t, rest \o Spaces(0)), display_width(after) + 0), origin, p, before \o new, after)
  BY <1>4, Reprinted
<1>. QED
  BY <1>2, <1>3, <1>5

Inserted(typed, pre, one, aft, k) ==
  /\ typed \in RowTexts /\ pre \in RowTexts /\ one \in RowTexts /\ aft \in RowTexts /\ pre \o one \in RowTexts
  /\ typed = (pre \o one) \o aft
  /\ After(typed, k) = one \o aft /\ After(one \o aft, 1) = aft
  /\ Len(pre \o one) = k + 1 /\ k + 1 \in 0 .. Len(typed)
  /\ 1 \in 0 .. Len(one \o aft) /\ one \o aft \in RowTexts
  /\ display_width(typed) = display_width(pre) + display_width(one \o aft)
  /\ display_width(one \o aft) = display_width(one) + display_width(aft)

LEMMA InsertedParts ==
  ASSUME NEW text \in RowTexts, NEW k \in 0 .. Len(text), NEW c \in Characters
  PROVE  Inserted(InsertAt(text, k + 1, c), SubSeq(text, 1, k), <<c>>, After(text, k), k)
<1>. PICK pre : pre = SubSeq(text, 1, k)
  OBVIOUS
<1>. PICK aft : aft = After(text, k)
  OBVIOUS
<1>. PICK one : one = <<c>>
  OBVIOUS
<1>. PICK typed : typed = InsertAt(text, k + 1, c)
  OBVIOUS
<1>1. text \in Seq(Characters)
  BY DEF RowTexts
<1>2. one \in Seq(Characters) /\ Len(one) = 1
  OBVIOUS
<1>3. pre \in Seq(Characters) /\ aft \in Seq(Characters) /\ Len(pre) = k
  BY LineCut DEF RowTexts
<1>4. /\ typed = (pre \o one) \o aft /\ typed = pre \o (one \o aft) /\ typed \in Seq(Characters)
      /\ pre \o one \in Seq(Characters) /\ Len(pre \o one) = k + 1
  BY <1>1, InsertIs, ZenonT(20)
<1>. PICK head : head = pre \o one
  OBVIOUS
<1>. PICK rest : rest = one \o aft
  OBVIOUS
<1>5. After(rest, 1) = aft /\ rest \in Seq(Characters) /\ 1 \in 0 .. Len(rest)
  <2>1. Parted(Characters, rest, one, aft)
    BY <1>2, <1>3, PartsOf
  <2>. QED
    BY <2>1, <1>2 DEF Parted
<1>6. After(typed, k) = rest
  <2>1. typed = pre \o rest
    BY <1>4
  <2>2. Parted(Characters, typed, pre, rest)
    BY <2>1, <1>3, <1>5, PartsOf
  <2>. QED
    BY <2>2, <1>3 DEF Parted
<1>7. k + 1 \in 0 .. Len(typed)
  <2>1. Len(head) \in 0 .. Len(head \o aft)
    BY <1>3, <1>4, CutConcat
  <2>. QED
    BY <2>1, <1>4
<1>8. display_width(typed) = display_width(pre) + display_width(rest)
  <2>1. display_width(pre \o rest) = display_width(pre) + display_width(rest)
    BY <1>3, <1>5, WidthConcat
  <2>. QED
    BY <2>1, <1>4
<1>9. display_width(rest) = display_width(one) + display_width(aft)
  BY <1>2, <1>3, WidthConcat
<1>. QED
  BY <1>2, <1>3, <1>4, <1>5, <1>6, <1>7, <1>8, <1>9, Zenon DEF Inserted, RowTexts

LEMMA TypedKept ==
  ASSUME EditorInv, NEW c \in Typed, on_char(c)
  PROVE  EditorInv' /\ (InStepNow => InStepNow')
<1>. PICK pre : pre = SubSeq(line, 1, cursor)
  OBVIOUS
<1>. PICK aft : aft = After(line, cursor)
  OBVIOUS
<1>. PICK one : one = <<c>>
  OBVIOUS
<1>. PICK typed : typed = InsertAt(line, cursor + 1, c)
  OBVIOUS
<1>1. c \in Characters
  BY EditorAssumption
<1>2. Inserted(typed, pre, one, aft, cursor)
  BY <1>1, InvFields, InsertedParts
<1>. PICK rest : rest = one \o aft
  OBVIOUS
<1>. PICK u : u = Uncovered
  OBVIOUS
<1>. PICK v : v = DisplayLine(u, rest, 1)
  OBVIOUS
<1>3. Becomes(typed, cursor + 1, v) /\ reset_history_navigation /\ input_origin' = input_origin
  BY <1>2 DEF on_char, Inserted
<1>4. input_origin.x + display_width(typed) < Width /\ input_origin \in Origins /\ prompt \in Prompts
  BY <1>3, InvFields DEF Becomes
<1>5. EditorInv'
  <2>1. v \in Consoles
    BY <1>2, UncoveredType, DisplayLineType DEF Inserted
  <2>2. typed \in RowTexts /\ cursor + 1 \in 0 .. Len(typed)
    BY <1>2 DEF Inserted
  <2>. QED
    BY <1>3, <1>4, <2>1, <2>2, BecomesInv
<1>6. ASSUME InStepNow
      PROVE  InStepNow'
  <2>1. OnScreen(u, input_origin, prompt, line, cursor)
    BY <1>6, Uncovers DEF InStepNow
  <2>2. CursorAfter(u, input_origin, prompt, pre, aft)
    BY <2>1, InvFields, CursorCut
  <2>. PICK wa \in Nat : wa = display_width(aft)
    BY <1>2, WidthType DEF Inserted, RowTexts
  <2>. PICK wo \in Nat : wo = display_width(one)
    BY <1>2, WidthType DEF Inserted, RowTexts
  <2>3. display_width(aft) <= display_width(rest)
    <3>1. wa <= wo + wa
      OBVIOUS
    <3>. QED
      BY <3>1, <1>2 DEF Inserted
  <2>4. input_origin.x + (display_width(pre) + display_width(rest)) < Width
    BY <1>2, <1>4 DEF Inserted
  <2>5. v = Backspaces(Display(u, rest), display_width(aft))
    BY <1>2 DEF DisplayLine, Inserted
  <2>6. CursorAfter(v, input_origin, prompt, pre \o one, aft)
    BY <1>2, <1>4, <2>2, <2>3, <2>4, <2>5, ReprintedLine DEF Inserted
  <2>7. OnScreen(v, input_origin, prompt, typed, cursor + 1)
    <3>1. OnScreen(v, input_origin, prompt, (pre \o one) \o aft, Len(pre \o one))
      BY <1>2, <2>6, CutCursor DEF Inserted
    <3>. QED
      BY <3>1, <1>2 DEF Inserted
  <2>. QED
    BY <1>2, <1>3, <1>4, <2>7, BecomesShown DEF Inserted
<1>. QED
  BY <1>5, <1>6
Removed(text, k, pre, one, aft) ==
  /\ pre \in RowTexts /\ one \in RowTexts /\ aft \in RowTexts /\ one \o aft \in RowTexts /\ pre \o one \in RowTexts
  /\ SubSeq(text, 1, k) = pre \o one /\ After(text, k) = aft /\ After(text, k - 1) = one \o aft
  /\ text = pre \o (one \o aft) /\ text = (pre \o one) \o aft
  /\ RemoveAt(text, k) = pre \o aft /\ pre \o aft \in RowTexts
  /\ Len(pre) = k - 1 /\ k - 1 \in 0 .. Len(pre \o aft) /\ Len(pre \o one) = k
  /\ display_width(text) = display_width(pre) + (display_width(one) + display_width(aft))
  /\ display_width(pre \o aft) = display_width(pre) + display_width(aft)
  /\ display_width(one \o aft) = display_width(one) + display_width(aft)

LEMMA RemovedParts ==
  ASSUME NEW text \in RowTexts, NEW k \in 1 .. Len(text)
  PROVE  Removed(text, k, SubSeq(text, 1, k - 1), <<text[k]>>, After(text, k))
<1>1. text \in Seq(Characters)
  BY DEF RowTexts
<1>2. /\ text[k] \in Characters /\ k - 1 \in 0 .. Len(text) /\ k \in 0 .. Len(text)
      /\ SubSeq(text, 1, k) = SubSeq(text, 1, k - 1) \o <<text[k]>>
      /\ text = SubSeq(text, 1, k - 1) \o (<<text[k]>> \o After(text, k))
      /\ RemoveAt(text, k) = SubSeq(text, 1, k - 1) \o After(text, k)
  BY <1>1, RemoveIs
<1>. PICK j : j = k - 1
  OBVIOUS
<1>. PICK pre : pre = SubSeq(text, 1, j)
  OBVIOUS
<1>. PICK aft : aft = After(text, k)
  OBVIOUS
<1>. PICK one : one = <<text[k]>>
  OBVIOUS
<1>. PICK rest : rest = one \o aft
  OBVIOUS
<1>. PICK left : left = pre \o aft
  OBVIOUS
<1>. PICK head : head = pre \o one
  OBVIOUS
<1>3. one \in Seq(Characters) /\ Len(one) = 1
  BY <1>2
<1>4. pre \in Seq(Characters) /\ Len(pre) = j
  BY <1>2, LineCut DEF RowTexts
<1>5. aft \in Seq(Characters)
  BY <1>2, LineCut DEF RowTexts
<1>6. Parted(Characters, rest, one, aft) /\ Parted(Characters, left, pre, aft)
  BY <1>3, <1>4, <1>5, PartsOf
<1>7. rest \in Seq(Characters) /\ left \in Seq(Characters) /\ j \in 0 .. Len(left)
  BY <1>4, <1>6 DEF Parted
<1>8. text = pre \o rest /\ SubSeq(text, 1, k) = head /\ RemoveAt(text, k) = left
  BY <1>2
<1>9. Parted(Characters, text, pre, rest)
  BY <1>4, <1>7, <1>8, PartsOf
<1>10. After(text, j) = rest
  BY <1>4, <1>9 DEF Parted
<1>11. head \in Seq(Characters) /\ Len(head) = k
  <2>1. head \in Seq(Characters) /\ Len(head) = j + 1
    BY <1>2, <1>4, OneMore
  <2>. QED
    BY <2>1
<1>12. text = head \o aft
  <2>1. Grouped(pre, one, aft)
    BY <1>3, <1>4, <1>5, Regroup
  <2>. QED
    BY <2>1, <1>8 DEF Grouped
<1>13. display_width(rest) = display_width(one) + display_width(aft) /\ display_width(left) = display_width(pre) + display_width(aft)
  BY <1>3, <1>4, <1>5, WidthConcat
<1>14. display_width(text) = display_width(pre) + (display_width(one) + display_width(aft))
  <2>1. display_width(pre \o rest) = display_width(pre) + display_width(rest)
    BY <1>4, <1>7, WidthConcat
  <2>. QED
    BY <2>1, <1>8, <1>13
<1>. QED
  BY <1>3, <1>4, <1>5, <1>7, <1>8, <1>10, <1>11, <1>12, <1>13, <1>14, Zenon DEF Removed, RowTexts

LEMMA BlanksAfter ==
  ASSUME NEW text \in RowTexts, NEW n \in Nat
  PROVE  text \o Spaces(n) \in RowTexts /\ display_width(text \o Spaces(n)) = display_width(text) + n
<1>. PICK blanks : blanks = Spaces(n)
  OBVIOUS
<1>1. blanks \in RowTexts /\ display_width(blanks) = n
  BY WidthSpaces
<1>2. text \o blanks \in RowTexts /\ display_width(text \o blanks) = display_width(text) + display_width(blanks)
  BY <1>1, ConcatProperties, WidthConcat DEF RowTexts
<1>. QED
  BY <1>1, <1>2

LEMMA AfterNone ==
  ASSUME NEW text \in RowTexts
  PROVE  After(text, 0) = text
<1>1. text \in Seq(Characters) /\ 0 \in 0 .. Len(text)
  BY LenProperties DEF RowTexts
<1>2. Halves(Characters, text, 0, SubSeq(text, 1, 0), After(text, 0))
  BY <1>1, HalvesAre
<1>3. /\ After(text, 0) \in Seq(Characters) /\ Len(After(text, 0)) = Len(text) - 0
      /\ \A i \in 1 .. (Len(text) - 0) : After(text, 0)[i] = text[0 + i]
  BY <1>2 DEF Halves
<1>. PICK n \in Nat : n = Len(text)
  BY <1>1, LenProperties
<1>. PICK s : s = After(text, 0)
  OBVIOUS
<1>4. Len(s) = n /\ \A i \in 1 .. n : s[i] = text[i]
  <2>1. n - 0 = n /\ \A i \in 1 .. n : 0 + i = i
    OBVIOUS
  <2>. QED
    BY <1>3, <2>1
<1>. QED
  BY <1>1, <1>3, <1>4, SeqEqual

LEMMA ErasedKept ==
  ASSUME EditorInv, backspace
  PROVE  EditorInv' /\ (InStepNow => InStepNow')
<1>. PICK u : u = Uncovered
  OBVIOUS
<1>0. u \in Consoles /\ input_origin' = input_origin /\ reset_history_navigation
  BY UncoveredType DEF backspace
<1>1. CASE cursor = 0
  <2>1. Becomes(line, cursor, u)
    BY <1>1 DEF backspace
  <2>2. EditorInv'
    BY <1>0, <2>1, InvFields, BecomesInv
  <2>3. ASSUME InStepNow
        PROVE  InStepNow'
    <3>1. OnScreen(u, input_origin, prompt, line, cursor)
      BY <2>3, Uncovers DEF InStepNow
    <3>. QED
      BY <1>0, <2>1, <3>1, InvFields, BecomesShown
  <2>. QED
    BY <2>2, <2>3
<1>2. CASE cursor # 0
  <2>. PICK pre : pre = SubSeq(line, 1, cursor - 1)
    OBVIOUS
  <2>. PICK aft : aft = After(line, cursor)
    OBVIOUS
  <2>. PICK one : one = <<line[cursor]>>
    OBVIOUS
  <2>. PICK left : left = RemoveAt(line, cursor)
    OBVIOUS
  <2>1. Removed(line, cursor, pre, one, aft)
    <3>1. cursor \in 1 .. Len(line)
      BY <1>2, InvFields
    <3>. QED
      BY <3>1, InvFields, RemovedParts
  <2>. PICK width \in Nat : width = display_width(one)
    BY <2>1, WidthType DEF Removed, RowTexts
  <2>. PICK rest : rest = aft \o Spaces(width)
    OBVIOUS
  <2>. PICK t : t = Backspaces(u, width)
    OBVIOUS
  <2>. PICK v : v = Erased
    OBVIOUS
  <2>2. Becomes(left, cursor - 1, v)
    BY <1>2 DEF backspace
  <2>3. rest \in RowTexts /\ display_width(rest) = display_width(aft) + width
    <3>1. aft \in RowTexts
      BY <2>1 DEF Removed
    <3>. QED
      BY <3>1, BlanksAfter
  <2>4. v = DisplayLine(t, rest, 0)
    BY DEF Erased
  <2>5. left \in RowTexts /\ left = pre \o aft /\ cursor - 1 \in 0 .. Len(left)
    BY <2>1 DEF Removed
  <2>. PICK wp \in Nat : wp = display_width(pre)
    BY <2>1, WidthType DEF Removed, RowTexts
  <2>. PICK wa \in Nat : wa = display_width(aft)
    BY <2>1, WidthType DEF Removed, RowTexts
  <2>6. display_width(line) = wp + (width + wa) /\ display_width(left) = wp + wa
    BY <2>1, <2>5 DEF Removed
  <2>. PICK x \in Nat : x = input_origin.x
    BY InvFields
  <2>7. x + (wp + (width + wa)) < Width
    BY <2>6, InvFields
  <2>8. EditorInv'
    <3>1. v \in Consoles
      <4>1. 0 \in 0 .. Len(rest)
        BY <2>3, LenProperties DEF RowTexts
      <4>2. t \in Consoles
        BY <1>0, MovedBack
      <4>. QED
        BY <2>3, <2>4, <4>1, <4>2, DisplayLineType
    <3>2. input_origin.x + display_width(left) < Width
      BY <2>2 DEF Becomes
    <3>. QED
      BY <1>0, <2>2, <2>5, <3>1, <3>2, InvFields, BecomesInv
  <2>9. ASSUME InStepNow
        PROVE  InStepNow'
    <3>1. OnScreen(u, input_origin, prompt, line, cursor)
      BY <2>9, Uncovers DEF InStepNow
    <3>2. CursorAfter(u, input_origin, prompt, pre \o one, aft)
      BY <2>1, <3>1, InvFields, CursorCut DEF Removed
    <3>3. CursorAfter(t, input_origin, prompt, pre, one \o aft)
      BY <2>1, <3>2, InvFields, BackOver DEF Removed
    <3>4. <<>> \in RowTexts /\ <<>> \o aft = aft /\ pre \o <<>> = pre
      BY <2>1, Histories, ConcatEmptySeq DEF Removed, RowTexts
    <3>5. /\ display_width(one \o aft) <= display_width(aft) + width
          /\ input_origin.x + (display_width(pre) + (display_width(aft) + width)) < Width
      <4>1. display_width(one \o aft) = width + wa
        BY <2>1 DEF Removed
      <4>2. width + wa = wa + width
        OBVIOUS
      <4>. QED
        BY <4>1, <4>2, <2>7
    <3>. PICK none \in RowTexts : none = <<>>
      BY <3>4
    <3>6. CursorAfter(Backspaces(Display(t, (none \o aft) \o Spaces(width)), display_width(aft) + width),
                      input_origin, prompt, pre \o none, aft)
      <4>1. /\ display_width(one \o aft) <= display_width(none \o aft) + width
            /\ input_origin.x + (display_width(pre) + (display_width(none \o aft) + width)) < Width
        BY <3>4, <3>5
      <4>2. input_origin \in Origins /\ prompt \in Prompts
        BY InvFields
      <4>3. pre \in RowTexts /\ one \o aft \in RowTexts /\ aft \in RowTexts
        BY <2>1 DEF Removed
      <4>. QED
        BY <3>3, <4>1, <4>2, <4>3, Reprinted
    <3>7. v = Backspaces(Display(t, rest), display_width(aft) + width)
      <4>1. After(rest, 0) = rest
        BY <2>3, AfterNone
      <4>. QED
        BY <2>3, <2>4, <4>1 DEF DisplayLine
    <3>8. CursorAfter(v, input_origin, prompt, pre, aft)
      BY <3>4, <3>6, <3>7
    <3>9. OnScreen(v, input_origin, prompt, left, cursor - 1)
      <4>1. OnScreen(v, input_origin, prompt, pre \o aft, Len(pre))
        BY <2>1, <3>8, CutCursor DEF Removed
      <4>. QED
        BY <4>1, <2>1, <2>5 DEF Removed
    <3>. QED
      BY <1>0, <2>2, <2>5, <3>9, InvFields, BecomesShown
  <2>. QED
    BY <2>8, <2>9
<1>. QED
  BY <1>1, <1>2
Fitting(x, ws, wb, wo, wa, tx, to) ==
  /\ tx + wo <= Width /\ tx + wo < Width /\ to + wa <= Width /\ tx \in Nat /\ to \in Nat /\ to = tx + wo
  /\ x - ws \in Nat /\ (x - ws) + ws <= tx /\ (x - ws) + ws <= Width /\ x + wb <= Width /\ x + wb <= tx
  /\ x + (wb + (wo + wa)) = to + wa /\ x + (wb + (wo + wa)) <= Width

LEMMA FittingSums ==
  ASSUME NEW x \in Nat, NEW ws \in Nat, NEW wb \in Nat, NEW wo \in Nat, NEW wa \in Nat, NEW tx, NEW to,
         ws <= x, x + (wb + (wo + wa)) < Width, tx = x + wb, to = tx + wo
  PROVE  Fitting(x, ws, wb, wo, wa, tx, to)
  BY Sizes DEF Fitting

LEMMA OnlyItsRow ==
  ASSUME NEW u, NEW t \in Consoles, u.y = t.y, BlankBelow(t), \A y \in 1 .. Height : y # t.y => u.cells[y] = t.cells[y]
  PROVE  BlankBelow(u)
<1>1. ASSUME NEW y \in 1 .. Height, u.y < y
      PROVE  BlankAfter(u.cells[y], 0)
  <2>0. t.y \in Nat /\ y \in Nat
    BY ConsoleFields, Sizes
  <2>1. t.y < y /\ y # t.y
    BY <1>1, <2>0
  <2>. QED
    BY <2>1 DEF BlankBelow
<1>. QED
  BY <1>1 DEF BlankBelow

(* What is there, printed again, stays what it is. *)
LEMMA PrintedAgain ==
  ASSUME NEW before \in RowTexts, NEW over \in RowTexts, NEW after \in RowTexts,
         NEW t, NEW origin \in Origins, NEW p \in Prompts,
         CursorAfter(t, origin, p, before, over \o after),
         origin.x + (display_width(before) + display_width(over \o after)) < Width
  PROVE  CursorAfter(Display(t, over), origin, p, before \o over, after)
<1>. PICK x \in Nat : x = origin.x
  BY Sizes DEF Origins
<1>. PICK wb \in Nat : wb = display_width(before)
  BY WidthType DEF RowTexts
<1>. PICK wo \in Nat : wo = display_width(over)
  BY WidthType DEF RowTexts
<1>. PICK wa \in Nat : wa = display_width(after)
  BY WidthType DEF RowTexts
<1>. PICK rest : rest = over \o after
  OBVIOUS
<1>. PICK text : text = before \o rest
  OBVIOUS
<1>. PICK head : head = before \o over
  OBVIOUS
<1>1. rest \in RowTexts /\ display_width(rest) = wo + wa
  BY ConcatProperties, WidthConcat DEF RowTexts
<1>2. text \in RowTexts /\ display_width(text) = wb + (wo + wa)
  BY <1>1, ConcatProperties, WidthConcat DEF RowTexts
<1>3. head \in RowTexts /\ display_width(head) = wb + wo
  BY ConcatProperties, WidthConcat DEF RowTexts
<1>4. head \o after = text
  <2>1. before \in Seq(Characters) /\ over \in Seq(Characters) /\ after \in Seq(Characters)
    BY DEF RowTexts
  <2>2. Grouped(before, over, after)
    BY <2>1, Regroup
  <2>. QED
    BY <2>2 DEF Grouped
<1>5. t \in Consoles /\ t.y = origin.y /\ t.x = x + wb /\ LineShown(t.cells[t.y], x, p, text) /\ BlankBelow(t)
  BY DEF CursorAfter
<1>. PICK shown : shown = PromptShown(p)
  OBVIOUS
<1>. PICK ws \in Nat : ws = display_width(shown)
  BY PromptsAre
<1>6. /\ shown \in RowTexts /\ ws <= x /\ Has(t.cells[t.y], x - ws, shown) /\ Has(t.cells[t.y], x, text)
      /\ BlankAfter(t.cells[t.y], x + (wb + (wo + wa)))
  BY <1>2, <1>5, PromptsAre DEF LineShown
<1>7. Has(t.cells[t.y], x, before) /\ Has(t.cells[t.y], x + wb, over) /\ Has(t.cells[t.y], (x + wb) + wo, after)
  <2>1. Has(t.cells[t.y], x, before) /\ Has(t.cells[t.y], x + wb, rest)
    BY <1>1, <1>6, HasConcat
  <2>2. x + wb \in Nat
    OBVIOUS
  <2>. QED
    BY <2>1, <2>2, HasConcat
<1>. PICK tx \in Nat : tx = x + wb
  OBVIOUS
<1>. PICK to \in Nat : to = tx + wo
  OBVIOUS
<1>8. Fitting(x, ws, wb, wo, wa, tx, to)
  <2>1. x + (wb + (wo + wa)) < Width
    BY <1>1
  <2>. QED
    BY <2>1, <1>6, FittingSums
<1>. PICK u : u = Display(t, over)
  OBVIOUS
<1>9. Wrote(u, t, over)
  <2>1. t.x + display_width(over) < Width
    BY <1>5, <1>8 DEF Fitting
  <2>. QED
    BY <2>1, <1>5, DisplayWrites
<1>10. /\ u \in Consoles /\ u.y = t.y /\ u.x = tx + wo
       /\ \A y \in 1 .. Height : y # t.y => u.cells[y] = t.cells[y]
       /\ \A j \in 1 .. Width : u.cells[t.y][j] = IF tx < j /\ j <= tx + wo THEN Cells(over)[j - tx] ELSE t.cells[t.y][j]
  BY <1>5, <1>9 DEF Wrote
<1>11. Has(u.cells[u.y], x - ws, shown)
  <2>1. x - ws \in Nat /\ (x - ws) + display_width(shown) <= Width /\ (x - ws) + display_width(shown) <= t.x
    BY <1>5, <1>8 DEF Fitting
  <2>. QED
    BY <2>1, <1>5, <1>6, <1>9, HasKept
<1>12. Has(u.cells[u.y], x, before)
  <2>1. x + display_width(before) <= Width /\ x + display_width(before) <= t.x
    BY <1>5, <1>8 DEF Fitting
  <2>. QED
    BY <2>1, <1>5, <1>7, <1>9, HasKept
<1>13. Has(u.cells[u.y], tx, over)
  <2>1. t.x + display_width(over) <= Width
    BY <1>5, <1>8 DEF Fitting
  <2>. QED
    BY <2>1, <1>5, <1>9, HasWritten
<1>14. Has(u.cells[u.y], to, after)
  <2>1. to + display_width(after) <= Width /\ t.x + display_width(over) <= to
    BY <1>5, <1>8, SMTT(30) DEF Fitting
  <2>2. Has(t.cells[t.y], to, after)
    BY <1>7
  <2>. QED
    BY <2>1, <2>2, <1>5, <1>9, HasKept
<1>15. Has(u.cells[u.y], x, text)
  <2>1. Has(u.cells[u.y], tx, rest)
    BY <1>13, <1>14, HasConcat
  <2>. QED
    BY <2>1, <1>1, <1>12, HasConcat
<1>16. BlankAfter(u.cells[u.y], x + (wb + (wo + wa)))
  <2>1. ASSUME NEW j \in 1 .. Width, x + (wb + (wo + wa)) < j
        PROVE  u.cells[t.y][j] = " "
    <3>1. ~(j <= tx + wo)
      <4>1. to + wa < j
        BY <2>1, <1>8 DEF Fitting
      <4>2. \A a, b, k \in Nat : a + b < k => ~(k <= a)
        OBVIOUS
      <4>3. j \in Nat
        BY Sizes
      <4>4. ~(j <= to)
        BY <4>1, <4>2, <4>3
      <4>. QED
        BY <4>4
    <3>. QED
      BY <2>1, <3>1, <1>6, <1>10 DEF BlankAfter
  <2>. QED
    BY <2>1, <1>10 DEF BlankAfter
<1>17. LineShown(u.cells[u.y], x, p, text)
  BY <1>2, <1>6, <1>8, <1>11, <1>15, <1>16 DEF LineShown, Fitting
<1>18. BlankBelow(u)
  BY <1>5, <1>10, OnlyItsRow
<1>19. u.x = x + display_width(head)
  <2>1. (x + wb) + wo = x + (wb + wo)
    BY Sums, SMTT(30)
  <2>. QED
    BY <2>1, <1>3, <1>10
<1>. QED
  BY <1>4, <1>5, <1>10, <1>17, <1>18, <1>19 DEF CursorAfter

LEMMA LeftKept ==
  ASSUME EditorInv, move_cursor_left
  PROVE  EditorInv' /\ (InStepNow => InStepNow')
<1>. PICK pre : pre = SubSeq(line, 1, cursor - 1)
  OBVIOUS
<1>. PICK aft : aft = After(line, cursor)
  OBVIOUS
<1>. PICK one : one = <<line[cursor]>>
  OBVIOUS
<1>. PICK v : v = Backspaces(terminal, display_width(one))
  OBVIOUS
<1>1. ~MenuIsOpen /\ cursor > 0 /\ Becomes(line, cursor - 1, v) /\ KeepBrowsing /\ input_origin' = input_origin
  BY DEF move_cursor_left
<1>2. cursor \in 1 .. Len(line) /\ cursor - 1 \in 0 .. Len(line)
  BY <1>1, InvFields
<1>3. Removed(line, cursor, pre, one, aft)
  BY <1>2, InvFields, RemovedParts
<1>4. display_width(one) \in Nat
  BY <1>3, WidthType DEF Removed, RowTexts
<1>5. EditorInv'
  <2>1. v \in Consoles
    BY <1>4, InvFields, MovedBack
  <2>. QED
    BY <1>1, <1>2, <2>1, InvFields, BecomesInv
<1>6. ASSUME InStepNow
      PROVE  InStepNow'
  <2>1. terminal = Uncovered
    BY <1>1 DEF Uncovered
  <2>2. OnScreen(terminal, input_origin, prompt, line, cursor)
    BY <1>6, <2>1, Uncovers DEF InStepNow
  <2>3. CursorAfter(terminal, input_origin, prompt, pre \o one, aft)
    BY <1>3, <2>2, InvFields, CursorCut DEF Removed
  <2>4. CursorAfter(v, input_origin, prompt, pre, one \o aft)
    <3>1. pre \in RowTexts /\ one \in RowTexts /\ aft \in RowTexts
      BY <1>3 DEF Removed
    <3>2. input_origin.x \in Nat
      BY InvFields
    <3>. QED
      BY <2>3, <3>1, <3>2, BackOver
  <2>5. OnScreen(v, input_origin, prompt, line, cursor - 1)
    <3>. PICK rest : rest = one \o aft
      OBVIOUS
    <3>1. OnScreen(v, input_origin, prompt, pre \o rest, Len(pre))
      BY <1>3, <2>4, CutCursor DEF Removed
    <3>. QED
      BY <3>1, <1>3 DEF Removed
  <2>. QED
    BY <1>1, <2>5, InvFields, BecomesShown
<1>. QED
  BY <1>5, <1>6

LEMMA RightKept ==
  ASSUME EditorInv, move_cursor_right
  PROVE  EditorInv' /\ (InStepNow => InStepNow')
<1>. PICK to : to = cursor + 1
  OBVIOUS
<1>. PICK pre : pre = SubSeq(line, 1, cursor)
  OBVIOUS
<1>. PICK aft : aft = After(line, to)
  OBVIOUS
<1>. PICK c : c = line[to]
  OBVIOUS
<1>. PICK one : one = <<c>>
  OBVIOUS
<1>. PICK v : v = Put(terminal, c)
  OBVIOUS
<1>1. ~MenuIsOpen /\ cursor < Len(line) /\ Becomes(line, to, v) /\ KeepBrowsing /\ input_origin' = input_origin
  BY DEF move_cursor_right
<1>2. to \in 1 .. Len(line) /\ to \in 0 .. Len(line) /\ to - 1 = cursor
  BY <1>1, InvFields
<1>3. Removed(line, to, pre, one, aft)
  <2>1. Removed(line, to, SubSeq(line, 1, to - 1), <<line[to]>>, After(line, to))
    BY <1>2, InvFields, RemovedParts
  <2>. QED
    BY <2>1, <1>2
<1>4. c \in Printed
  BY <1>2, InvFields, ElementOfSeq, TextsArePrinted
<1>5. EditorInv'
  <2>1. v \in Consoles
    BY <1>4, InvFields, PutType
  <2>. QED
    BY <1>1, <1>2, <2>1, InvFields, BecomesInv
<1>6. ASSUME InStepNow
      PROVE  InStepNow'
  <2>1. terminal = Uncovered
    BY <1>1 DEF Uncovered
  <2>2. OnScreen(terminal, input_origin, prompt, line, cursor)
    BY <1>6, <2>1, Uncovers DEF InStepNow
  <2>3. CursorAfter(terminal, input_origin, prompt, pre, one \o aft)
    BY <1>2, <1>3, <2>2, InvFields, CursorCut DEF Removed
  <2>4. v = Display(terminal, one)
    BY <1>4, InvFields, DisplayOne
  <2>5. input_origin.x + (display_width(pre) + display_width(one \o aft)) < Width
    BY <1>3, InvFields DEF Removed
  <2>6. CursorAfter(v, input_origin, prompt, pre \o one, aft)
    <3>1. pre \in RowTexts /\ one \in RowTexts /\ aft \in RowTexts
      BY <1>3 DEF Removed
    <3>2. input_origin \in Origins /\ prompt \in Prompts
      BY InvFields
    <3>. QED
      BY <2>3, <2>4, <2>5, <3>1, <3>2, PrintedAgain
  <2>7. OnScreen(v, input_origin, prompt, line, to)
    <3>. PICK head : head = pre \o one
      OBVIOUS
    <3>1. OnScreen(v, input_origin, prompt, head \o aft, Len(head))
      BY <1>3, <2>6, CutCursor DEF Removed
    <3>. QED
      BY <3>1, <1>3 DEF Removed
  <2>. QED
    BY <1>1, <2>7, InvFields, BecomesShown
<1>. QED
  BY <1>5, <1>6
-----------------------------------------------------------------------------
(***************************************************************************)
(* The prompt and the line printed anew.                                   *)
(***************************************************************************)
(* Where a prompt ends, whatever it is printed over. *)
LEMMA PromptEnds ==
  ASSUME NEW t \in Consoles, NEW p \in Prompts, t.x = 0
  PROVE  /\ Display(t, p) \in Consoles /\ Display(t, p).x = display_width(PromptShown(p))
         /\ p = PromptShown(p) => Display(t, p).y = t.y
<1>. PICK shown : shown = PromptShown(p)
  OBVIOUS
<1>0. shown \in RowTexts /\ display_width(shown) \in Nat /\ display_width(shown) < Width /\ p \in Seq(Printed)
  <2>1. \A a \in Nat : a + MaxWidth < Width => a < Width
    BY Sizes
  <2>. QED
    BY <2>1, PromptsAre
<1>. PICK w \in Nat : w = display_width(shown)
  BY <1>0
<1>1. \A u \in Consoles : u.x = 0 => Display(u, shown) \in Consoles /\ Display(u, shown).x = w /\ Display(u, shown).y = u.y
  <2>. SUFFICES ASSUME NEW u \in Consoles, u.x = 0
                PROVE  Display(u, shown) \in Consoles /\ Display(u, shown).x = w /\ Display(u, shown).y = u.y
    OBVIOUS
  <2>1. 0 + w = w /\ u.x + display_width(shown) < Width
    BY <1>0
  <2>2. Wrote(Display(u, shown), u, shown)
    BY <1>0, <2>1, DisplayWrites
  <2>. QED
    BY <2>1, <2>2 DEF Wrote
<1>2. CASE p = shown
  BY <1>1, <1>2
<1>3. CASE p = <<"nl">> \o shown /\ p # shown
  <2>. PICK nl : nl = "nl"
    OBVIOUS
  <2>. PICK one : one = <<nl>>
    OBVIOUS
  <2>. PICK u : u = Newline(t)
    OBVIOUS
  <2>1. nl \in Printed /\ one \in Seq(Printed) /\ shown \in Seq(Printed) /\ p = one \o shown
    BY <1>0, <1>3, TextsArePrinted DEF Printed
  <2>2. Display(t, one \o shown) = Display(Display(t, one), shown)
    BY <2>1, DisplayConcat
  <2>3. Display(t, one) = Put(t, nl)
    BY <2>1, DisplayOne
  <2>4. Put(t, nl) = u
    BY DEF Put
  <2>5. u \in Consoles /\ u.x = 0
    BY NewlineMoves
  <2>6. Display(t, p) = Display(u, shown)
    BY <2>1, <2>2, <2>3, <2>4
  <2>7. Display(u, shown) \in Consoles /\ Display(u, shown).x = w
    BY <1>1, <2>5
  <2>. QED
    BY <1>3, <2>6, <2>7
<1>. QED
  BY <1>2, <1>3, PromptsAre

LEMMA OriginIs ==
  ASSUME NEW t \in Consoles
  PROVE  Origin(t) \in Origins /\ Origin(t).x = t.x /\ Origin(t).y = t.y
<1>1. t.x \in 0 .. Width - 1 /\ t.y \in 1 .. Height
  BY DEF Consoles
<1>. QED
  BY <1>1 DEF Origin, Origins

LEMMA PromptRoom ==
  ASSUME NEW p \in Prompts, NEW x \in Nat, x = display_width(PromptShown(p)), NEW w \in Nat, w <= MaxWidth
  PROVE  x + w < Width
<1>1. x + MaxWidth < Width
  BY PromptsAre
<1>. QED
  BY <1>1, Sizes

LEMMA FreshPrompt ==
  ASSUME NEW s, NEW t, NEW p \in Prompts, PromptReady(s, t, p)
  PROVE  /\ s \in Consoles /\ Origin(s) \in Origins /\ Origin(s).x = display_width(PromptShown(p))
         /\ CursorAfter(s, Origin(s), p, <<>>, <<>>)
<1>1. s \in Consoles /\ s.x = display_width(PromptShown(p)) /\ LineShown(s.cells[s.y], s.x, p, <<>>) /\ BlankBelow(s)
  BY DEF PromptReady
<1>. PICK none : none = <<>>
  OBVIOUS
<1>. PICK x \in Nat : x = s.x
  BY <1>1, ConsoleFields
<1>2. none \in Seq(Characters) /\ none \o none = none /\ display_width(none) = 0 /\ x + 0 = x
  BY ConcatEmptySeq, WidthEmpty
<1>3. CursorAfter(s, Origin(s), p, none, none)
  BY <1>1, <1>2, OriginIs DEF CursorAfter
<1>. QED
  BY <1>1, <1>3, OriginIs

LEMMA LinePrinted ==
  ASSUME NEW s, NEW t, NEW p \in Prompts, PromptReady(s, t, p),
         NEW text \in RowTexts, display_width(text) <= MaxWidth, NEW at \in 0 .. Len(text)
  PROVE  OnScreen(DisplayLine(s, text, at), Origin(s), p, text, at)
<1>. PICK a : a = SubSeq(text, 1, at)
  OBVIOUS
<1>. PICK b : b = After(text, at)
  OBVIOUS
<1>. PICK none : none = <<>>
  OBVIOUS
<1>1. a \in RowTexts /\ b \in RowTexts /\ Len(a) = at /\ text = a \o b
  BY LineCut
<1>2. none \in RowTexts /\ none \o a = a /\ display_width(none) = 0
  BY <1>1, Histories, WidthEmpty, ConcatEmptySeq DEF RowTexts
<1>3. s \in Consoles /\ Origin(s) \in Origins /\ Origin(s).x = display_width(PromptShown(p)) /\ CursorAfter(s, Origin(s), p, none, none)
  BY FreshPrompt
<1>. PICK w \in Nat : w = display_width(text)
  BY WidthType DEF RowTexts
<1>4. Origin(s).x + (display_width(none) + display_width(text)) < Width /\ display_width(none) <= display_width(text)
  <2>1. Origin(s).x \in Nat
    BY <1>3, PromptsAre
  <2>2. Origin(s).x + w < Width
    BY <1>3, <2>1, PromptRoom
  <2>. QED
    BY <1>2, <2>2
<1>. PICK v : v = DisplayLine(s, text, at)
  OBVIOUS
<1>5. v = Backspaces(Display(s, a \o b), display_width(b))
  BY <1>1 DEF DisplayLine
<1>6. CursorAfter(v, Origin(s), p, none \o a, b)
  <2>1. /\ display_width(none) <= display_width(a \o b)
        /\ Origin(s).x + (display_width(none) + display_width(a \o b)) < Width
    BY <1>1, <1>4
  <2>2. CursorAfter(Backspaces(Display(s, a \o b), display_width(b)), Origin(s), p, none \o a, b)
    BY <1>1, <1>2, <1>3, <2>1, ReprintedLine
  <2>. QED
    BY <1>5, <2>2
<1>7. CursorAfter(v, Origin(s), p, a, b)
  BY <1>2, <1>6
<1>8. OnScreen(v, Origin(s), p, a \o b, Len(a))
  BY <1>1, <1>7, CutCursor
<1>. QED
  BY <1>1, <1>8

LEMMA WholeLinePrinted ==
  ASSUME NEW s, NEW t, NEW p \in Prompts, PromptReady(s, t, p),
         NEW text \in RowTexts, display_width(text) <= MaxWidth
  PROVE  OnScreen(Display(s, text), Origin(s), p, text, Len(text))
<1>. PICK none : none = <<>>
  OBVIOUS
<1>1. none \in RowTexts /\ none \o text = text /\ display_width(none) = 0
  BY Histories, WidthEmpty, ConcatEmptySeq DEF RowTexts
<1>2. s \in Consoles /\ s.x = display_width(PromptShown(p)) /\ LineShown(s.cells[s.y], s.x, p, none) /\ BlankBelow(s)
  BY DEF PromptReady
<1>. PICK x \in Nat : x = s.x
  BY <1>2, ConsoleFields
<1>. PICK w \in Nat : w = display_width(text)
  BY WidthType DEF RowTexts
<1>3. x + w < Width
  BY <1>2, PromptRoom
<1>4. Started(s, x, p, none) /\ BlankAfter(s.cells[s.y], x)
  <2>1. none \o none = none /\ x + 0 = x
    BY <1>1
  <2>2. Started(s, x, p, none) /\ BlankAfter(s.cells[s.y], x + display_width(none \o none))
    BY <1>1, <1>2, <2>1, Starts
  <2>. QED
    BY <1>1, <2>1, <2>2
<1>5. ShownIn(Display(s, text), s, x, p, none \o text, s.x + display_width(text))
  <2>1. x <= s.x + display_width(text) /\ s.x + display_width(text) < Width
    BY <1>3
  <2>. QED
    BY <2>1, <1>1, <1>2, <1>4, RewriteLine
<1>. PICK u : u = Display(s, text)
  OBVIOUS
<1>6. u \in Consoles /\ u.y = s.y /\ u.x = x + display_width(text) /\ LineShown(u.cells[u.y], x, p, text) /\ BlankBelow(u)
  BY <1>1, <1>5 DEF ShownIn
<1>7. SubSeq(text, 1, Len(text)) = text
  BY SubSeqFull DEF RowTexts
<1>. QED
  BY <1>2, <1>6, <1>7, OriginIs DEF OnScreen

LEMMA ScreenCleared ==
  ASSUME EditorInv, ClearScreen
  PROVE  EditorInv' /\ (InStepNow => InStepNow' \/ Parts)
<1>. PICK start : start = display_prompt(clear_screen)
  OBVIOUS
<1>. PICK v : v = Display(start, line)
  OBVIOUS
<1>1. Becomes(line, cursor, v) /\ input_origin' = Origin(start) /\ KeepBrowsing
  BY DEF ClearScreen
<1>2. start = Display(clear_screen, prompt)
  BY DEF display_prompt
<1>3. BlankAfter(clear_screen.cells[clear_screen.y], 0) /\ BlankBelow(clear_screen)
  <2>1. 1 \in 1 .. Height
    BY Sizes
  <2>. QED
    BY <2>1, ClearScreenType, EmptyRowBlank DEF BlankBelow
<1>4. PromptReady(start, clear_screen, prompt)
  BY <1>2, <1>3, ClearScreenType, InvFields, PromptDisplayed
<1>5. start \in Consoles /\ Origin(start) \in Origins /\ Origin(start).x = display_width(PromptShown(prompt))
  BY <1>4, InvFields, FreshPrompt
<1>6. EditorInv'
  <2>1. v \in Consoles
    BY <1>5, InvFields, TextsArePrinted, DisplayType
  <2>2. Origin(start).x \in Nat
    BY <1>5, InvFields, PromptsAre
  <2>3. Origin(start).x + display_width(line) < Width
    BY <1>5, <2>2, InvFields, PromptRoom
  <2>. QED
    BY <1>1, <1>5, <2>1, <2>3, InvFields, BecomesInv
<1>7. CASE cursor < Len(line)
  <2>1. line' = line /\ cursor' = cursor
    BY <1>1 DEF Becomes
  <2>2. Parts
    BY <1>7, <2>1 DEF Parts
  <2>. QED
    BY <1>6, <2>2
<1>8. CASE cursor = Len(line)
  <2>1. OnScreen(v, Origin(start), prompt, line, cursor)
    BY <1>4, <1>8, InvFields, WholeLinePrinted
  <2>2. InStepNow'
    BY <1>1, <1>5, <2>1, InvFields, BecomesShown
  <2>. QED
    BY <1>6, <2>2
<1>. QED
  BY <1>7, <1>8, InvFields
-----------------------------------------------------------------------------
(***************************************************************************)
(* Another line in place of the one there was.                             *)
(***************************************************************************)
LEMMA ToTheOrigin ==
  ASSUME NEW before \in RowTexts, NEW after \in RowTexts, NEW t, NEW origin \in Origins, NEW p \in Prompts,
         CursorAfter(t, origin, p, before, after)
  PROVE  CursorAfter(set_cursor_position(t, origin.x, origin.y), origin, p, <<>>, before \o after)
<1>. PICK none : none = <<>>
  OBVIOUS
<1>. PICK text : text = before \o after
  OBVIOUS
<1>. PICK x \in Nat : x = origin.x
  BY Sizes DEF Origins
<1>1. text \in RowTexts /\ none \o text = text /\ display_width(none) = 0 /\ x + 0 = x
  BY WidthEmpty, ConcatProperties, ConcatEmptySeq DEF RowTexts
<1>2. t \in Consoles /\ t.y = origin.y /\ LineShown(t.cells[t.y], x, p, text) /\ BlankBelow(t)
  BY DEF CursorAfter
<1>. PICK v : v = set_cursor_position(t, origin.x, origin.y)
  OBVIOUS
<1>3. v \in Consoles /\ v.x = x /\ v.y = t.y /\ v.cells = t.cells
  <2>1. origin.x \in 0 .. Width - 1 /\ origin.y \in 1 .. Height
    BY DEF Origins
  <2>. QED
    BY <2>1, <1>2, MovedTo
<1>4. BlankBelow(v)
  BY <1>2, <1>3 DEF BlankBelow
<1>5. CursorAfter(v, origin, p, none, text)
  BY <1>1, <1>2, <1>3, <1>4 DEF CursorAfter
<1>. QED
  BY <1>5

LEMMA ReplacedType ==
  ASSUME EditorInv, NEW newLine \in RowTexts, input_origin.x + display_width(newLine) < Width
  PROVE  /\ Replaced(newLine) \in Consoles
         /\ Replaced(newLine).x = input_origin.x + display_width(newLine) /\ Replaced(newLine).y = input_origin.y
         /\ Max({0, display_width(line) - display_width(newLine)}) \in Nat
         /\ Replaced(newLine) = set_cursor_position(
              Display(set_cursor_position(terminal, input_origin.x, input_origin.y),
                      newLine \o Spaces(Max({0, display_width(line) - display_width(newLine)}))),
              input_origin.x + display_width(newLine), input_origin.y)
<1>. PICK x \in Nat : x = input_origin.x
  BY InvFields
<1>. PICK w \in Nat : w = display_width(newLine)
  BY WidthType DEF RowTexts
<1>. PICK old \in Nat : old = display_width(line)
  BY InvFields
<1>1. Max({0, old - w}) \in Nat
  <2>1. 0 \in Int /\ old - w \in Int
    OBVIOUS
  <2>2. Max({0, old - w}) = IF 0 >= old - w THEN 0 ELSE old - w
    BY <2>1, MaxOfTwo
  <2>. QED
    BY <2>2
<1>. PICK n \in Nat : n = Max({0, old - w})
  BY <1>1
<1>. PICK t : t = set_cursor_position(terminal, x, input_origin.y)
  OBVIOUS
<1>2. t \in Consoles
  BY InvFields, MovedTo
<1>3. newLine \in Seq(Printed) /\ Spaces(n) \in Seq(Printed) /\ newLine \o Spaces(n) \in Seq(Printed)
  BY TextsArePrinted, WidthSpaces, ConcatProperties
<1>4. Display(Display(t, newLine), Spaces(n)) = Display(t, newLine \o Spaces(n))
  BY <1>2, <1>3, DisplayConcat
<1>. PICK u : u = Display(t, newLine \o Spaces(n))
  OBVIOUS
<1>5. u \in Consoles
  BY <1>2, <1>3, DisplayType
<1>6. x + w \in 0 .. Width - 1 /\ input_origin.y \in 1 .. Height
  <2>1. x + w < Width
    OBVIOUS
  <2>2. x + w \in 0 .. Width - 1
    BY <2>1, Sizes
  <2>. QED
    BY <2>2, InvFields
<1>7. Replaced(newLine) = set_cursor_position(u, x + w, input_origin.y)
  BY <1>4 DEF Replaced
<1>8. u.cells = u.cells /\ set_cursor_position(u, x + w, input_origin.y) \in Consoles
      /\ set_cursor_position(u, x + w, input_origin.y).x = x + w
      /\ set_cursor_position(u, x + w, input_origin.y).y = input_origin.y
  BY <1>5, <1>6, MovedTo
<1>. QED
  BY <1>1, <1>7, <1>8

Covering(x, old, w, n) == n \in Nat /\ x + old <= x + w + n /\ x + w + n < Width /\ x + w \in 0 .. Width - 1 /\ x + w <= Width

LEMMA CoveringSums ==
  ASSUME NEW x \in Nat, NEW old \in Nat, NEW w \in Nat, x + old < Width, x + w < Width
  PROVE  Covering(x, old, w, Max({0, old - w}))
<1>1. 0 \in Int /\ old - w \in Int
  OBVIOUS
<1>2. Max({0, old - w}) = IF 0 >= old - w THEN 0 ELSE old - w
  BY <1>1, MaxOfTwo
<1>. PICK n : n = Max({0, old - w})
  OBVIOUS
<1>3. n \in Nat /\ n = IF 0 >= old - w THEN 0 ELSE old - w
  BY <1>2
<1>. QED
  BY <1>3, Sizes DEF Covering

LEMMA ReplacedShown ==
  ASSUME EditorInv, InStepNow, ~MenuIsOpen, NEW newLine \in RowTexts, input_origin.x + display_width(newLine) < Width
  PROVE  OnScreen(Replaced(newLine), input_origin, prompt, newLine, Len(newLine))
<1>. PICK x \in Nat : x = input_origin.x
  BY InvFields
<1>. PICK w \in Nat : w = display_width(newLine)
  BY WidthType DEF RowTexts
<1>. PICK old \in Nat : old = display_width(line)
  BY InvFields
<1>. PICK n : n = Max({0, old - w})
  OBVIOUS
<1>0. Covering(x, old, w, n)
  BY InvFields, CoveringSums
<1>. PICK none : none = <<>>
  OBVIOUS
<1>. PICK t : t = set_cursor_position(terminal, input_origin.x, input_origin.y)
  OBVIOUS
<1>. PICK v : v = Replaced(newLine)
  OBVIOUS
<1>1. CursorAfter(t, input_origin, prompt, none, line)
  <2>1. terminal = Uncovered
    BY DEF Uncovered
  <2>2. OnScreen(terminal, input_origin, prompt, line, cursor)
    BY <2>1, Uncovers DEF InStepNow
  <2>3. CursorAfter(terminal, input_origin, prompt, SubSeq(line, 1, cursor), After(line, cursor))
    BY <2>2, InvFields, CursorCut
  <2>4. CursorAfter(t, input_origin, prompt, none, SubSeq(line, 1, cursor) \o After(line, cursor))
    BY <2>3, InvFields, LineCut, ToTheOrigin
  <2>. QED
    BY <2>4, InvFields, LineCut
<1>2. none \in RowTexts /\ none \o line = line /\ none \o newLine = newLine /\ display_width(none) = 0 /\ x + 0 = x
  BY WidthEmpty, InvFields, ConcatEmptySeq, Histories DEF RowTexts
<1>3. t \in Consoles /\ t.y = input_origin.y /\ t.x = x /\ LineShown(t.cells[t.y], x, prompt, line) /\ BlankBelow(t)
  BY <1>1, <1>2 DEF CursorAfter
<1>4. Started(t, x, prompt, none) /\ BlankAfter(t.cells[t.y], x + old)
  <2>1. Started(t, x, prompt, none) /\ BlankAfter(t.cells[t.y], x + display_width(none \o line))
    BY <1>2, <1>3, InvFields, Starts
  <2>. QED
    BY <2>1, <1>2
<1>. PICK u : u = Display(t, newLine \o Spaces(n))
  OBVIOUS
<1>. PICK from \in Nat : from = x + old
  OBVIOUS
<1>5. ShownIn(u, t, x, prompt, none \o newLine, t.x + display_width(newLine) + n)
  <2>1. from <= t.x + display_width(newLine) + n /\ t.x + display_width(newLine) + n < Width /\ n \in Nat
    BY <1>0, <1>3 DEF Covering
  <2>. QED
    BY <2>1, <1>2, <1>3, <1>4, InvFields, Rewrite
<1>6. u \in Consoles /\ u.y = t.y /\ LineShown(u.cells[u.y], x, prompt, newLine) /\ BlankBelow(u)
  BY <1>2, <1>5 DEF ShownIn
<1>7. v = set_cursor_position(u, x + w, input_origin.y)
  BY ReplacedType
<1>8. x + w \in 0 .. Width - 1 /\ input_origin.y \in 1 .. Height
  BY <1>0, InvFields DEF Covering
<1>9. v \in Consoles /\ v.x = x + w /\ v.y = input_origin.y /\ v.cells = u.cells
  BY <1>6, <1>7, <1>8, MovedTo
<1>10. BlankBelow(v)
  BY <1>3, <1>6, <1>9 DEF BlankBelow
<1>11. SubSeq(newLine, 1, Len(newLine)) = newLine
  BY SubSeqFull DEF RowTexts
<1>. QED
  BY <1>3, <1>6, <1>9, <1>10, <1>11 DEF OnScreen

LEMMA ReplacedKept ==
  ASSUME EditorInv, ~MenuIsOpen, NEW newLine \in RowTexts, replace_line(newLine),
         history_position' \in 0 .. Len(HistoryEntries), history_draft' \in RowTexts
  PROVE  EditorInv' /\ (InStepNow => InStepNow')
<1>. PICK v : v = Replaced(newLine)
  OBVIOUS
<1>1. Becomes(newLine, Len(newLine), v) /\ input_origin' = input_origin
  BY DEF replace_line
<1>2. input_origin.x + display_width(newLine) < Width
  BY <1>1 DEF Becomes
<1>3. Len(newLine) \in 0 .. Len(newLine)
  BY LenProperties DEF RowTexts
<1>4. v \in Consoles
  BY <1>2, ReplacedType
<1>5. EditorInv'
  BY <1>1, <1>2, <1>3, <1>4, InvFields, BecomesInv
<1>6. ASSUME InStepNow
      PROVE  InStepNow'
  <2>1. OnScreen(v, input_origin, prompt, newLine, Len(newLine))
    BY <1>2, <1>6, ReplacedShown
  <2>. QED
    BY <1>1, <2>1, InvFields, BecomesShown
<1>. QED
  BY <1>5, <1>6

LEMMA PreviousKept ==
  ASSUME EditorInv, move_history_previous
  PROVE  EditorInv' /\ (InStepNow => InStepNow')
<1>. PICK n \in Nat : n = Len(HistoryEntries)
  BY Histories
<1>. PICK was \in 0 .. n : was = history_position
  BY InvFields
<1>. PICK to : to = history_position'
  OBVIOUS
<1>1. /\ ~MenuIsOpen /\ HistoryEntries # <<>>
      /\ to = IF was = 0 THEN n ELSE Max({1, was - 1})
      /\ history_draft' = (IF was = 0 THEN line ELSE history_draft)
      /\ replace_line(HistoryEntries[to])
  BY DEF move_history_previous
<1>2. n >= 1
  BY <1>1, Histories, EmptySeq
<1>3. Max({1, was - 1}) = IF 1 >= was - 1 THEN 1 ELSE was - 1
  <2>1. 1 \in Int /\ was - 1 \in Int
    OBVIOUS
  <2>. QED
    BY <2>1, MaxOfTwo
<1>4. to \in 1 .. n /\ to \in 0 .. n
  BY <1>1, <1>2, <1>3
<1>5. HistoryEntries[to] \in RowTexts
  BY <1>4, Histories, ElementOfSeq
<1>6. history_draft' \in RowTexts
  BY <1>1, InvFields
<1>. QED
  BY <1>1, <1>4, <1>5, <1>6, ReplacedKept

LEMMA NextKept ==
  ASSUME EditorInv, move_history_next
  PROVE  EditorInv' /\ (InStepNow => InStepNow')
<1>. PICK n \in Nat : n = Len(HistoryEntries)
  BY Histories
<1>. PICK was \in 0 .. n : was = history_position
  BY InvFields
<1>0. ~MenuIsOpen /\ was # 0
  BY DEF move_history_next
<1>1. CASE was < n
  <2>. PICK to : to = was + 1
    OBVIOUS
  <2>1. history_position' = to /\ history_draft' = history_draft /\ replace_line(HistoryEntries[to])
    BY <1>1 DEF move_history_next
  <2>2. to \in 1 .. n /\ to \in 0 .. n
    BY <1>1
  <2>3. HistoryEntries[to] \in RowTexts
    BY <2>2, Histories, ElementOfSeq
  <2>. QED
    BY <1>0, <2>1, <2>2, <2>3, InvFields, ReplacedKept
<1>2. CASE ~(was < n)
  <2>1. history_position' = 0 /\ history_draft' = <<>> /\ replace_line(history_draft)
    BY <1>2 DEF move_history_next
  <2>2. 0 \in 0 .. n
    OBVIOUS
  <2>. QED
    BY <1>0, <2>1, <2>2, InvFields, Histories, ReplacedKept
<1>. QED
  BY <1>1, <1>2
-----------------------------------------------------------------------------
(***************************************************************************)
(* A single candidate in place of the word before the cursor.              *)
(***************************************************************************)
LEMMA Candidates ==
  ASSUME NEW candidates \in CandidateLists
  PROVE  candidates \in Seq(RowTexts) /\ Len(candidates) \in Nat /\ \A i \in 1 .. Len(candidates) : candidates[i] \in RowTexts
<1>1. candidates \in Seq(RowTexts)
  BY EditorAssumption
<1>. QED
  BY <1>1, ElementOfSeq, LenProperties

LEMMA WordStartIs ==
  ASSUME EditorInv
  PROVE  WordStart \in 0 .. cursor
<1>. PICK n \in Nat : n = cursor
  BY InvFields
<1>0. 0 \in 0 .. n /\ \A i \in 1 .. n : i \in 0 .. n
  OBVIOUS
<1>. PICK S : S = {0} \cup {i \in 1 .. n : line[i] = " "}
  OBVIOUS
<1>1. S \in SUBSET (0 .. n) /\ S # {}
  BY <1>0, Zenon
<1>2. Max(S) \in S
  BY <1>1, MaxUpTo
<1>3. WordStart = Max(S)
  BY DEF WordStart
<1>. QED
  BY <1>1, <1>2, <1>3

(* The word is what lies between its start and the cursor. *)
Word(text, from, at, before, word) ==
  /\ before \in RowTexts /\ word \in RowTexts
  /\ SubSeq(text, 1, at) = before \o word /\ Len(before) = from

LEMMA WordIs ==
  ASSUME NEW text \in RowTexts, NEW at \in 0 .. Len(text), NEW from \in 0 .. at
  PROVE  Word(text, from, at, SubSeq(text, 1, from), SubSeq(text, from + 1, at))
<1>1. text \in Seq(Characters) /\ Len(text) \in Nat
  BY LenProperties DEF RowTexts
<1>2. from \in 0 .. Len(text)
  BY <1>1
<1>3. SubSeq(text, 1, from) \in RowTexts /\ Len(SubSeq(text, 1, from)) = from
  BY <1>2, LineCut
<1>4. SubSeq(text, from + 1, at) \in RowTexts
  <2>1. \A i \in from + 1 .. at : i \in 1 .. Len(text)
    BY <1>1
  <2>2. from + 1 \in Int /\ at \in Int /\ \A i \in from + 1 .. at : text[i] \in Characters
    BY <1>1, <2>1, ElementOfSeq
  <2>. QED
    BY <1>1, <2>1, <2>2, SubSeqProperties DEF RowTexts
<1>5. SubSeq(text, 1, from) \o SubSeq(text, from + 1, at) = SubSeq(text, 1, at)
  <2>1. 1 \in 1 .. Len(text) + 1 /\ from \in 1 - 1 .. Len(text) /\ at \in from .. Len(text)
    BY <1>1
  <2>. QED
    BY <1>1, <2>1, ConcatAdjacentSubSeq
<1>. QED
  BY <1>3, <1>4, <1>5 DEF Word

LEMMA PrefixCut ==
  ASSUME NEW s \in RowTexts, NEW text \in RowTexts, IsPrefix(s, text)
  PROVE  After(text, Len(s)) \in RowTexts /\ text = s \o After(text, Len(s))
<1>1. s \in Seq(Characters) /\ text \in Seq(Characters) /\ Len(s) \in Nat /\ Len(text) \in Nat
  BY LenProperties DEF RowTexts
<1>2. Len(s) <= Len(text) /\ SubSeq(s, 1, Len(s)) = SubSeq(text, 1, Len(s))
  BY DEF IsPrefix
<1>3. Len(s) \in 0 .. Len(text)
  BY <1>1, <1>2
<1>4. SubSeq(s, 1, Len(s)) = s
  BY <1>1, SubSeqFull
<1>. QED
  BY <1>2, <1>3, <1>4, LineCut
(* One end of a text in place of another, in the cut where the cursor is. *)
Replacing(completed, head, B, N, aft) ==
  /\ head = B \o N /\ completed = head \o aft
  /\ completed \in RowTexts /\ head \in RowTexts /\ N \o aft \in RowTexts
  /\ After(completed, Len(B)) = N \o aft /\ After(completed, Len(head)) = aft
  /\ Len(head) \in 0 .. Len(completed)
  /\ display_width(completed) = display_width(B) + display_width(N \o aft)

LEMMA ReplacingParts ==
  ASSUME NEW B \in RowTexts, NEW N \in RowTexts, NEW aft \in RowTexts
  PROVE  Replacing((B \o N) \o aft, B \o N, B, N, aft)
<1>. PICK head : head = B \o N
  OBVIOUS
<1>. PICK rest : rest = N \o aft
  OBVIOUS
<1>. PICK completed : completed = head \o aft
  OBVIOUS
<1>1. B \in Seq(Characters) /\ N \in Seq(Characters) /\ aft \in Seq(Characters)
  BY DEF RowTexts
<1>2. head \in Seq(Characters) /\ rest \in Seq(Characters)
  BY <1>1, ConcatProperties
<1>3. completed = B \o rest
  <2>1. Grouped(B, N, aft)
    BY <1>1, Regroup
  <2>. QED
    BY <2>1 DEF Grouped
<1>4. Parted(Characters, completed, head, aft) /\ Parted(Characters, completed, B, rest)
  BY <1>1, <1>2, <1>3, PartsOf
<1>5. display_width(completed) = display_width(B) + display_width(rest)
  BY <1>1, <1>2, <1>3, WidthConcat
<1>. QED
  BY <1>2, <1>4, <1>5 DEF Replacing, Parted, RowTexts

LEMMA CompletedShown ==
  ASSUME EditorInv, InStepNow, ~MenuIsOpen,
         NEW B \in RowTexts, NEW O \in RowTexts, NEW N \in RowTexts, NEW aft \in RowTexts,
         SubSeq(line, 1, cursor) = B \o O, After(line, cursor) = aft,
         display_width(O \o aft) <= display_width(N \o aft),
         input_origin.x + (display_width(B) + display_width(N \o aft)) < Width
  PROVE  CursorAfter(Backspaces(Display(Backspaces(terminal, display_width(O)), N \o aft), display_width(aft)),
                     input_origin, prompt, B \o N, aft)
<1>. PICK t : t = Backspaces(terminal, display_width(O))
  OBVIOUS
<1>. PICK old : old = O \o aft
  OBVIOUS
<1>1. input_origin \in Origins /\ prompt \in Prompts /\ input_origin.x \in Nat /\ old \in RowTexts
  BY InvFields, ConcatProperties DEF RowTexts
<1>2. terminal = Uncovered
  BY DEF Uncovered
<1>3. OnScreen(terminal, input_origin, prompt, line, cursor)
  BY <1>2, Uncovers DEF InStepNow
<1>4. CursorAfter(terminal, input_origin, prompt, B \o O, aft)
  <2>1. CursorAfter(terminal, input_origin, prompt, SubSeq(line, 1, cursor), After(line, cursor))
    BY <1>3, InvFields, CursorCut
  <2>. QED
    BY <2>1
<1>5. CursorAfter(t, input_origin, prompt, B, old)
  BY <1>1, <1>4, BackOver
<1>. QED
  BY <1>1, <1>5, ReprintedLine

LEMMA CompletedWith ==
  ASSUME EditorInv, handle_tab, ~MenuIsOpen,
         NEW B \in RowTexts, NEW O \in RowTexts, NEW N \in RowTexts, NEW completed, NEW at, NEW v,
         SubSeq(line, 1, cursor) = B \o O, completed = (B \o N) \o After(line, cursor), at = Len(B \o N),
         v = Backspaces(Display(Backspaces(terminal, display_width(O)), After(completed, Len(B))),
                        display_width(After(completed, at))),
         Becomes(completed, at, v), KeepBrowsing, input_origin' = input_origin
  PROVE  EditorInv' /\ (InStepNow => InStepNow' \/ Parts)
<1>. PICK aft : aft = After(line, cursor)
  OBVIOUS
<1>. PICK head : head = B \o N
  OBVIOUS
<1>. PICK rest : rest = N \o aft
  OBVIOUS
<1>. PICK old : old = O \o aft
  OBVIOUS
<1>1. aft \in RowTexts /\ line = (B \o O) \o aft
  <2>1. After(line, cursor) \in RowTexts /\ line = SubSeq(line, 1, cursor) \o After(line, cursor)
    BY InvFields, LineCut
  <2>. PICK pre : pre = SubSeq(line, 1, cursor)
    OBVIOUS
  <2>2. line = pre \o aft /\ pre = B \o O
    BY <2>1
  <2>. QED
    BY <2>1, <2>2
<1>2. Replacing(completed, head, B, N, aft)
  <2>1. Replacing((B \o N) \o aft, B \o N, B, N, aft)
    BY <1>1, ReplacingParts
  <2>. QED
    BY <2>1
<1>3. /\ completed = head \o aft /\ completed \in RowTexts /\ head \in RowTexts /\ rest \in RowTexts
      /\ After(completed, Len(B)) = rest /\ After(completed, at) = aft /\ at = Len(head) /\ at \in 0 .. Len(completed)
      /\ display_width(completed) = display_width(B) + display_width(rest)
  BY <1>2 DEF Replacing
<1>4. v = Backspaces(Display(Backspaces(terminal, display_width(O)), rest), display_width(aft))
  BY <1>3
<1>5. input_origin.x + (display_width(B) + display_width(rest)) < Width
  BY <1>3 DEF Becomes
<1>6. display_width(line) = display_width(B) + display_width(old)
  <2>1. Replacing((B \o O) \o aft, B \o O, B, O, aft)
    BY <1>1, ReplacingParts
  <2>. QED
    BY <2>1, <1>1 DEF Replacing
<1>7. EditorInv'
  <2>1. display_width(O) \in Nat /\ display_width(aft) \in Nat
    BY <1>1, WidthType DEF RowTexts
  <2>2. Backspaces(terminal, display_width(O)) \in Consoles
    BY <2>1, InvFields, MovedBack
  <2>3. Display(Backspaces(terminal, display_width(O)), rest) \in Consoles
    BY <1>3, <2>2, TextsArePrinted, DisplayType
  <2>4. v \in Consoles
    BY <1>4, <2>1, <2>3, MovedBack
  <2>5. input_origin.x + display_width(completed) < Width
    BY <1>3, <1>5
  <2>. QED
    BY <1>3, <2>4, <2>5, InvFields, BecomesInv
<1>8. CASE display_width(completed) < display_width(line)
  <2>1. Parts
    BY <1>8 DEF Parts, Becomes
  <2>. QED
    BY <1>7, <2>1
<1>9. CASE ~(display_width(completed) < display_width(line))
  <2>. PICK wb \in Nat : wb = display_width(B)
    BY WidthType DEF RowTexts
  <2>. PICK wn \in Nat : wn = display_width(rest)
    BY <1>3, WidthType DEF RowTexts
  <2>. PICK wo \in Nat : wo = display_width(old)
    BY <1>1, ConcatProperties, WidthType DEF RowTexts
  <2>1. wo <= wn
    <3>1. ~(wb + wn < wb + wo)
      BY <1>3, <1>6, <1>9
    <3>. QED
      BY <3>1
  <2>2. ASSUME InStepNow
        PROVE  InStepNow'
    <3>1. CursorAfter(v, input_origin, prompt, head, aft)
      BY <1>1, <1>4, <1>5, <2>1, <2>2, CompletedShown
    <3>2. OnScreen(v, input_origin, prompt, completed, at)
      <4>1. OnScreen(v, input_origin, prompt, head \o aft, Len(head))
        BY <1>1, <1>3, <3>1, CutCursor
      <4>. QED
        BY <4>1, <1>3
    <3>. QED
      BY <1>3, <3>2, InvFields, BecomesShown
  <2>. QED
    BY <1>7, <2>2
<1>. QED
  BY <1>8, <1>9

LEMMA CompletedKept ==
  ASSUME EditorInv, handle_tab, ~MenuIsOpen, NEW candidate \in RowTexts, CompleteOne(candidate)
  PROVE  EditorInv' /\ (InStepNow => InStepNow' \/ Parts)
<1>. PICK start \in 0 .. cursor : start = WordStart
  BY WordStartIs
<1>. PICK a : a = SubSeq(line, 1, start)
  OBVIOUS
<1>. PICK typed : typed = SubSeq(line, start + 1, cursor)
  OBVIOUS
<1>. PICK completed : completed = WithCandidate(start, candidate)
  OBVIOUS
<1>. PICK at : at = start + Len(candidate)
  OBVIOUS
<1>. PICK none : none = <<>>
  OBVIOUS
<1>. PICK joined : joined = a \o candidate
  OBVIOUS
<1>1. a \in RowTexts /\ typed \in RowTexts /\ SubSeq(line, 1, cursor) = a \o typed /\ Len(a) = start
  BY InvFields, WordIs DEF Word
<1>2. completed = joined \o After(line, cursor) /\ at = Len(joined) /\ joined \in RowTexts
  <2>1. joined \in Seq(Characters) /\ Len(joined) = Len(a) + Len(candidate)
    BY <1>1, ConcatProperties DEF RowTexts
  <2>. QED
    BY <1>1, <2>1 DEF WithCandidate, RowTexts
<1>3. CASE typed # <<>> /\ IsPrefix(typed, candidate)
  <2>. PICK v : v = Backspaces(Display(Backspaces(terminal, 0), After(completed, cursor)), display_width(After(completed, at)))
    OBVIOUS
  <2>. PICK ext : ext = After(candidate, Len(typed))
    OBVIOUS
  <2>. PICK B : B = a \o typed
    OBVIOUS
  <2>1. Becomes(completed, at, v) /\ KeepBrowsing /\ input_origin' = input_origin
    BY <1>3 DEF CompleteOne
  <2>2. ext \in RowTexts /\ candidate = typed \o ext
    BY <1>1, <1>3, PrefixCut
  <2>3. B \in RowTexts /\ Len(B) = cursor /\ none \in RowTexts /\ B \o none = B /\ display_width(none) = 0
    <3>1. SubSeq(line, 1, cursor) \in RowTexts /\ Len(SubSeq(line, 1, cursor)) = cursor
      BY InvFields, LineCut
    <3>2. B \in RowTexts /\ Len(B) = cursor
      BY <1>1, <3>1
    <3>. QED
      BY <3>2, Histories, WidthEmpty, ConcatEmptySeq DEF RowTexts
  <2>4. B \o ext = joined
    <3>1. a \in Seq(Characters) /\ typed \in Seq(Characters) /\ ext \in Seq(Characters)
      BY <1>1, <2>2 DEF RowTexts
    <3>2. Grouped(a, typed, ext)
      BY <3>1, Regroup
    <3>. QED
      BY <3>2, <2>2 DEF Grouped
  <2>5. /\ SubSeq(line, 1, cursor) = B \o none /\ completed = (B \o ext) \o After(line, cursor) /\ at = Len(B \o ext)
        /\ v = Backspaces(Display(Backspaces(terminal, display_width(none)), After(completed, Len(B))),
                          display_width(After(completed, at)))
    BY <1>1, <1>2, <2>3, <2>4
  <2>. QED
    BY <2>1, <2>2, <2>3, <2>5, CompletedWith, ZenonT(20)
<1>4. CASE ~(typed # <<>> /\ IsPrefix(typed, candidate))
  <2>. PICK v : v = Backspaces(Display(Backspaces(terminal, display_width(typed)), After(completed, start)),
                               display_width(After(completed, at)))
    OBVIOUS
  <2>1. Becomes(completed, at, v) /\ KeepBrowsing /\ input_origin' = input_origin
    BY <1>4 DEF CompleteOne
  <2>2. /\ completed = (a \o candidate) \o After(line, cursor) /\ at = Len(a \o candidate)
        /\ v = Backspaces(Display(Backspaces(terminal, display_width(typed)), After(completed, Len(a))),
                          display_width(After(completed, at)))
    BY <1>1, <1>2
  <2>. QED
    BY <1>1, <2>1, <2>2, CompletedWith
<1>. QED
  BY <1>3, <1>4
-----------------------------------------------------------------------------
(***************************************************************************)
(* The candidate chosen in the menu.                                       *)
(***************************************************************************)
LEMMA AcceptedKept ==
  ASSUME EditorInv, accept_completion_selection
  PROVE  EditorInv' /\ (InStepNow => InStepNow')
<1>. PICK m : m = completion_menu
  OBVIOUS
<1>. PICK candidate : candidate = m.candidates[m.selected + 1]
  OBVIOUS
<1>. PICK from : from = m.insertion_index
  OBVIOUS
<1>. PICK completed : completed = WithCandidate(from, candidate)
  OBVIOUS
<1>. PICK at : at = from + Len(candidate)
  OBVIOUS
<1>. PICK u : u = Uncovered
  OBVIOUS
<1>. PICK blank : blank = clear_current_line(u)
  OBVIOUS
<1>. PICK start : start = display_prompt(blank)
  OBVIOUS
<1>. PICK v : v = DisplayLine(start, completed, at)
  OBVIOUS
<1>1. MenuIsOpen /\ Becomes(completed, at, v) /\ input_origin' = Origin(start) /\ KeepBrowsing
  BY DEF accept_completion_selection
<1>2. candidate \in RowTexts /\ from \in 0 .. cursor
  <2>1. OpenMenuOK(m, cursor)
    BY <1>1 DEF EditorInv, MenuIsOpen
  <2>2. m.candidates \in CandidateLists /\ m.selected \in Nat /\ m.selected < Len(m.candidates) /\ from \in Nat /\ from <= cursor
    BY <2>1, MenuFields
  <2>. PICK candidates \in CandidateLists : candidates = m.candidates
    BY <2>2
  <2>. PICK n \in Nat : n = Len(candidates)
    BY Candidates
  <2>. PICK selected \in Nat : selected = m.selected
    BY <2>2
  <2>3. selected + 1 \in 1 .. n
    BY <2>2
  <2>4. candidate \in RowTexts
    BY <2>3, Candidates
  <2>. QED
    BY <2>2, <2>4, InvFields, SMTT(30)
<1>. PICK B : B = SubSeq(line, 1, from)
  OBVIOUS
<1>. PICK aft : aft = After(line, cursor)
  OBVIOUS
<1>. PICK head : head = B \o candidate
  OBVIOUS
<1>3. B \in RowTexts /\ Len(B) = from /\ aft \in RowTexts
  <2>1. from \in 0 .. Len(line)
    BY <1>2, InvFields
  <2>. QED
    BY <2>1, InvFields, LineCut
<1>4. completed \in RowTexts /\ at \in 0 .. Len(completed)
  <2>1. Replacing(head \o aft, head, B, candidate, aft)
    BY <1>2, <1>3, ReplacingParts
  <2>2. completed = head \o aft
    BY DEF WithCandidate
  <2>3. Len(head) = Len(B) + Len(candidate)
    BY <1>2, <1>3, ConcatProperties DEF RowTexts
  <2>. QED
    BY <1>3, <2>1, <2>2, <2>3 DEF Replacing
<1>5. display_width(completed) \in Nat /\ display_width(completed) <= MaxWidth /\ prompt \in Prompts
  BY <1>1, <1>4, InvFields, WidthType DEF Becomes, RowTexts
<1>6. u \in Consoles
  BY UncoveredType
<1>7. blank \in Consoles /\ blank.x = 0 /\ blank.y = u.y
      /\ \A y \in 1 .. Height : blank.cells[y] = IF y = u.y THEN EmptyRow ELSE u.cells[y]
  BY <1>6, LineCleared
<1>8. start = Display(blank, prompt)
  BY DEF display_prompt
<1>9. start \in Consoles /\ start.x = display_width(PromptShown(prompt))
  BY <1>5, <1>7, <1>8, PromptEnds
<1>10. Origin(start) \in Origins /\ Origin(start).x = display_width(PromptShown(prompt))
  BY <1>9, OriginIs
<1>11. EditorInv'
  <2>1. v \in Consoles
    BY <1>4, <1>9, DisplayLineType
  <2>2. Origin(start).x + display_width(completed) < Width
    <3>1. Origin(start).x \in Nat
      BY <1>5, <1>10, PromptsAre
    <3>. QED
      BY <3>1, <1>5, <1>10, PromptRoom
  <2>. QED
    BY <1>1, <1>4, <1>10, <2>1, <2>2, BecomesInv
<1>12. ASSUME InStepNow
       PROVE  InStepNow'
  <2>1. OnScreen(u, input_origin, prompt, line, cursor)
    BY <1>12, Uncovers DEF InStepNow
  <2>2. BlankBelow(u)
    BY <2>1 DEF OnScreen
  <2>3. BlankBelow(blank)
    BY <1>6, <1>7, <2>2, OnlyItsRow
  <2>4. BlankAfter(blank.cells[blank.y], 0)
    BY <1>6, <1>7, ConsoleFields, EmptyRowBlank
  <2>5. PromptReady(start, blank, prompt)
    BY <1>5, <1>7, <1>8, <2>3, <2>4, PromptDisplayed
  <2>6. OnScreen(v, Origin(start), prompt, completed, at)
    BY <1>4, <1>5, <2>5, LinePrinted
  <2>. QED
    BY <1>1, <1>4, <1>10, <2>6, BecomesShown
<1>. QED
  BY <1>11, <1>12

-----------------------------------------------------------------------------
(***************************************************************************)
(* The end of a read, and the next.                                        *)
(***************************************************************************)
LEMMA EndsInv ==
  ASSUME EditorInv, NEW outcome \in Outcomes \ {"editing", "failed"}, NEW t \in Consoles, Ends(outcome, t)
  PROVE  EditorInv' /\ ~Editing'
<1>1. /\ read' = outcome /\ terminal' = BelowTheLine(t) /\ completion_menu' = NoMenu
      /\ cursor' = 0 /\ history_position' = 0 /\ history_draft' = <<>>
      /\ line' = line /\ prompt' = prompt /\ input_origin' = input_origin
  BY DEF Ends
<1>2. BelowTheLine(t) \in Consoles
  BY KeptBelow
<1>3. 0 \in 0 .. Len(line) /\ 0 \in 0 .. Len(HistoryEntries)
  BY InvFields, Histories
<1>4. LineOK(line', cursor', prompt', input_origin')
  BY <1>1, <1>3, InvFields DEF LineOK
<1>5. read' \in Outcomes /\ read' # "failed" /\ read' # "editing"
  BY <1>1
<1>6. ~Editing' /\ (ReadsFailOnlyAtTheBottom)'
  BY <1>5 DEF Editing, ReadsFailOnlyAtTheBottom
<1>7. (terminal.y + completion_menu.rendered_lines <= Height)'
  BY <1>1, <1>2, NoMenuRoom
<1>. QED
  BY <1>1, <1>2, <1>3, <1>4, <1>5, <1>6, <1>7, Histories DEF EditorInv

LEMMA EndsAre ==
  ASSUME EditorInv,
         (\E ctrl_j \in BOOLEAN : Submit(ctrl_j)) \/ Interrupt \/ EndOfInput
  PROVE  EditorInv' /\ ~Editing'
<1>. PICK u : u = Uncovered
  OBVIOUS
<1>0. u \in Consoles /\ Newline(u) \in Consoles
  BY UncoveredType, NewlineMoves
<1>1. CASE \E ctrl_j \in BOOLEAN : Submit(ctrl_j)
  <2>1. Ends("input", Submitted)
    BY <1>1 DEF Submit
  <2>2. Submitted \in Consoles
    BY <1>0 DEF Submitted
  <2>. QED
    BY <2>1, <2>2, EndsInv DEF Outcomes
<1>2. CASE Interrupt
  <2>. PICK caret : caret = "^"
    OBVIOUS
  <2>. PICK letter : letter = "C"
    OBVIOUS
  <2>. PICK shown : shown = <<caret, letter>>
    OBVIOUS
  <2>1. caret \in Printed /\ letter \in Printed
    BY EditorAssumption DEF Printed
  <2>2. shown \in Seq(Printed)
    BY <2>1
  <2>. PICK t : t = Newline(Display(u, shown))
    OBVIOUS
  <2>3. t \in Consoles
    BY <1>0, <2>2, DisplayType, NewlineMoves
  <2>4. Ends("interrupted", t)
    BY <1>2 DEF Interrupt
  <2>. QED
    BY <2>3, <2>4, EndsInv DEF Outcomes
<1>3. CASE EndOfInput
  <2>1. Ends("input", Newline(u)) \/ Ends("eof", Newline(u))
    BY <1>3 DEF EndOfInput
  <2>. QED
    BY <1>0, <2>1, EndsInv DEF Outcomes
<1>. QED
  BY <1>1, <1>2, <1>3

LEMMA StartInv ==
  ASSUME NEW t \in Consoles, NEW p \in Prompts, Start(t, p)
  PROVE  EditorInv'
<1>. PICK ready : ready = Display(t, p)
  OBVIOUS
<1>. PICK none : none = <<>>
  OBVIOUS
<1>1. /\ line' = none /\ cursor' = 0 /\ prompt' = p /\ input_origin' = Origin(ready)
      /\ history_position' = 0 /\ history_draft' = none /\ completion_menu' = NoMenu
      /\ terminal' = BelowTheLine(ready) /\ read' = "editing"
  BY DEF Start
<1>2. ready \in Consoles
  BY PromptsAre, DisplayType
<1>3. BelowTheLine(ready) \in Consoles /\ Origin(ready) \in Origins
  BY <1>2, KeptBelow, OriginIs
<1>4. none \in RowTexts /\ display_width(none) = 0 /\ Len(none) = 0
  BY Histories, WidthEmpty
<1>5. Origin(ready).x + display_width(none) < Width /\ display_width(none) <= MaxWidth
  BY <1>2, <1>4, OriginIs, ConsoleFields, Sizes
<1>6. LineOK(line', cursor', prompt', input_origin')
  BY <1>1, <1>3, <1>4, <1>5 DEF LineOK
<1>7. 0 \in 0 .. Len(HistoryEntries) /\ read' \in Outcomes /\ (ReadsFailOnlyAtTheBottom)'
  BY <1>1, Histories DEF Outcomes, ReadsFailOnlyAtTheBottom
<1>8. (terminal.y + completion_menu.rendered_lines <= Height)'
  BY <1>1, <1>3, NoMenuRoom
<1>. QED
  BY <1>1, <1>3, <1>4, <1>6, <1>7, <1>8 DEF EditorInv

LEMMA ReadAgainInv ==
  ASSUME EditorInv, ReadAgain
  PROVE  EditorInv'
<1>1. \E p \in Prompts : Start(terminal, p)
  BY DEF ReadAgain, Prompts
<1>. QED
  BY <1>1, InvFields, StartInv

LEMMA InitInv == EditorInit => EditorInv
<1>. SUFFICES ASSUME EditorInit
              PROVE  EditorInv
  OBVIOUS
<1>. PICK ready : ready = Display(clear_screen, Prompt)
  OBVIOUS
<1>. PICK none : none = <<>>
  OBVIOUS
<1>1. /\ line = none /\ cursor = 0 /\ prompt = Prompt /\ input_origin = Origin(ready)
      /\ history_position = 0 /\ history_draft = none /\ completion_menu = NoMenu
      /\ terminal = ready /\ read = "editing"
  BY DEF EditorInit
<1>2. ready \in Consoles /\ Prompt \in Prompts
  BY ClearScreenType, PromptTexts, TextsArePrinted, DisplayType DEF Prompts
<1>3. Origin(ready) \in Origins
  BY <1>2, OriginIs
<1>4. none \in RowTexts /\ display_width(none) = 0 /\ Len(none) = 0
  BY Histories, WidthEmpty
<1>5. Origin(ready).x + display_width(none) < Width /\ display_width(none) <= MaxWidth
  BY <1>2, <1>4, OriginIs, ConsoleFields, Sizes
<1>6. LineOK(line, cursor, prompt, input_origin)
  BY <1>1, <1>2, <1>3, <1>4, <1>5 DEF LineOK
<1>7. 0 \in 0 .. Len(HistoryEntries) /\ read \in Outcomes /\ ReadsFailOnlyAtTheBottom
  BY <1>1, Histories DEF Outcomes, ReadsFailOnlyAtTheBottom
<1>8. terminal.y + completion_menu.rendered_lines <= Height
  BY <1>1, <1>2, NoMenuRoom
<1>. QED
  BY <1>1, <1>2, <1>4, <1>6, <1>7, <1>8 DEF EditorInv

LEMMA BlankIsSpaces ==
  ASSUME NEW text \in RowTexts, Blank(text)
  PROVE  text = Spaces(Len(text))
<1>1. text \in Seq(Characters) /\ DOMAIN text = 1 .. Len(text) /\ Len(text) \in Nat
  BY LenProperties DEF RowTexts
<1>2. \A i \in 1 .. Len(text) : text[i] = " "
  <2>1. \A i \in DOMAIN text : text[i] \in {" "}
    BY DEF Blank, ToSet
  <2>. QED
    BY <1>1, <2>1
<1>. PICK n \in Nat : n = Len(text)
  BY <1>1
<1>3. Spaces(n) \in Seq(Characters) /\ Len(Spaces(n)) = n /\ \A i \in 1 .. n : Spaces(n)[i] = " "
  BY WidthSpaces DEF RowTexts
<1>. QED
  BY <1>1, <1>2, <1>3, SeqEqual

LEMMA BlankLine ==
  ASSUME NEW row, NEW x \in Nat, NEW p, NEW text \in RowTexts, Blank(text), LineShown(row, x, p, text),
         NEW to \in Nat, x <= to
  PROVE  BlankAfter(row, to)
<1>. PICK n \in Nat : n = Len(text)
  BY DEF RowTexts
<1>. PICK blanks : blanks = Spaces(n)
  OBVIOUS
<1>1. text = blanks
  BY BlankIsSpaces
<1>2. display_width(text) = n /\ Cells(text) = blanks /\ \A i \in 1 .. n : blanks[i] = " "
  BY <1>1, WidthSpaces, CellsOfSpaces
<1>3. (\A j \in 1 .. n : row[x + j] = " ") /\ (\A j \in 1 .. Width : x + n < j => row[j] = " ")
  BY <1>2 DEF LineShown, Has, BlankAfter
<1>4. ASSUME NEW j \in 1 .. Width, to < j
      PROVE  row[j] = " "
  <2>. PICK k \in Nat : k = j
    BY Sizes
  <2>0. k \in 1 .. Width /\ x < k
    BY <1>4
  <2>1. CASE x + n < k
    BY <1>3, <2>0, <2>1
  <2>2. CASE ~(x + n < k)
    <3>. PICK i : i = k - x
      OBVIOUS
    <3>1. i \in 1 .. n /\ x + i = k
      BY <2>0, <2>2
    <3>2. row[x + i] = " "
      BY <1>3, <3>1
    <3>. QED
      BY <3>1, <3>2
  <2>. QED
    BY <2>1, <2>2
<1>. QED
  BY <1>4 DEF BlankAfter

LEMMA ContinuedShown ==
  ASSUME EditorInv, NEW ctrl_j, Continue(ctrl_j), InStepNow
  PROVE  InStepNow'
<1>. PICK p : p = ContinuationPrompt
  OBVIOUS
<1>. PICK u : u = Uncovered
  OBVIOUS
<1>. PICK t : t = Submitted
  OBVIOUS
<1>. PICK ready : ready = Display(t, p)
  OBVIOUS
<1>. PICK none : none = <<>>
  OBVIOUS
<1>1. /\ line' = none /\ cursor' = 0 /\ prompt' = p /\ input_origin' = Origin(ready)
      /\ completion_menu' = NoMenu /\ terminal' = BelowTheLine(ready)
  BY DEF Continue, Start
<1>2. p \in Prompts /\ p \in RowTexts /\ PromptShown(p) = p /\ display_width(p) \in Nat
  BY PromptTexts, PlainPrompt, WidthType DEF Prompts, RowTexts
<1>3. OnScreen(u, input_origin, prompt, line, cursor)
  BY Uncovers DEF InStepNow
<1>4. /\ u \in Consoles /\ u.y = input_origin.y /\ u.x = input_origin.x + display_width(SubSeq(line, 1, cursor))
      /\ LineShown(u.cells[u.y], input_origin.x, prompt, line) /\ BlankBelow(u)
  BY <1>3 DEF OnScreen
<1>5. none \in RowTexts /\ SubSeq(none, 1, 0) = none /\ display_width(none) = 0
  BY Histories, WidthEmpty
<1>6. ready \in Consoles /\ LineShown(ready.cells[ready.y], ready.x, p, none) /\ BlankBelow(ready)
  <2>1. CASE Blank(line)
    <3>1. t = u
      BY <2>1 DEF Submitted
    <3>2. input_origin.x = Len(p)
      BY <2>1 DEF Continue
    <3>. PICK x \in Nat : x = input_origin.x
      BY InvFields
    <3>. PICK before \in Nat : before = display_width(SubSeq(line, 1, cursor))
      BY InvFields, LineCut
    <3>. PICK after \in Nat : after = display_width(After(line, cursor))
      BY InvFields, LineCut
    <3>. PICK w \in Nat : w = display_width(p)
      BY <1>2
    <3>3. before + after <= MaxWidth
      BY InvFields, LineCut
    <3>4. x + MaxWidth + w < Width
      BY <3>2, PromptTexts
    <3>5. (x + before) + w < Width
      <4>1. \A a, b, c, d, m \in Nat : a + m + d < Width /\ b + c <= m => (a + b) + d < Width
        BY Sizes
      <4>. QED
        BY <3>3, <3>4, <4>1, Sizes
    <3>6. BlankAfter(u.cells[u.y], u.x)
      <4>1. u.x \in Nat /\ x <= u.x
        BY <1>4
      <4>. QED
        BY <2>1, <1>4, <4>1, InvFields, BlankLine
    <3>7. ShownIn(Display(u, p), u, u.x + display_width(p), p, <<>>, u.x + display_width(p))
      <4>1. u.x + display_width(p) < Width
        BY <1>4, <3>5
      <4>. QED
        BY <1>2, <1>4, <3>6, <4>1, PlainPromptDisplayed
    <3>. QED
      BY <3>1, <3>7 DEF ShownIn
  <2>2. CASE ~Blank(line)
    <3>1. t = Newline(u)
      BY <2>2 DEF Submitted
    <3>2. t \in Consoles /\ t.x = 0 /\ BlankAfter(t.cells[t.y], 0) /\ BlankBelow(t)
      BY <1>4, <3>1, NewlineBlank
    <3>3. PromptReady(ready, t, p)
      BY <1>2, <3>2, PromptDisplayed
    <3>. QED
      BY <3>3 DEF PromptReady
  <2>. QED
    BY <2>1, <2>2
<1>7. Origin(ready) \in Origins /\ Origin(ready).x = ready.x /\ Origin(ready).y = ready.y
  BY <1>6, OriginIs
<1>8. OnScreen(ready, Origin(ready), p, none, 0)
  <2>1. ready.x + 0 = ready.x
    BY <1>6, ConsoleFields
  <2>. QED
    BY <1>5, <1>6, <1>7, <2>1 DEF OnScreen
<1>. PICK o \in Origins : o = Origin(ready)
  BY <1>7
<1>9. InStep(BelowTheLine(ready), o, p, none, 0, NoMenu)
  BY <1>2, <1>5, <1>8, ShownStays
<1>. QED
  BY <1>1, <1>9 DEF InStepNow

LEMMA ContinuedKept ==
  ASSUME EditorInv, NEW ctrl_j, Continue(ctrl_j)
  PROVE  EditorInv' /\ (InStepNow => InStepNow')
<1>1. Submitted \in Consoles
  BY UncoveredType, NewlineMoves DEF Submitted
<1>2. Start(Submitted, ContinuationPrompt) /\ ContinuationPrompt \in Prompts
  BY DEF Continue, Prompts
<1>. QED
  BY <1>1, <1>2, StartInv, ContinuedShown
-----------------------------------------------------------------------------
(***************************************************************************)
(* The grid of a menu: its cells, their width, the rows and columns.       *)
(***************************************************************************)
LEMMA FormattedType ==
  ASSUME NEW candidate \in RowTexts
  PROVE  format_completion_candidate(candidate) \in RowTexts
<1>. PICK n \in Nat : n = Len(candidate)
  BY DEF RowTexts
<1>. PICK slash : slash = "/"
  OBVIOUS
<1>. PICK trimmed : trimmed = IF candidate # <<>> /\ Last(candidate) = slash THEN Front(candidate) ELSE candidate
  OBVIOUS
<1>. PICK at : at = Max({0} \cup {i \in DOMAIN trimmed : trimmed[i] = slash})
  OBVIOUS
<1>1. candidate \in Seq(Characters) /\ \A i \in 1 .. n : i \in 0 .. n
  BY DEF RowTexts
<1>2. DOMAIN trimmed \subseteq 1 .. n
  <2>1. CASE candidate # <<>> /\ Last(candidate) = slash
    <3>1. n # 0
      BY <1>1, <2>1, EmptySeq
    <3>. PICK k \in Nat : k = n - 1
      BY <3>1
    <3>2. k \in 0 .. Len(candidate) /\ k <= n
      OBVIOUS
    <3>3. trimmed = SubSeq(candidate, 1, k)
      BY <2>1 DEF Front
    <3>4. Len(trimmed) = k /\ trimmed \in Seq(Characters)
      BY <1>1, <3>2, <3>3, Split
    <3>5. DOMAIN trimmed = 1 .. k
      BY <3>4, LenProperties
    <3>6. 1 .. k \subseteq 1 .. n
      BY <3>2
    <3>. QED
      BY <3>5, <3>6
  <2>2. CASE ~(candidate # <<>> /\ Last(candidate) = slash)
    BY <1>1, <2>2, LenProperties
  <2>. QED
    BY <2>1, <2>2
<1>3. at \in 0 .. n
  <2>. PICK S : S = {0} \cup {i \in DOMAIN trimmed : trimmed[i] = slash}
    OBVIOUS
  <2>1. S \in SUBSET (0 .. n) /\ S # {}
    <3>1. 0 \in 0 .. n
      OBVIOUS
    <3>. QED
      BY <1>1, <1>2, <3>1, Zenon
  <2>2. Max(S) \in S
    BY <2>1, MaxUpTo
  <2>. QED
    BY <2>1, <2>2
<1>4. After(candidate, at) \in RowTexts
  BY <1>3, LineCut
<1>5. format_completion_candidate(candidate) = After(candidate, at)
  BY DEF format_completion_candidate
<1>. QED
  BY <1>4, <1>5

LEMMA TruncatedType ==
  ASSUME NEW value \in RowTexts, NEW most \in Nat
  PROVE  truncate_to_display_width(value, most) \in RowTexts /\ display_width(truncate_to_display_width(value, most)) <= most
<1>. PICK n \in Nat : n = Len(value)
  BY DEF RowTexts
<1>. PICK S : S = {k \in 0 .. n : display_width(SubSeq(value, 1, k)) <= most}
  OBVIOUS
<1>1. 0 \in S
  <2>. PICK none : none = SubSeq(value, 1, 0)
    OBVIOUS
  <2>1. 0 \in 0 .. Len(value)
    OBVIOUS
  <2>2. none \in RowTexts /\ Len(none) = 0
    BY <2>1, LineCut
  <2>3. none = <<>>
    BY <2>2, EmptySeq DEF RowTexts
  <2>4. display_width(none) = 0
    BY <2>3, WidthEmpty
  <2>. QED
    BY <2>4
<1>2. S \in SUBSET (0 .. n) /\ S # {}
  BY <1>1
<1>. PICK m : m = Max(S)
  OBVIOUS
<1>3. m \in S
  BY <1>2, MaxUpTo
<1>4. m \in 0 .. Len(value) /\ display_width(SubSeq(value, 1, m)) <= most
  BY <1>3
<1>5. truncate_to_display_width(value, most) = SubSeq(value, 1, m)
  BY DEF truncate_to_display_width
<1>. QED
  BY <1>4, <1>5, LineCut

CellFits(w, left, most, width) == left \in Nat /\ ((1 + w) + left) + 1 = width

LEMMA CellSums ==
  ASSUME NEW w \in Nat, NEW width \in Nat, NEW most \in Nat, NEW left, w <= most, most = width - 2, left = most - w
  PROVE  CellFits(w, left, most, width)
  BY DEF CellFits

CellOf(marker, blank, value, width) ==
  LET shown == truncate_to_display_width(value, width - 2)
  IN <<marker>> \o shown \o Spaces(width - 2 - display_width(shown)) \o <<blank>>

LEMMA CellWith ==
  ASSUME NEW marker \in Characters \ WideChars, NEW value \in RowTexts, NEW width \in Nat, width >= 2,
         NEW blank \in Characters \ WideChars
  PROVE  CellOf(marker, blank, value, width) \in RowTexts /\ display_width(CellOf(marker, blank, value, width)) = width
<1>0. marker \in Characters /\ blank \in Characters /\ <<marker>> \in Seq(Characters) /\ <<blank>> \in Seq(Characters)
  <2>1. marker \in Characters /\ blank \in Characters
    OBVIOUS
  <2>. QED
    BY <2>1
<1>. PICK most : most = width - 2
  OBVIOUS
<1>a. most \in Nat
  OBVIOUS
<1>. PICK shown : shown = truncate_to_display_width(value, most)
  OBVIOUS
<1>1. shown \in RowTexts /\ display_width(shown) <= most
  BY <1>a, TruncatedType
<1>. PICK w \in Nat : w = display_width(shown)
  BY <1>1, WidthType DEF RowTexts
<1>. PICK left : left = most - w
  OBVIOUS
<1>b. CellFits(w, left, most, width)
  BY <1>1, <1>a, CellSums
<1>c. left \in Nat
  BY <1>b DEF CellFits
<1>. PICK mark : mark = <<marker>>
  OBVIOUS
<1>. PICK last : last = <<blank>>
  OBVIOUS
<1>2. mark \in RowTexts /\ last \in RowTexts /\ display_width(mark) = 1 /\ display_width(last) = 1
  <2>2. display_width(<<marker>>) = 1 /\ display_width(<<blank>>) = 1
    BY WidthOne DEF char_display_width
  <2>. QED
    BY <1>0, <2>2 DEF RowTexts
<1>. PICK a : a = mark \o shown
  OBVIOUS
<1>3. a \in RowTexts /\ display_width(a) = 1 + w
  BY <1>1, <1>2, ConcatProperties, WidthConcat DEF RowTexts
<1>. PICK b : b = a \o Spaces(left)
  OBVIOUS
<1>4. b \in RowTexts /\ display_width(b) = (1 + w) + left
  <2>1. b \in RowTexts /\ display_width(b) = display_width(a) + left
    BY <1>3, <1>c, BlanksAfter
  <2>. QED
    BY <2>1, <1>3
<1>. PICK c : c = b \o last
  OBVIOUS
<1>5. c \in RowTexts /\ display_width(c) = ((1 + w) + left) + 1
  <2>1. b \in Seq(Characters) /\ last \in Seq(Characters)
    BY <1>2, <1>4 DEF RowTexts
  <2>2. c \in Seq(Characters) /\ display_width(c) = display_width(b) + display_width(last)
    BY <2>1, ConcatProperties, WidthConcat, ZenonT(20)
  <2>. QED
    BY <2>2, <1>2, <1>4 DEF RowTexts
<1>6. ((1 + w) + left) + 1 = width
  BY <1>b DEF CellFits
<1>7. CellOf(marker, blank, value, width) = c
  BY DEF CellOf
<1>. QED
  BY <1>5, <1>6, <1>7

LEMMA CellType ==
  ASSUME NEW marker \in Characters \ WideChars, NEW value \in RowTexts, NEW width \in Nat, width >= 2
  PROVE  /\ format_completion_cell(marker, value, width) \in RowTexts
         /\ display_width(format_completion_cell(marker, value, width)) = width
<1>1. " " \in Characters \ WideChars
  BY KnownCharacters
<1>2. format_completion_cell(marker, value, width) = CellOf(marker, " ", value, width)
  BY Zenon DEF format_completion_cell, CellOf
<1>3. \A blank \in Characters \ WideChars :
        CellOf(marker, blank, value, width) \in RowTexts /\ display_width(CellOf(marker, blank, value, width)) = width
  BY CellWith
<1>. QED
  BY <1>1, <1>2, <1>3, Zenon

LEMMA Bounded ==
  ASSUME NEW n \in Nat, NEW f, \A i \in 1 .. n : f[i] \in Nat
  PROVE  \E b \in Nat : \A i \in 1 .. n : f[i] <= b
<1>. DEFINE S == {k \in Nat : k <= n => \E b \in Nat : \A i \in 1 .. k : f[i] <= b}
<1>1. 0 \in S
  OBVIOUS
<1>2. ASSUME NEW k \in Nat, k \in S
      PROVE  k + 1 \in S
  <2>. SUFFICES ASSUME k + 1 <= n
                PROVE  \E b \in Nat : \A i \in 1 .. k + 1 : f[i] <= b
    OBVIOUS
  <2>1. PICK b \in Nat : \A i \in 1 .. k : f[i] <= b
    BY <1>2
  <2>2. k + 1 \in 1 .. n
    OBVIOUS
  <2>3. f[k + 1] \in Nat
    BY <2>2
  <2>4. \A i \in 1 .. k : f[i] \in Nat
    OBVIOUS
  <2>5. \A i \in 1 .. k + 1 : i = k + 1 \/ i \in 1 .. k
    OBVIOUS
  <2>. PICK top \in Nat : top = f[k + 1]
    BY <2>3
  <2>6. b + top \in Nat /\ top <= b + top /\ \A x \in Nat : x <= b => x <= b + top
    OBVIOUS
  <2>7. \A i \in 1 .. k + 1 : f[i] <= b + top
    BY <2>1, <2>4, <2>5, <2>6
  <2>. QED
    BY <2>6, <2>7
<1>. HIDE DEF S
<1>3. Nat \subseteq S
  BY <1>1, <1>2, Induction
<1>4. n \in S /\ n <= n
  BY <1>3
<1>. QED
  BY <1>4 DEF S

(* The width of a column has room for every candidate. *)
LEMMA ColumnWidth ==
  ASSUME NEW candidates \in CandidateLists, Len(candidates) >= 1
  PROVE  /\ completion_column_width(candidates) \in Nat /\ completion_column_width(candidates) >= 2
         /\ \A i \in 1 .. Len(candidates) :
              /\ format_completion_candidate(candidates[i]) \in RowTexts
              /\ display_width(format_completion_candidate(candidates[i])) \in Nat
              /\ display_width(format_completion_candidate(candidates[i])) + 2 <= completion_column_width(candidates)
<1>. PICK n \in Nat : n = Len(candidates)
  BY Candidates
<1>. DEFINE shown(i) == format_completion_candidate(candidates[i])
            f == [i \in 1 .. n |-> display_width(shown(i))]
<1>1. \A i \in 1 .. n : shown(i) \in RowTexts /\ display_width(shown(i)) \in Nat
  BY Candidates, FormattedType, WidthType DEF RowTexts
<1>2. \A i \in 1 .. n : f[i] \in Nat /\ f[i] = display_width(shown(i))
  BY <1>1
<1>. DEFINE S == {display_width(shown(i)) : i \in 1 .. n}
<1>3. DOMAIN candidates = 1 .. n
  BY Candidates, LenProperties
<1>4. completion_column_width(candidates) = 2 + Max(S)
  BY <1>3 DEF completion_column_width
<1>. HIDE DEF shown
<1>5. \A i \in 1 .. n : f[i] \in S
  OBVIOUS
<1>6. \A y \in S : \E i \in 1 .. n : y = f[i]
  OBVIOUS
<1>. HIDE DEF f, S
<1>7. PICK b \in Nat : \A i \in 1 .. n : f[i] <= b
  BY <1>2, Bounded
<1>8. S \in SUBSET (0 .. b) /\ S # {}
  <2>1. \A y \in S : y \in 0 .. b
    BY <1>2, <1>6, <1>7
  <2>2. 1 \in 1 .. n
    OBVIOUS
  <2>. QED
    BY <1>5, <2>1, <2>2
<1>. PICK max : max = Max(S)
  OBVIOUS
<1>9. max \in S /\ \A y \in S : max >= y
  BY <1>8, MaxUpTo
<1>10. max \in Nat
  BY <1>2, <1>6, <1>9
<1>11. \A i \in 1 .. n : max >= f[i]
  BY <1>5, <1>9
<1>12. \A x \in Nat : max >= x => x + 2 <= 2 + max
  BY <1>10
<1>13. \A i \in 1 .. n : f[i] + 2 <= 2 + max
  BY <1>2, <1>11, <1>12
<1>14. 2 + max \in Nat /\ 2 + max >= 2
  BY <1>10
<1>. QED
  BY <1>1, <1>2, <1>4, <1>13, <1>14 DEF shown

LEMMA GridIs ==
  ASSUME NEW candidates \in CandidateLists, Len(candidates) >= 1
  PROVE  ColumnsFor(candidates) \in 1 .. 4 /\ RowsFor(candidates) \in Nat \ {0}
<1>. PICK n \in Nat : n = Len(candidates)
  BY Candidates
<1>. PICK w \in Nat : w = completion_column_width(candidates) /\ w >= 2
  BY ColumnWidth
<1>. PICK quotient : quotient = Width \div w
  OBVIOUS
<1>1. quotient \in Int
  BY Sizes
<1>2. Max({1, quotient}) = IF 1 >= quotient THEN 1 ELSE quotient
  BY <1>1, MaxOfTwo
<1>. PICK most : most = Max({1, quotient})
  OBVIOUS
<1>3. most \in Int /\ most >= 1
  BY <1>1, <1>2
<1>4. Min({4, most}) = IF 4 <= most THEN 4 ELSE most
  <2>1. 4 \in Int
    OBVIOUS
  <2>. QED
    BY <2>1, <1>3, MinOfTwo
<1>. PICK c : c = Min({4, most})
  OBVIOUS
<1>5. c \in 1 .. 4
  BY <1>3, <1>4
<1>6. ColumnsFor(candidates) = c
  BY DEF ColumnsFor
<1>. PICK r : r = (n + c - 1) \div c
  OBVIOUS
<1>7. r \in Int
  BY <1>5
<1>8. Max({1, r}) = IF 1 >= r THEN 1 ELSE r
  <2>1. 1 \in Int
    OBVIOUS
  <2>. QED
    BY <2>1, <1>7, MaxOfTwo, ZenonT(20)
<1>9. RowsFor(candidates) = Max({1, r})
  BY <1>6 DEF RowsFor
<1>. QED
  BY <1>5, <1>6, <1>7, <1>8, <1>9

(* Moving the selection never leaves the list. *)
LEMMA DivisionIs ==
  ASSUME NEW a \in Nat, NEW b \in Nat \ {0}
  PROVE  a \div b \in Nat /\ a % b \in Nat /\ a % b < b /\ a = (a \div b) * b + (a % b)
<1>1. a % b \in Nat
  OBVIOUS
<1>2. a % b < b
  OBVIOUS
<1>3. a \div b \in Int
  OBVIOUS
<1>4. a = (a \div b) * b + (a % b)
  OBVIOUS
<1>5. a \div b >= 0
  BY <1>1, <1>2, <1>3, <1>4
<1>. QED
  BY <1>1, <1>2, <1>3, <1>4, <1>5

LEMMA RowBefore ==
  ASSUME NEW k \in Nat, NEW r \in Nat \ {0}, NEW row \in Nat, NEW n \in Nat, (k + 1) * r + row < n
  PROVE  k * r < n
<1>1. (k + 1) * r = k * r + r
  OBVIOUS
<1>. PICK q \in Nat : q = k * r
  OBVIOUS
<1>2. q + r + row < n
  BY <1>1
<1>3. q < n
  BY <1>2
<1>. QED
  BY <1>3

LEMMA ColumnOf ==
  ASSUME NEW n \in Nat, NEW r \in Nat \ {0}, NEW k \in Nat
  PROVE  /\ completion_column_len(n, r, k) \in Nat /\ completion_column_len(n, r, k) <= r
         /\ completion_column_len(n, r, k) > 0 => k * r + completion_column_len(n, r, k) <= n
         /\ k * r < n => completion_column_len(n, r, k) > 0
<1>. PICK p \in Nat : p = k * r
  OBVIOUS
<1>1. Max({0, n - p}) = IF 0 >= n - p THEN 0 ELSE n - p
  <2>1. 0 \in Int /\ n - p \in Int
    OBVIOUS
  <2>. QED
    BY <2>1, MaxOfTwo
<1>. PICK left : left = Max({0, n - p})
  OBVIOUS
<1>2. left \in Int /\ r \in Int
  BY <1>1
<1>3. Min({left, r}) = IF left <= r THEN left ELSE r
  BY <1>2, MinOfTwo
<1>. PICK l : l = Min({left, r})
  OBVIOUS
<1>4. l \in Nat /\ l <= r /\ (l > 0 => p + l <= n) /\ (p < n => l > 0)
  BY <1>1, <1>3
<1>5. completion_column_len(n, r, k) = l
  BY DEF completion_column_len
<1>. QED
  BY <1>4, <1>5

BesideIn(value, n) == value \in Nat /\ value < n

LEMMA BesideIs ==
  ASSUME NEW n \in Nat, NEW r \in Nat \ {0}, NEW k \in Nat, NEW row \in Nat, completion_column_len(n, r, k) > 0
  PROVE  BesideIn(k * r + Min({row, completion_column_len(n, r, k) - 1}), n)
<1>. PICK l \in Nat : l = completion_column_len(n, r, k)
  BY ColumnOf
<1>. PICK p \in Nat : p = k * r
  OBVIOUS
<1>1. l > 0 /\ p + l <= n
  BY ColumnOf
<1>2. Min({row, l - 1}) = IF row <= l - 1 THEN row ELSE l - 1
  <2>1. row \in Int /\ l - 1 \in Int
    OBVIOUS
  <2>. QED
    BY <2>1, MinOfTwo
<1>. PICK less : less = Min({row, l - 1})
  OBVIOUS
<1>3. less \in Nat /\ p + less < n
  BY <1>1, <1>2
<1>. QED
  BY <1>3 DEF BesideIn

LEMMA SelectionIs ==
  ASSUME NEW m, NEW direction, m.selected \in Nat, m.rows \in Nat \ {0}, Len(m.candidates) \in Nat,
         m.selected < Len(m.candidates), direction \in {"Up", "Down", "Left", "Right"}
  PROVE  BesideIn(move_completion_selection_index(m, direction), Len(m.candidates))
<1>. PICK n \in Nat : n = Len(m.candidates)
  OBVIOUS
<1>. PICK r \in Nat \ {0} : r = m.rows
  OBVIOUS
<1>. PICK selected \in Nat : selected = m.selected
  OBVIOUS
<1>. PICK row : row = selected % r
  OBVIOUS
<1>. PICK column : column = selected \div r
  OBVIOUS
<1>. PICK to : to = move_completion_selection_index(m, direction)
  OBVIOUS
<1>1. row \in Nat /\ column \in Nat /\ selected = column * r + row /\ selected < n
  BY DivisionIs
<1>. PICK p \in Nat : p = column * r
  BY <1>1
<1>. DEFINE In(k) == completion_column_len(n, r, k)
            Beside(k) == k * r + Min({row, In(k) - 1})
<1>2. \A k \in Nat : In(k) > 0 => BesideIn(Beside(k), n)
  BY <1>1, BesideIs
<1>3. CASE direction = "Up"
  <2>1. to = IF row > 0 THEN selected - 1 ELSE selected
    BY <1>3 DEF move_completion_selection_index
  <2>2. row > 0 => selected > 0
    BY <1>1
  <2>. QED
    BY <1>1, <2>1, <2>2, SMTT(30) DEF BesideIn
<1>4. CASE direction = "Down"
  <2>1. to = IF row + 1 < In(column) THEN selected + 1 ELSE selected
    BY <1>4 DEF move_completion_selection_index
  <2>2. In(column) \in Nat /\ (In(column) > 0 => p + In(column) <= n)
    BY <1>1, ColumnOf
  <2>. PICK l \in Nat : l = In(column)
    BY <2>2
  <2>. HIDE DEF In
  <2>3. row + 1 < l => selected + 1 < n
    BY <1>1, <2>2, SMTT(30)
  <2>. QED
    BY <1>1, <2>1, <2>3, SMTT(30) DEF BesideIn
<1>5. CASE direction = "Left"
  <2>1. to = IF column > 0 THEN Beside(column - 1) ELSE selected
    BY <1>5 DEF move_completion_selection_index
  <2>2. CASE column > 0
    <3>. PICK k : k = column - 1
      OBVIOUS
    <3>1. k \in Nat /\ column = k + 1
      BY <1>1, <2>2, SMTT(30)
    <3>2. k * r < n
      <4>1. (k + 1) * r + row < n
        BY <1>1, <3>1
      <4>. QED
        BY <1>1, <3>1, <4>1, RowBefore
    <3>3. In(k) > 0
      BY <3>1, <3>2, ColumnOf
    <3>4. BesideIn(Beside(k), n)
      BY <1>2, <3>1, <3>3
    <3>. QED
      BY <2>1, <2>2, <3>4
  <2>3. CASE ~(column > 0)
    BY <1>1, <2>1, <2>3 DEF BesideIn
  <2>. QED
    BY <2>2, <2>3
<1>6. CASE direction = "Right"
  <2>1. to = IF column + 1 < m.columns /\ In(column + 1) > 0 THEN Beside(column + 1) ELSE selected
    BY <1>6 DEF move_completion_selection_index
  <2>2. column + 1 \in Nat
    BY <1>1
  <2>3. CASE column + 1 < m.columns /\ In(column + 1) > 0
    BY <1>2, <2>1, <2>2, <2>3, SMTT(30)
  <2>4. CASE ~(column + 1 < m.columns /\ In(column + 1) > 0)
    BY <1>1, <2>1, <2>4 DEF BesideIn
  <2>. QED
    BY <2>3, <2>4
<1>. QED
  BY <1>3, <1>4, <1>5, <1>6
=============================================================================
